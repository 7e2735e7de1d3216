---------------------------- MODULE AgentRequests ----------------------------
(***************************************************************************)
(* The requests of one agent-side TCPConnection on its TCPClient: those of *)
(* AgentHandler::handle, one for each request of the client up to its      *)
(* CONNECT, then those of postTunnelAction.  Both enable TLS, connect,     *)
(* shake hands, write and read, in an order of their own, and another      *)
(* thread's timer handler may run between any two of these steps.          *)
(*                                                                         *)
(* The server is the environment: it may refuse, stay silent or hang up,   *)
(* and it answers only what it could decode.                               *)
(***************************************************************************)
EXTENDS TCPClient

VARIABLES
    pc,         \* where the strand stands, see PCs
    caller,     \* who makes the requests
    attempt,    \* sendOnce runs for the attempt-th time
    keepAlive,  \* keepAlive of sendOnce
    via,        \* the stream of the blocking call
    late        \* history: a call returned after its timer had expired

request_vars == <<pc, caller, attempt, keepAlive, via>>
vars == <<client_vars, request_vars, late>>

Blocking == {"connecting", "shaking", "writing", "reading"}
PCs == Blocking \cup {"idle", "enable", "check", "connect", "opening", "dialing",
                      "shake", "write", "read", "done"}

Goto(place) == pc' = place /\ UNCHANGED <<caller, attempt, keepAlive, via>>

\* Mutant of CanRetry: sendOnce is called again and again.
RetryForever == caller = "post" /\ keepAlive
CanRetry == caller = "post" /\ keepAlive /\ attempt = 1

\* Where the strand goes when a request has failed: sendOnce again, the end
\* of the connection after handle, the next post after postTunnelAction.
AfterFailure ==
    /\ IF CanRetry THEN pc' = "check" /\ attempt' = attempt + 1
       ELSE /\ pc' = IF caller = "handle" THEN "done" ELSE "idle"
            /\ UNCHANGED attempt
    /\ UNCHANGED <<caller, keepAlive, via>>

\* Mutant of Fail: the socket of a failed request is left as it is.
FailOnly == /\ CancelTimeout /\ AfterFailure
            /\ UNCHANGED <<config, tcp, ssl, shaken, tlsEnabled, closed, queued, shutting>>

Fail == SocketShutdown /\ AfterFailure

Block(place, kind) ==
    /\ ResetTimeout
    /\ pc' = place /\ via' = kind
    /\ UNCHANGED <<caller, attempt, keepAlive>>
-----------------------------------------------------------------------------
BeginHandle ==
    /\ pc = "idle" /\ caller = "handle"
    /\ Goto("enable")
    /\ UNCHANGED client_vars

\* The CONNECT was answered: from now on postTunnelAction makes the requests.
StartTunnel ==
    /\ pc = "idle" /\ caller = "handle"
    /\ caller' = "post"
    /\ UNCHANGED <<pc, attempt, keepAlive, via>>
    /\ IF config.reuse THEN UNCHANGED client_vars ELSE SocketShutdown

BeginPost ==
    /\ pc = "idle" /\ caller = "post"
    /\ pc' = "check" /\ attempt' = 1
    /\ keepAlive' \in BOOLEAN /\ (keepAlive' => config.reuse)
    /\ UNCHANGED <<caller, via, client_vars>>

\* The client is gone, or its connection was idle for too long.
ConnectionEnds ==
    /\ pc = "idle"
    /\ SocketShutdown
    /\ Goto("done")

\* sendOnce looks for an open socket first, handle enables TLS first.
Enable ==
    /\ pc = "enable"
    /\ EnableTls
    /\ Goto(IF caller = "handle" THEN "check" ELSE "connect")
    /\ UNCHANGED <<config, tcp, closed, timer, queued, shutting>>

CheckOpen ==
    /\ pc = "check"
    /\ Goto(IF IsOpen THEN "write" ELSE IF caller = "handle" THEN "connect" ELSE "enable")
    /\ UNCHANGED client_vars

\* doConnect: nothing to do, or the name resolves, or it does not.
ConnectedAlready ==
    /\ pc = "connect" /\ IsOpen
    /\ Goto("shake")
    /\ UNCHANGED client_vars

ResolveFails ==
    /\ pc = "connect" /\ ~IsOpen
    /\ AfterFailure
    /\ IF CanRetry \/ caller = "handle" THEN SocketShutdown ELSE UNCHANGED client_vars

StartConnect ==
    /\ pc = "connect" /\ ~IsOpen
    /\ Goto("opening")
    /\ UNCHANGED client_vars

\* tlsEnabled_ is read again behind the resolver.
ReplaceStream ==
    /\ pc = "opening"
    /\ NewStream(Kind)
    /\ Block("dialing", Kind)
    /\ UNCHANGED <<config, tlsEnabled, queued, shutting>>

Dial ==
    /\ pc = "dialing"
    /\ OpenStream(via)
    /\ Goto("connecting")
    /\ UNCHANGED <<config, shaken, tlsEnabled, closed, timer, queued, shutting>>

\* Mutant of StartHandshake: an open stream is taken for a TLS session.
SkipHandshake == pc = "shake" /\ Goto("write") /\ UNCHANGED client_vars

StartHandshake ==
    /\ pc = "shake"
    /\ \/ ~tlsEnabled /\ Goto("write") /\ UNCHANGED client_vars
       \/ tlsEnabled /\ ssl # "open" /\ Fail
       \/ /\ tlsEnabled /\ ssl = "open"
          /\ Block("shaking", "ssl")
          /\ UNCHANGED <<config, tcp, ssl, shaken, tlsEnabled, closed, queued, shutting>>

\* handle does not look at the result of doWrite and goes on to read.
AfterWriteFailure == IF caller = "handle" THEN SocketShutdown /\ Goto("read") ELSE Fail

StartWrite ==
    /\ pc = "write"
    /\ IF IsOpen
       THEN /\ Block("writing", Kind)
            /\ UNCHANGED <<config, tcp, ssl, shaken, tlsEnabled, closed, queued, shutting>>
       ELSE AfterWriteFailure

\* Mutant of StartRead: the timer is not set.
ReadUntimed ==
    /\ pc = "read"
    /\ IF IsOpen
       THEN pc' = "reading" /\ via' = Kind /\ UNCHANGED <<caller, attempt, keepAlive, client_vars>>
       ELSE Fail

StartRead ==
    /\ pc = "read"
    /\ IF IsOpen
       THEN /\ Block("reading", Kind)
            /\ UNCHANGED <<config, tcp, ssl, shaken, tlsEnabled, closed, queued, shutting>>
       ELSE Fail
-----------------------------------------------------------------------------
(* The end of a blocking call.                                             *)
CallSucceeds(next) ==
    /\ Open(via)
    /\ CancelTimeout
    /\ Goto(next)
    /\ UNCHANGED <<config, tcp, ssl, tlsEnabled, closed, queued, shutting>>

Connected == pc = "connecting" /\ CallSucceeds("shake") /\ UNCHANGED shaken
Shaken == pc = "shaking" /\ CallSucceeds("write") /\ shaken' = TRUE
Written == pc = "writing" /\ CallSucceeds("read") /\ UNCHANGED shaken

\* The server answers TLS with TLS and plain text with plain text.
Answered ==
    /\ pc = "reading" /\ Open(via)
    /\ (via = "ssl") = config.tls
    /\ IF caller = "post" /\ ~keepAlive
       THEN SocketShutdown /\ Goto("idle")
       ELSE CallSucceeds("idle") /\ UNCHANGED shaken

\* The server refuses, hangs up or sends something that is no answer; or the
\* timer's handler has closed the socket.
CallFails ==
    /\ pc \in Blocking
    /\ IF pc = "writing" THEN AfterWriteFailure ELSE Fail

PeerFails == Open(via) /\ CallFails
Interrupted == ~Open(via) /\ CallFails
-----------------------------------------------------------------------------
Init ==
    /\ ClientInit
    /\ pc = "idle" /\ caller = "handle"
    /\ attempt = 1 /\ keepAlive = FALSE /\ via = "tcp"
    /\ late = FALSE

\* What the strand does by itself, and what it does for others.
Progress ==
    \/ Enable \/ CheckOpen \/ ConnectedAlready \/ ResolveFails \/ StartConnect
    \/ ReplaceStream \/ Dial \/ StartHandshake \/ StartWrite \/ StartRead \/ Interrupted
Request ==
    \/ BeginHandle \/ StartTunnel \/ BeginPost \/ ConnectionEnds \/ Progress
    \/ Connected \/ Shaken \/ Written \/ Answered \/ PeerFails

\* A timer set for seconds does not expire before the call it guards begins.
Expiry == pc \in Blocking /\ TimerExpires
Timer == (Expiry \/ OnTimeout \/ EndShutdown) /\ UNCHANGED request_vars

\* The call of the strand returns although its timer has expired: the handler
\* in the queue will hit whatever the client does by then.
ReturnsLate == pc \in Blocking /\ pc' # pc /\ Open(via) /\ queued > 0

Next == (Request \/ Timer) /\ late' = (late \/ ReturnsLate)

Spec == Init /\ [][Next]_vars

\* The pool runs every handler that is ready, also while the strand is inside
\* a blocking call, and armed timers expire.  Nothing is asked of the server.
Fairness ==
    /\ WF_vars(Next /\ Progress)
    /\ WF_vars(Next /\ Expiry) /\ WF_vars(Next /\ OnTimeout) /\ WF_vars(Next /\ EndShutdown)

FairSpec == Spec /\ Fairness
-----------------------------------------------------------------------------
(* Properties.                                                             *)

\* Every variable has its type.
TypeOK ==
    /\ ClientTypeOK
    /\ pc \in PCs
    /\ caller \in {"handle", "post"}
    /\ attempt \in 1..2
    /\ keepAlive \in BOOLEAN /\ late \in BOOLEAN
    /\ via \in Kinds

\* Nothing is written to an open TLS stream before its handshake is done, in
\* whatever order enableTlsClient, doConnect and a timer's handler ran.
HandshakeFirst == pc \in {"writing", "reading"} /\ via = "ssl" /\ ssl = "open" => shaken

\* "tlsEnable: enables or disables tls between agent and server": with it, no
\* request is written to a plain socket.
TlsOnly == config.tls /\ pc = "writing" /\ via = "tcp" => tcp # "open"

\* It holds as long as no call returns behind its timer.
TlsInTime == ~late => TlsOnly

\* An open socket can be shut down: closed_ is set only when both are closed.
\* The timer's handler relies on it to wake a blocked call.
ShutdownWorks == ~late /\ closed => ~AnyOpen

\* The timer runs only over a blocking call, so an idle connection to the
\* server is not cut by the timeout of an earlier request.
TimerScoped == timer => pc \in Blocking \cup {"dialing"}

\* A request is repeated on a new connection, and where connections are not
\* reused no post leaves its connection to the next one.
StartsClean ==
    ~late /\ caller = "post" =>
        /\ pc = "check" /\ attempt = 2 => ~AnyOpen
        /\ pc = "idle" /\ ~config.reuse => ~AnyOpen

\* Every request ends, though the server stays silent for good.
Busy == pc \notin {"idle", "done"}
RequestEnds == Busy ~> (~Busy \/ late)
=============================================================================
