------------------------------ MODULE TCPClient ------------------------------
(***************************************************************************)
(* The agent's TCPClient: one connection to the server, plain or TLS, and  *)
(* the timer over its blocking calls.                                      *)
(*                                                                         *)
(* The calls are made on the strand of a TCPConnection.  The timer's       *)
(* handler is bound to no strand, so another thread of the pool runs it,   *)
(* and cancelTimeout cannot take back a handler that is queued already.    *)
(* Both sides call socketShutdown, under mutex_; nothing else looks at     *)
(* mutex_ before it reads tlsEnabled_ or a socket.                         *)
(*                                                                         *)
(* general.timeout is not 0 here.  Lengths of time are left out: an armed  *)
(* timer may expire at any moment of the call it guards.                   *)
(***************************************************************************)
EXTENDS Naturals

CONSTANT MaxQueued      \* bound: timer handlers waiting for a thread

ASSUME QueuedAssumption == MaxQueued \in Nat \ {0}

VARIABLES
    config,     \* general.tlsEnable and general.connectionReuse
    tcp,        \* socket_
    ssl,        \* the lowest layer of *sslSocket_
    shaken,     \* the handshake on *sslSocket_ is done
    tlsEnabled, \* tlsEnabled_
    closed,     \* closed_
    timer,      \* timeout_ has a wait outstanding
    queued,     \* handlers of expired waits that have not run
    shutting    \* a timer handler holds mutex_ inside socketShutdown

client_vars ==
    <<config, tcp, ssl, shaken, tlsEnabled, closed, timer, queued, shutting>>

Configs == [tls : BOOLEAN, reuse : BOOLEAN]
Kinds == {"tcp", "ssl"}
Layers == {"null", "closed", "open"}

Open(kind) == IF kind = "ssl" THEN ssl = "open" ELSE tcp = "open"
Kind == IF tlsEnabled THEN "ssl" ELSE "tcp"
IsOpen == Open(Kind)
AnyOpen == tcp = "open" \/ ssl = "open"

CloseSockets ==
    /\ tcp' = "closed"
    /\ ssl' = IF ssl = "null" THEN ssl ELSE "closed"

\* Mutant of EnableTls: only the first connection is made over TLS.
EnableOnce ==
    IF config.tls /\ ssl = "null"
    THEN tlsEnabled' = TRUE /\ ssl' = "closed" /\ shaken' = FALSE
    ELSE UNCHANGED <<tlsEnabled, ssl, shaken>>

\* A new stream is made unless TLS is on already; an old one dies with it.
EnableTls ==
    IF config.tls /\ ~tlsEnabled
    THEN tlsEnabled' = TRUE /\ ssl' = "closed" /\ shaken' = FALSE
    ELSE UNCHANGED <<tlsEnabled, ssl, shaken>>

ResetTimeout == timer' = TRUE

\* Mutant of CancelTimeout: the wait goes on.
KeepTimer == UNCHANGED timer
CancelTimeout == timer' = FALSE

\* socketShutdown as the strand calls it, its own timer being cancelled.
SocketShutdown ==
    /\ ~shutting
    /\ IF closed THEN UNCHANGED <<closed, tcp, ssl, tlsEnabled>>
       ELSE closed' = TRUE /\ CloseSockets /\ tlsEnabled' = FALSE
    /\ CancelTimeout
    /\ UNCHANGED <<config, shaken, queued, shutting>>

\* Mutant of NewStream: closed_ keeps the value the last shutdown gave it.
StaysClosed(kind) ==
    /\ IF kind = "ssl" THEN ssl' = "closed" /\ shaken' = FALSE /\ UNCHANGED tcp
                       ELSE tcp' = "closed" /\ UNCHANGED <<ssl, shaken>>
    /\ UNCHANGED closed

\* doConnect replaces the stream it is about to connect.
NewStream(kind) ==
    /\ IF kind = "ssl" THEN ssl' = "closed" /\ shaken' = FALSE /\ UNCHANGED tcp
                       ELSE tcp' = "closed" /\ UNCHANGED <<ssl, shaken>>
    /\ closed' = FALSE

OpenStream(kind) ==
    IF kind = "ssl" THEN ssl' = "open" /\ UNCHANGED tcp
                    ELSE tcp' = "open" /\ UNCHANGED ssl

-----------------------------------------------------------------------------
(* The timer, on whatever thread of the pool.                              *)
TimerExpires ==
    /\ timer /\ queued < MaxQueued
    /\ timer' = FALSE /\ queued' = queued + 1
    /\ UNCHANGED <<config, tcp, ssl, shaken, tlsEnabled, closed, shutting>>

\* onTimeout closes the sockets ...
OnTimeout ==
    /\ queued > 0 /\ ~shutting
    /\ queued' = queued - 1
    /\ IF closed THEN UNCHANGED <<closed, tcp, ssl, timer, shutting>>
       ELSE closed' = TRUE /\ CloseSockets /\ CancelTimeout /\ shutting' = TRUE
    /\ UNCHANGED <<config, shaken, tlsEnabled>>

\* ... and at the end of the same call turns TLS off and frees mutex_.
EndShutdown ==
    /\ shutting
    /\ shutting' = FALSE /\ tlsEnabled' = FALSE
    /\ UNCHANGED <<config, tcp, ssl, shaken, closed, timer, queued>>
-----------------------------------------------------------------------------
ClientInit ==
    /\ config \in Configs
    /\ tcp = "closed" /\ ssl = "null" /\ shaken = FALSE
    /\ tlsEnabled = FALSE /\ closed = FALSE
    /\ timer = FALSE /\ queued = 0 /\ shutting = FALSE

ClientTypeOK ==
    /\ config \in Configs
    /\ tcp \in Layers \ {"null"} /\ ssl \in Layers
    /\ shaken \in BOOLEAN /\ tlsEnabled \in BOOLEAN /\ closed \in BOOLEAN
    /\ timer \in BOOLEAN /\ shutting \in BOOLEAN
    /\ queued \in 0..MaxQueued
=============================================================================
