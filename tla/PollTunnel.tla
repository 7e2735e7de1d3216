------------------------------ MODULE PollTunnel ------------------------------
(***************************************************************************)
(* One tunnel in poll mode (general.tunnelEnable = no), end to end: the    *)
(* agent's TCPConnection with its TCPClient, the agent-to-server           *)
(* connections, and the ServerHandlers that work for the tunnel.           *)
(*                                                                         *)
(* The agent opens the tunnel with one request, then reads the client and  *)
(* posts every chunk as a "send", polls the server with a "recv" every     *)
(* pullTimeout ms and writes what comes back to the client, and posts a    *)
(* "close" when the client is gone.  All of it runs on the connection's    *)
(* strand and postTunnelAction blocks it, so at most one post is in        *)
(* progress; the server's handlers, the target and the network go on       *)
(* meanwhile.  When a post fails it is tried once more if connections are  *)
(* reused, on a new connection, whatever became of the first try.          *)
(*                                                                         *)
(* Left out: TLS (module TCPClient), the SOCKS5 exchange before the open,  *)
(* and the length of timeouts: the agent's timer may fire at any moment of *)
(* a post, the server's at any moment a used connection is idle.           *)
(***************************************************************************)
EXTENDS ServerHandler

CONSTANTS
    NoLink,         \* the agent's TCPClient has no open socket
    MaxUp,          \* bound: chunks the client sends
    Protocol,       \* agent side protocol, general.protocol
    FaultKinds,     \* which faults the network and the timers may cause
    PartialWrites   \* the client's socket may take a part of what is written

ASSUME AgentAssumption ==
    /\ NoLink \notin Conns
    /\ MaxUp \in Nat
    /\ Protocol \in {"http", "socks5"}
    /\ FaultKinds \subseteq {"idle", "refuse", "lost"}
    /\ PartialWrites \in BOOLEAN

VARIABLES
    pc,             \* where the strand stands, see PCs
    cur,            \* the request being posted, or posted last
    link,           \* connection of the agent's TCPClient
    fresh,          \* nothing was answered on that connection yet
    poll,           \* the poll loop, see Polls
    tunnelClosed,   \* tunnelClosed_
    upRead,         \* chunks read from the client
    sending,        \* chunk an async_write still points at
    reply,          \* what the client was told of its CONNECT
    clientGot,      \* chunks that reached the client, in order
    faults          \* history: the kinds of faults so far

agent_vars ==
    <<pc, cur, link, fresh, poll, tunnelClosed, upRead, sending, reply, clientGot>>
vars == <<server_vars, agent_vars, faults>>

\* "attempt" and "wait" are inside a blocking post, "reply" is the write of
\* the answer to the CONNECT, "idle" has a read of the client outstanding.
PCs == {"attempt", "wait", "reply", "idle", "closed"}
Polls == {"off", "timer", "write"}

KeepAlive == Reuse /\ cur.act # "close"

\* Mutants of CanRetry: it never repeats a post; it repeats without end; it
\* repeats where connections are not reused, too.
NeverRetry == FALSE
RetryForever == Reuse /\ cur.act \in {"send", "recv"}
RetryWithoutReuse == cur.act \in {"send", "recv"} /\ cur.attempt = 1

CanRetry == Reuse /\ cur.act \in {"send", "recv"} /\ cur.attempt = 1

\* Mutant of TunnelLive: the queued poll handler does not look at tunnelClosed_.
AlwaysLive == TRUE
TunnelLive == ~tunnelClosed /\ pc # "closed"
Posting == pc \in {"attempt", "wait"}

\* Mutant of ReplyTo: HTTP clients are told what SOCKS5 clients are told.
GrantAll(resp) == "established"

\* What handleReadAgent tells the client: AgentHandler::connect_ is the method
\* of the request, and SOCKS5 looks at nothing else.
ReplyTo(resp) ==
    IF Protocol = "socks5" \/ resp.ok THEN "established" ELSE "refused"

Post(act, chunk) ==
    /\ pc' = "attempt"
    /\ cur' = [act |-> act, chunk |-> chunk, attempt |-> 1]

\* closeTunnelSession: the last request of the tunnel.
CloseTunnel == tunnelClosed' = TRUE /\ Post("close", NoData)

\* Mutant of AfterPost: an empty poll is not followed by another.
StopPolling ==
    /\ pc' = IF cur.act \in {"send", "recv"} THEN "idle" ELSE "closed"
    /\ UNCHANGED poll

\* Where the strand goes when a post is over without data: the next read of
\* the client, the next poll, or, with no tunnel to go on with, the end.
AfterPost ==
    /\ pc' = IF cur.act \in {"send", "recv"} THEN "idle" ELSE "closed"
    /\ poll' = IF cur.act = "recv" THEN "timer" ELSE poll

\* Mutant of Shutdown: the socket of a failed try is kept.
KeepSocket == UNCHANGED <<link, fresh>>

\* client_->socketShutdown()
Shutdown == link' = NoLink /\ fresh' = FALSE

\* sendOnce returned "", having shut its socket down.
FailAttempt ==
    /\ Shutdown
    /\ IF CanRetry
       THEN /\ pc' = "attempt"
            /\ cur' = [cur EXCEPT !.attempt = 2]
            /\ UNCHANGED poll
       ELSE AfterPost /\ UNCHANGED cur
    /\ UNCHANGED <<tunnelClosed, upRead, sending, reply, clientGot>>

Fault(kind) == kind \in FaultKinds /\ faults' = faults \cup {kind}
-----------------------------------------------------------------------------
(* One try of a post: sendOnce, and the same steps in AgentHandler::handle *)
Unused(c) ==
    /\ c \notin srvOpen /\ step[c] = "idle"
    /\ reqs[c] = <<>> /\ resps[c] = <<>>

\* Connect if there is no open socket, then write the request.
Connect ==
    /\ pc = "attempt" /\ link = NoLink
    /\ \E c \in Conns :
          /\ Unused(c)
          /\ link' = c
          /\ srvOpen' = srvOpen \cup {c}
    /\ fresh' = TRUE
    /\ UNCHANGED <<pc, cur, poll, tunnelClosed, upRead, sending, reply,
                   clientGot, faults, session_vars, reqs, resps, step, held>>

ConnectRefused ==
    /\ pc = "attempt" /\ link = NoLink
    /\ Fault("refuse")
    /\ FailAttempt
    /\ UNCHANGED server_vars

\* The write succeeds on a connection the server has closed, too.
WriteRequest ==
    /\ pc = "attempt" /\ link # NoLink
    /\ pc' = "wait"
    /\ reqs' = IF link \in srvOpen
               THEN [reqs EXCEPT ![link] = Append(@, cur)] ELSE reqs
    /\ UNCHANGED <<cur, link, fresh, poll, tunnelClosed, upRead, sending, reply,
                   clientGot, faults, session_vars, srvOpen, resps, step, held>>

\* doReadAgent sees the end of the stream.
ReadEof ==
    /\ pc = "wait" /\ link \notin srvOpen /\ resps[link] = <<>>
    /\ FailAttempt
    /\ UNCHANGED <<faults, server_vars>>

\* Mutant of ReadTimeout: the timer is not armed again for the second try.
TimeoutOnce ==
    /\ pc = "wait" /\ cur.attempt = 1
    /\ Fault("lost")
    /\ FailAttempt
    /\ UNCHANGED server_vars

\* The agent's TCPClient::onTimeout shuts the socket down under the reader.
ReadTimeout ==
    /\ pc = "wait"
    /\ Fault("lost")
    /\ FailAttempt
    /\ UNCHANGED server_vars

\* Mutant of Unread: the buffer is not emptied before the next read.
StillUnread(c) == resps[c]

\* What is left to read on the connection behind the next response.
Unread(c) == Tail(resps[c])

\* The response is read; data of a "recv" goes to async_write, whose first
\* attempt runs at once and may leave a rest for later.
ReadResponse ==
    /\ pc = "wait" /\ resps[link] # <<>>
    /\ LET resp == Head(resps[link]) IN
          /\ resps' = [resps EXCEPT ![link] = Unread(link)]
          /\ IF cur.act = "open"
             THEN pc' = "reply" /\ reply' = ReplyTo(resp) /\ UNCHANGED <<poll, sending, clientGot>>
             ELSE IF cur.act = "recv" /\ resp.data # NoData
             THEN /\ pc' = "idle" /\ poll' = "write"
                  /\ \/ clientGot' = Append(clientGot, resp.data) /\ UNCHANGED sending
                     \/ PartialWrites /\ sending' = resp.data /\ UNCHANGED clientGot
                  /\ UNCHANGED reply
             ELSE AfterPost /\ UNCHANGED <<sending, clientGot, reply>>
    /\ link' = IF KeepAlive \/ cur.act = "open" THEN link ELSE NoLink
    /\ fresh' = FALSE
    /\ UNCHANGED <<cur, tunnelClosed, upRead, faults, session_vars,
                   srvOpen, reqs, step, held>>
-----------------------------------------------------------------------------
(* The other handlers of the agent's connection.                           *)

\* Mutant of ReplyWritten: the connection of the open is not given up.
ReplyKeepsLink ==
    /\ pc = "reply"
    /\ pc' = "idle" /\ poll' = "timer"
    /\ UNCHANGED <<cur, link, fresh, tunnelClosed, upRead, sending, reply,
                   clientGot, faults, server_vars>>

\* The answer to the CONNECT is written: the tunnel starts, also after a 502.
ReplyWritten ==
    /\ pc = "reply"
    /\ pc' = "idle" /\ poll' = "timer"
    /\ link' = IF Reuse THEN link ELSE NoLink
    /\ UNCHANGED <<cur, fresh, tunnelClosed, upRead, sending, reply, clientGot,
                   faults, server_vars>>

\* The client left before it was answered: nothing is posted.
ReplyBroken ==
    /\ pc = "reply"
    /\ pc' = "closed" /\ link' = NoLink
    /\ UNCHANGED <<cur, fresh, poll, tunnelClosed, upRead, sending, reply,
                   clientGot, faults, server_vars>>

ReadClient ==
    /\ pc = "idle" /\ upRead < MaxUp
    /\ upRead' = upRead + 1
    /\ Post("send", upRead + 1)
    /\ UNCHANGED <<link, fresh, poll, tunnelClosed, sending, reply, clientGot,
                   faults, server_vars>>

ClientLeaves ==
    /\ pc = "idle"
    /\ CloseTunnel
    /\ UNCHANGED <<link, fresh, poll, upRead, sending, reply, clientGot,
                   faults, server_vars>>

\* The poll timer's handler, which may be queued when the tunnel is closed.
PollFires ==
    /\ pc \in {"idle", "closed"} /\ poll = "timer"
    /\ poll' = "off"
    /\ IF TunnelLive THEN Post("recv", NoData) ELSE UNCHANGED <<pc, cur>>
    /\ UNCHANGED <<link, fresh, tunnelClosed, upRead, sending, reply, clientGot,
                   faults, server_vars>>

\* The rest of a write goes out.  Its buffer was a local of the handler that
\* started the write: the bytes are whatever is there now.
WriteDone ==
    /\ pc = "idle" /\ poll = "write"
    /\ IF sending = NoData
       THEN UNCHANGED <<sending, clientGot>>
       ELSE /\ \E bytes \in {sending, Garbage} : clientGot' = Append(clientGot, bytes)
            /\ sending' = NoData
    /\ poll' = "timer"
    /\ UNCHANGED <<pc, cur, link, fresh, tunnelClosed, upRead, reply, faults, server_vars>>

WriteBroken ==
    /\ pc = "idle" /\ poll = "write"
    /\ poll' = "off" /\ sending' = NoData
    /\ CloseTunnel
    /\ UNCHANGED <<link, fresh, upRead, reply, clientGot, faults, server_vars>>
-----------------------------------------------------------------------------
(* The connections: what the server's TCPConnection does when its timer    *)
(* fires or its peer is gone, and what the network may do.                 *)

\* Mutant of IdleTimeout: the timer runs on while a handler is at work.
BusyTimeout(c) ==
    /\ c \in srvOpen
    /\ c = link /\ ~fresh
    /\ Fault("idle")
    /\ srvOpen' = srvOpen \ {c}
    /\ reqs' = [reqs EXCEPT ![c] = <<>>]
    /\ UNCHANGED <<resps, step, held, session_vars, agent_vars>>

\* The server's idle timer closes a connection that has served a request,
\* possibly as the next request is arriving.
IdleTimeout(c) ==
    /\ c \in srvOpen /\ step[c] = "idle"
    /\ c = link /\ ~fresh
    /\ Fault("idle")
    /\ srvOpen' = srvOpen \ {c}
    /\ reqs' = [reqs EXCEPT ![c] = <<>>]
    /\ UNCHANGED <<resps, step, held, session_vars, agent_vars>>

\* The connection breaks after the request was handled.
LoseResponse(c) ==
    /\ resps[c] # <<>>
    /\ Fault("lost")
    /\ srvOpen' = srvOpen \ {c}
    /\ resps' = [resps EXCEPT ![c] = <<>>]
    /\ UNCHANGED <<reqs, step, held, session_vars, agent_vars>>

\* The server notices that the agent has left the connection.
Reap(c) ==
    /\ c # link /\ step[c] = "idle" /\ ~Unused(c)
    /\ srvOpen' = srvOpen \ {c}
    /\ reqs' = [reqs EXCEPT ![c] = <<>>]
    /\ resps' = [resps EXCEPT ![c] = <<>>]
    /\ UNCHANGED <<step, held, session_vars, agent_vars, faults>>
-----------------------------------------------------------------------------
\* The client has sent its CONNECT, over HTTP perhaps with a chunk behind it.
Init ==
    /\ ServerInit
    /\ pc = "attempt"
    /\ upRead \in (IF Protocol = "http" /\ MaxUp > 0 THEN 0..1 ELSE {0})
    /\ cur = [act |-> "open", chunk |-> upRead, attempt |-> 1]
    /\ link = NoLink /\ fresh = FALSE
    /\ poll = "off" /\ sending = NoData
    /\ tunnelClosed = FALSE
    /\ reply = "none"
    /\ clientGot = <<>>
    /\ faults = {}

PostStep == Connect \/ ConnectRefused \/ WriteRequest \/ ReadEof \/ ReadTimeout \/ ReadResponse
AgentStep ==
    \/ PostStep
    \/ ReplyWritten \/ ReplyBroken
    \/ ReadClient \/ ClientLeaves \/ PollFires \/ WriteDone \/ WriteBroken

ServerStep == ServerNext /\ UNCHANGED <<agent_vars, faults>>
ConnStep == \E c \in Conns : IdleTimeout(c) \/ LoseResponse(c) \/ Reap(c)

Next == AgentStep \/ ServerStep \/ ConnStep

Spec == Init /\ [][Next]_vars

\* The pool runs every handler that is ready, the poll timer expires, and the
\* strand takes its handlers in turn.  Nothing is asked of the client, the
\* target or the faults, save that a timer that has been armed expires.
Fairness ==
    /\ WF_vars(Connect) /\ WF_vars(WriteRequest)
    /\ WF_vars(ReadEof) /\ WF_vars(ReadResponse) /\ WF_vars(ReadTimeout)
    /\ WF_vars(ReplyWritten \/ ReplyBroken)
    /\ WF_vars(PollFires) /\ WF_vars(WriteDone \/ WriteBroken)
    /\ \A c \in Conns :
          WF_vars(Handler(c) /\ UNCHANGED <<agent_vars, faults>>) /\ WF_vars(Reap(c))

FairSpec == Spec /\ Fairness
-----------------------------------------------------------------------------
(* Properties.                                                             *)

AgentTypeOK ==
    /\ pc \in PCs
    /\ cur \in Request
    /\ link \in Conns \cup {NoLink}
    /\ fresh \in BOOLEAN
    /\ poll \in Polls
    /\ tunnelClosed \in BOOLEAN
    /\ upRead \in 0..MaxUp
    /\ sending \in Nat
    /\ reply \in {"none", "established", "refused"}
    /\ clientGot \in Seq(Nat)
    /\ faults \subseteq FaultKinds

\* Every variable has its type.
TypeOK == ServerTypeOK /\ AgentTypeOK

Serving(c) == step[c] # "idle"
InFlight(c) == Len(reqs[c]) + Len(resps[c]) + (IF Serving(c) THEN 1 ELSE 0)

\* A connection never carries more than one exchange, and the agent's carries
\* none unless the strand waits for it: a try that was given up leaves its
\* connection behind, so its answer cannot be taken for a later one's.
OneExchange ==
    \A c \in Conns :
        /\ InFlight(c) <= 1
        /\ c = link /\ pc # "wait" => InFlight(c) = 0

\* The response the strand reads is the answer to the request it posted, and
\* to this try of it.
AnswerMatches ==
    pc = "wait" => \A i \in DOMAIN resps[link] : resps[link][i].req = cur

\* While nothing but an idle connection was cut, one handler at most works
\* for the tunnel, and the strand is waiting for it.  This is what keeps two
\* threads out of one TCPClient, which doWrite and the recv handler rely on.
OneHandler ==
    faults \subseteq {"idle"} =>
        \A c \in Conns : Serving(c) => c = link /\ pc = "wait"

\* While nothing but an idle connection was cut, the target receives exactly
\* the chunks the client sent, in order and once, however many of the posts
\* had to be repeated; between two posts it has received all of them.
UpstreamIntact ==
    faults \subseteq {"idle"} =>
        /\ \A i \in DOMAIN targetGot : targetGot[i] = i
        /\ pc = "idle" /\ target = "open" => Len(targetGot) = upRead

\* The same for what the target sends: what the server took from the target's
\* socket has reached the client, or is in the client's socket, whenever the
\* strand is between two posts.
DownstreamIntact ==
    faults \subseteq {"idle"} =>
        /\ \A i \in DOMAIN clientGot : clientGot[i] = i
        /\ pc = "idle" /\ sending = NoData => Len(clientGot) = taken

\* Whatever happens to the connections, the client never receives a chunk
\* twice or after a later one: what a failed poll loses is lost.
DownstreamOrder ==
    \A i, j \in DOMAIN clientGot : i < j => clientGot[i] < clientGot[j]

\* postTunnelAction repeats a post once at most, and only where connections
\* are reused: as long as no two writes to the target overlapped, no chunk
\* reaches it more often than that.  Writes that do overlap share one buffer,
\* and then nothing bounds what either of them sends; OneHandler says when
\* they cannot.
BoundedCopies ==
    ~mixed => \A k \in 1..MaxUp :
        Cardinality({i \in DOMAIN targetGot : targetGot[i] = k}) <= IF Reuse THEN 2 ELSE 1

\* Where connections are not reused, every post has a connection of its own.
OwnConnection == ~Reuse /\ pc = "wait" => fresh

\* Once the tunnel is closed nothing but the close is posted, whatever timers
\* and completions were queued on the strand at that moment.
CloseIsLast == tunnelClosed /\ Posting => cur.act = "close"

\* When no connection failed, a tunnel that was closed leaves no session
\* behind on the server.
CloseRemovesSession ==
    faults = {} /\ pc = "closed" /\ tunnelClosed => ~session

\* A client that was told its tunnel is established has one: the server has
\* connected to the target and keeps the session until the tunnel is closed.
GrantIsReal ==
    reply = "established" /\ TunnelLive => session /\ target # "none"

\* The client receives only bytes the target sent.
NoGarbage == \A i \in DOMAIN clientGot : clientGot[i] # Garbage

\* Each post comes to an end, so the strand always serves the client again.
PostReturns == []<>~Posting

\* Unless a post is refused or lost, what the target sent reaches the client,
\* or the client leaves, or the session's socket is shut down first.  None of
\* this is ever undone, so that "again and again" says "at last".
DownstreamDelivered ==
    \A n \in 1..MaxDown :
        []<>(produced >= n =>
                \/ Len(clientGot) >= n \/ pc = "closed" \/ target = "shut"
                \/ ~(faults \subseteq {"idle"}))

\* A handler of the server ends: no I/O operation stalls for good.
HandlerReturns == \A c \in Conns : Serving(c) ~> ~Serving(c)

\* The tunnel implements the pair of pipes of TunnelStream.
Stream == INSTANCE TunnelStream WITH
    upTaken <- upRead, upGiven <- targetGot,
    downTaken <- taken, downGiven <- clientGot,
    peer <- CASE target = "open" -> "there"
              [] target = "none" /\ Posting /\ cur.act = "open" -> "pending"
              [] OTHER -> "gone",
    ended <- tunnelClosed \/ pc = "closed"
StreamOK == Stream!StreamSpec
=============================================================================
