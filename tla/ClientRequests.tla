---------------------------- MODULE ClientRequests ----------------------------
(***************************************************************************)
(* One client connection of the agent up to its tunnel: what handleReadAgent *)
(* reads from the client, what AgentHandler::handle asks the server for it, *)
(* what ServerHandler::handle and the server's TCPClient do with a plain    *)
(* request, and what comes back to the client.                             *)
(*                                                                         *)
(* A request of the client has two parts: its header (or the first piece of *)
(* it) and the rest.  The client's stream is the parts 1, 2 of its first    *)
(* request, 3, 4 of the second, and so on; a client may pipeline.  What one *)
(* handler of the agent reads is forwarded as one chunk, which the server   *)
(* passes to a host; the server then reads the host's answer once, however  *)
(* much of it is there.  With socks5 the one request is the CONNECT that    *)
(* the handshake makes.                                                    *)
(*                                                                         *)
(* An answer of a host has several parts, too.  Encryption and framing of   *)
(* the messages between agent and server are left out, general.timeout is   *)
(* not 0, and what comes behind a CONNECT is the matter of the tunnels'     *)
(* modules.                                                                *)
(***************************************************************************)
EXTENDS Socks5

CONSTANTS
    Requests,       \* what a client may ask: [kind, text]
    MaxRequests,    \* bound: requests of one client
    AnswerParts     \* bound: parts of a host's answer

ASSUME RequestsAssumption ==
    /\ \A request \in Requests : request.kind \in {"plain", "chunked", "connect"}
    /\ MaxRequests \in Nat /\ AnswerParts \in Nat \ {0} /\ Payload \in Nat

VARIABLES
    config,     \* general.protocol, tunnelEnable and connectionReuse
    requests,   \* what the client has asked so far
    sent,       \* parts of it that the client has sent
    gone,       \* the client has left
    seen,       \* parts of it that the agent has read
    pc,         \* where the agent stands, see PCs
    chunk,      \* the parts under way, from and to
    link,       \* the agent's connection to the server: "stale" is closed by the server
    spc,        \* where the server's connection stands, see ServerPCs
    target,     \* the server's connection to a host, "ended" is closed by the host
    owed,       \* parts of answers the host will send on it
    inbox,      \* parts that wait for the server on it
    reply,      \* the answer on its way back
    toHosts,    \* history: parts that hosts have got
    served,     \* history: the address a chunk went to, or a CONNECT was granted for
    produced,   \* history: parts of answers that hosts have sent
    got,        \* history: parts of answers that the client has got
    late        \* history: a call of a TCPClient returned behind its timer

client_vars == <<requests, sent, gone>>
agent_vars == <<seen, pc, chunk, link>>
host_vars == <<target, owed, inbox, toHosts, served, produced>>
vars == <<socks_vars, config, client_vars, agent_vars, spc, host_vars, reply, got, late>>

Kinds == {"plain", "chunked", "connect"}
PCs == {"idle", "handshake", "reading", "handling", "asking", "waiting", "writing",
        "tunnel", "closed"}
ServerPCs == {"none", "idle", "asked", "dialled", "waiting", "replying", "tunnel", "closed"}
NoTarget == [state |-> "none", address |-> Address(<<>>, NoPort, 0)]

\* Answers to a CONNECT; the others are parts <<request, number>>.
Granted == <<0, 1>>
Refusal == <<0, 0>>

IsHead(part) == part % 2 = 1
RequestOf(part) == (part + 1) \div 2
Current == requests[RequestOf(chunk.from)]
IsConnect == Current.kind = "connect"

\* detectType and setIPPort.
AddressOf(request) ==
    ParseHostPort(request.text, IF request.kind = "connect" THEN 443 ELSE 80)

Parts == [i \in 1..(chunk.to - chunk.from + 1) |-> chunk.from + i - 1]
\* The answers a host owes for a chunk: one for each request that is complete.
Owes ==
    LET n == AnswerParts
    IN  [k \in 1..(n * (Len(Parts) \div 2)) |->
            <<RequestOf(chunk.from) + ((k - 1) \div n), 1 + ((k - 1) % n)>>]
-----------------------------------------------------------------------------
(* The client.                                                             *)
Asks(request) ==
    /\ config.protocol = "http" /\ ~gone
    /\ Len(requests) < MaxRequests /\ sent = 2 * Len(requests)
    /\ \A i \in DOMAIN requests : requests[i].kind # "connect"
    /\ request.kind = "connect" => pc = "idle" /\ seen = sent
    /\ requests' = Append(requests, request) /\ sent' = sent + 1
    /\ UNCHANGED <<gone, socks_vars>>

SendsRest ==
    /\ sent < 2 * Len(requests) /\ ~gone
    /\ sent' = sent + 1
    /\ UNCHANGED <<requests, gone, socks_vars>>

SendsBytes ==
    /\ config.protocol = "socks5" /\ ~gone /\ pc # "closed"
    /\ SocksClientSends /\ UNCHANGED client_vars

Leaves == ~gone /\ gone' = TRUE /\ UNCHANGED <<requests, sent, socks_vars>>

Client ==
    /\ pc \notin {"tunnel", "closed"}
    /\ (\E request \in Requests : Asks(request)) \/ SendsRest \/ SendsBytes \/ Leaves
    /\ UNCHANGED <<config, agent_vars, spc, host_vars, reply, got, late>>
-----------------------------------------------------------------------------
(* The agent reads.                                                        *)
Goto(place) == pc' = place
Close == Goto("closed") /\ link' = "none"

\* A header is read whole.  Only the header says that a chunked request has a
\* body, and it is not read; the rest of such a request is then taken for a
\* request of its own.
HeaderRead(from, to) ==
    \E part \in from..to :
        IsHead(part) /\ (part < to \/ requests[RequestOf(part)].kind = "chunked")

\* The handler goes on with a blank line, which a rest that was left may hold
\* without a header; else it reads on until there is one.
Holds(from, to) ==
    /\ chunk' = [from |-> from, to |-> to] /\ seen' = to
    /\ \/ (HeaderRead(from, to) \/ ~IsHead(from)) /\ Goto("handling")
       \/ ~HeaderRead(from, to) /\ Goto("reading")

\* Mutant of FirstRead: more is committed to readBuffer_ than was read.
CommitsAll ==
    /\ pc = "idle" /\ config.protocol = "http" /\ sent > seen
    /\ chunk' = [from |-> seen + 1, to |-> seen + 2] /\ seen' = seen + 2
    /\ Goto("handling")
    /\ UNCHANGED <<link, socks_vars, client_vars>>

FirstRead ==
    /\ pc = "idle" /\ config.protocol = "http"
    /\ \E to \in (seen + 1)..sent : Holds(seen + 1, to)
    /\ UNCHANGED <<link, socks_vars, client_vars>>

ReadsRest ==
    /\ pc = "reading"
    /\ \E to \in (seen + 1)..sent : Holds(chunk.from, to)
    /\ UNCHANGED <<link, socks_vars, client_vars>>

\* The end of the client's stream is no error: without the rest of its header a
\* request cannot be parsed, without the rest of its body it is forwarded.
ReadsEnd ==
    /\ pc = "reading" /\ gone /\ sent = seen
    /\ \/ Close
       \/ Current.kind = "plain" /\ Goto("handling") /\ UNCHANGED link
    /\ UNCHANGED <<seen, chunk, socks_vars, client_vars>>

FirstBytes ==
    /\ pc = "idle" /\ SocksFirstRead
    /\ Goto("handshake")
    /\ UNCHANGED <<seen, chunk, link, client_vars>>

HandshakeReads ==
    /\ pc = "handshake" /\ SocksReads
    /\ IF field' = "done"
       THEN /\ requests' = <<[kind |-> "connect", text |-> SocksTarget]>>
            /\ sent' = 2 /\ seen' = 2 /\ chunk' = [from |-> 1, to |-> 2]
            /\ Goto("handling")
       ELSE UNCHANGED <<requests, sent, seen, chunk, pc>>
    /\ UNCHANGED <<gone, link>>

HandshakeRejects ==
    /\ pc = "handshake" /\ SocksRejects /\ Close
    /\ UNCHANGED <<seen, chunk, client_vars>>

HandshakeStarves == field # "done" /\ arrived < taken + Bytes[field]
HandshakeCut ==
    /\ pc = "handshake" /\ gone /\ HandshakeStarves
    /\ Close
    /\ UNCHANGED <<seen, chunk, socks_vars, client_vars>>

\* Mutant of IdleEnds: the next read has no timer.
WaitsForClient ==
    /\ pc = "idle" /\ gone /\ Close
    /\ UNCHANGED <<seen, chunk, socks_vars, client_vars>>

\* The read fails, or the connection has been idle for too long.
IdleEnds ==
    /\ pc = "idle" /\ Close
    /\ UNCHANGED <<seen, chunk, socks_vars, client_vars>>

AgentReads ==
    /\ \/ FirstRead \/ ReadsRest \/ ReadsEnd
       \/ FirstBytes \/ HandshakeReads \/ HandshakeRejects \/ HandshakeCut \/ IdleEnds
    /\ UNCHANGED <<config, spc, host_vars, reply, got, late>>
-----------------------------------------------------------------------------
(* The agent asks the server, AgentHandler::handle.                        *)
Unparsable ==
    /\ pc = "handling" /\ ~IsHead(chunk.from)
    /\ Close
    /\ UNCHANGED <<spc, host_vars>>

Drop == target' = NoTarget /\ owed' = <<>> /\ inbox' = <<>>
KeepHistory == UNCHANGED <<toHosts, served, produced>>

\* An old connection of the server, if there is one, ends with its target.
DialServer ==
    /\ pc = "handling" /\ IsHead(chunk.from)
    /\ IF link # "none" THEN Goto("asking") /\ UNCHANGED <<link, spc, host_vars>>
       ELSE \/ Close /\ UNCHANGED <<spc, host_vars>>
            \/ Goto("asking") /\ link' = "open" /\ spc' = "idle" /\ Drop /\ KeepHistory

Ask ==
    /\ pc = "asking"
    /\ IF link = "open" THEN Goto("waiting") /\ spc' = "asked" /\ UNCHANGED link
                        ELSE Close /\ UNCHANGED spc
    /\ UNCHANGED host_vars

\* Mutant of RequestFails: the request is tried again, as postTunnelAction does.
TryAgain ==
    /\ pc = "waiting"
    /\ link' = "none" /\ Goto("handling")
    /\ UNCHANGED <<spc, host_vars>>

\* The timer expires, or the server has closed the connection.
RequestFails ==
    /\ pc = "waiting" /\ Close
    /\ UNCHANGED <<spc, host_vars>>

AgentAsks ==
    /\ Unparsable \/ DialServer \/ Ask \/ RequestFails
    /\ UNCHANGED <<config, client_vars, socks_vars, seen, chunk, reply, got, late>>

\* What the client gets: of a CONNECT, that it was answered.
WriteDone ==
    /\ pc = "writing"
    /\ IF IsConnect
       THEN Goto("tunnel") /\ UNCHANGED got
       ELSE Goto("idle") /\ got' = got \o reply
    /\ UNCHANGED link

WriteFails == pc = "writing" /\ Close /\ UNCHANGED got

AgentWrites ==
    /\ WriteDone \/ WriteFails
    /\ UNCHANGED <<config, client_vars, socks_vars, seen, chunk, spc, host_vars, reply, late>>
-----------------------------------------------------------------------------
(* The server, ServerHandler::handle.                                      *)
Replies(answer) == spc' = "replying" /\ reply' = answer

Serves(address) ==
    served' = Append(served, [request |-> RequestOf(chunk.from), address |-> address])

\* client_ is dialled only if it has no open socket; a polled tunnel has a
\* TCPClient of its own.
MustDial == target.state = "none" \/ (IsConnect /\ ~config.direct)

DialHost ==
    /\ spc = "asked" /\ MustDial
    /\ owed' = <<>> /\ inbox' = <<>>
    /\ target' = [state |-> "open", address |-> AddressOf(Current)]
    /\ IF IsConnect THEN Replies(<<Granted>>) /\ Serves(target'.address)
                    ELSE spc' = "dialled" /\ UNCHANGED <<reply, served>>
    /\ UNCHANGED <<toHosts, produced>>

DialFails ==
    /\ spc = "asked" /\ MustDial
    /\ Replies(IF IsConnect THEN <<Refusal>> ELSE <<>>)
    /\ UNCHANGED host_vars

DialedBefore ==
    /\ spc = "asked" /\ ~MustDial
    /\ IF IsConnect THEN Replies(<<Granted>>) /\ Serves(target.address)
                    ELSE spc' = "dialled" /\ UNCHANGED <<reply, served>>
    /\ UNCHANGED <<target, owed, inbox, toHosts, produced>>

\* doWrite; that it failed is seen by the read.
PassOn ==
    /\ spc = "dialled" /\ spc' = "waiting"
    /\ IF target.state = "open"
       THEN /\ toHosts' = toHosts \o Parts /\ owed' = owed \o Owes
            /\ Serves(target.address)
       ELSE UNCHANGED <<toHosts, owed, served>>
    /\ UNCHANGED <<target, inbox, produced, reply>>

\* doReadServer: one read_some.
ReadAnswer ==
    /\ spc = "waiting"
    /\ \E n \in 1..Len(inbox) :
        /\ Replies(SubSeq(inbox, 1, n))
        /\ inbox' = SubSeq(inbox, n + 1, Len(inbox))
    /\ UNCHANGED <<target, owed, toHosts, served, produced>>

\* The timer expires, or the host has closed the connection.
AnswerMissing ==
    /\ spc = "waiting"
    /\ Drop /\ KeepHistory
    /\ Replies(<<>>)

Server ==
    /\ DialHost \/ DialFails \/ DialedBefore \/ PassOn \/ ReadAnswer \/ AnswerMissing
    /\ UNCHANGED <<config, client_vars, socks_vars, agent_vars, got, late>>

\* Mutant of AgentTakes: an empty answer is an answer.
TakesEmpty == Goto(IF reply = <<>> THEN "idle" ELSE "writing") /\ UNCHANGED link

\* writeBuffer_ is empty, or is written to the client.
AgentTakes ==
    IF reply = <<>> THEN Close
    ELSE Goto("writing") /\ link' = IF spc' = "closed" THEN "stale" ELSE link

\* The server's response is written to the agent, which waits for it or has
\* closed the connection.
Respond ==
    /\ spc = "replying"
    /\ IF link # "open" THEN spc' = "closed" /\ UNCHANGED <<pc, link>>
       ELSE /\ spc' = IF IsConnect /\ config.direct /\ reply = <<Granted>> THEN "tunnel"
                      ELSE IF config.reuse THEN "idle" ELSE "closed"
            /\ AgentTakes
    /\ IF spc' = "closed" /\ ~IsConnect THEN Drop ELSE UNCHANGED <<target, owed, inbox>>
    /\ KeepHistory
    /\ UNCHANGED <<seen, chunk, reply>>

\* The agent has closed the connection, or it has been idle for too long.
ServerEnds ==
    /\ spc = "idle" /\ pc # "tunnel"
    /\ spc' = "closed" /\ Drop /\ KeepHistory
    /\ link' = IF link = "open" THEN "stale" ELSE link
    /\ UNCHANGED <<pc, seen, chunk, reply>>

Exchange ==
    /\ Respond \/ ServerEnds
    /\ UNCHANGED <<config, client_vars, socks_vars, got, late>>
-----------------------------------------------------------------------------
(* The hosts, and the handlers of timers that come late.                   *)
HostAnswers ==
    /\ target.state = "open" /\ owed # <<>>
    /\ inbox' = Append(inbox, Head(owed)) /\ produced' = Append(produced, Head(owed))
    /\ owed' = Tail(owed)
    /\ UNCHANGED target

HostEnds ==
    /\ target.state = "open" /\ pc # "tunnel"
    /\ target' = [target EXCEPT !.state = "ended"] /\ owed' = <<>>
    /\ UNCHANGED <<inbox, produced>>

Host ==
    /\ HostAnswers \/ HostEnds
    /\ UNCHANGED <<config, client_vars, socks_vars, agent_vars, spc, toHosts, served,
                   reply, got, late>>

\* TCPClient::onTimeout of an earlier call, on the agent or on the server.
LateTimer ==
    /\ ~late /\ late' = TRUE
    /\ \/ /\ pc \in {"idle", "handling", "asking", "writing"} /\ link # "none"
          /\ link' = "none" /\ UNCHANGED host_vars
       \/ /\ spc \in {"idle", "asked", "dialled", "replying"} /\ target.state # "none"
          /\ Drop /\ KeepHistory /\ UNCHANGED link
    /\ UNCHANGED <<config, client_vars, socks_vars, pc, seen, chunk, spc, reply, got>>
-----------------------------------------------------------------------------
Configs == [protocol : {"http", "socks5"}, direct : BOOLEAN, reuse : BOOLEAN]

\* What a client would say with socks5 does not matter with http.
Init ==
    /\ SocksInit
    /\ config \in Configs
    /\ config.protocol = "http" => said = CHOOSE handshake \in Handshakes : TRUE
    /\ requests = <<>> /\ sent = 0 /\ gone = FALSE
    /\ seen = 0 /\ pc = "idle" /\ chunk = [from |-> 1, to |-> 0] /\ link = "none"
    /\ spc = "none" /\ target = NoTarget /\ owed = <<>> /\ inbox = <<>>
    /\ toHosts = <<>> /\ served = <<>> /\ produced = <<>>
    /\ reply = <<>> /\ got = <<>> /\ late = FALSE

Next ==
    \/ Client \/ AgentReads \/ AgentAsks \/ AgentWrites
    \/ Server \/ Exchange \/ Host \/ LateTimer

Spec == Init /\ [][Next]_vars

\* Handlers run, blocked calls end by their timers, and idle connections are
\* closed.  Nothing is assumed of client and hosts, and a read of the client
\* inside a handler has no timer.
Fairness ==
    /\ WF_vars(AgentReads) /\ WF_vars(AgentAsks) /\ WF_vars(AgentWrites)
    /\ WF_vars(Server) /\ WF_vars(Exchange)

FairSpec == Spec /\ Fairness
-----------------------------------------------------------------------------
(* Properties.                                                             *)

\* Every variable has its type, and the agent never runs ahead of the client.
TypeOK ==
    /\ SocksTypeOK
    /\ config \in Configs
    /\ Len(requests) <= MaxRequests + 1
    /\ \A i \in DOMAIN requests : requests[i].kind \in Kinds
    /\ sent \in 0..(2 * Len(requests)) /\ seen \in 0..sent
    /\ gone \in BOOLEAN /\ late \in BOOLEAN
    /\ pc \in PCs /\ spc \in ServerPCs /\ link \in {"none", "open", "stale"}
    /\ chunk.from \in 1..(seen + 1) /\ chunk.to \in 0..seen
    /\ target.state \in {"none", "open", "ended"}

\* What hosts get of the client's stream they get in its order, no part of it
\* twice, whatever fails: no request is repeated.  And no part is passed over:
\* where one was lost the connection ends (unless a late timer handler makes
\* the server dial a second time, behind a request that its host never got).
RequestsIntact ==
    /\ \A j, k \in DOMAIN toHosts : j < k => toHosts[j] < toHosts[k]
    /\ ~late => \A k \in DOMAIN toHosts : toHosts[k] = k

\* The client gets what a host has sent from its first part on without a gap,
\* though the server reads an answer once and leaves the rest to the next
\* request: where anything was lost, nothing follows.
AnswersInOrder ==
    ~late => Len(got) <= Len(produced) /\ \A k \in DOMAIN got : got[k] = produced[k]

\* Where connections are reused, the server dials once for a client connection:
\* all its plain requests, and the CONNECT of a direct tunnel, go to the address
\* of the first, whatever address they name.  So they all go where they should
\* if they name one.
FirstHost ==
    ~late /\ config.reuse =>
        \A k \in DOMAIN served :
            LET request == requests[served[k].request]
            IN  served[k].address =
                    AddressOf(IF request.kind = "connect" /\ ~config.direct THEN request
                              ELSE requests[served[1].request])

\* Where connections are not reused, a request that follows an answered one is
\* not put to a connection that the server has closed, but to a new one.
NewConnection ==
    ~config.reuse /\ got # <<>> /\ pc = "asking" => link # "stale"

\* The handshake reads the bytes it should, however they are divided between
\* the first read and the socket, and a client that waits for its answers
\* loses none.
HandshakeExact ==
    field = "done" =>
        /\ taken = HandshakeBytes
        /\ replies = <<"method">>
        /\ said.patient => dropped = 0

\* The server dials the address the SOCKS5 client asked for, though it passes
\* through the text of a CONNECT; without a host or with port 0 it has none.  Of
\* a name that has brackets of its own nothing is said.
RightTarget ==
    \A k \in DOMAIN served :
        config.protocol = "socks5" /\ Unbracketed(said.host) =>
            IF Requestable(said.host, said.port)
            THEN served[k].address = [host |-> said.host, port |-> said.port]
            ELSE served[k].address.host = <<>>

\* A connection comes to its end, a tunnel, or the point where it waits for
\* bytes of the client, whatever the server's and the hosts' peers do.
ClientOwes ==
    \/ pc = "reading" /\ sent = seen /\ ~gone
    \/ pc = "handshake" /\ HandshakeStarves /\ ~gone
RequestEnds == []<>(pc \in {"tunnel", "closed"} \/ ClientOwes)
==============================================================================
