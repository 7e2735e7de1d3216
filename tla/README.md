# A TLA+ model of nipovpn

nipovpn hides the HTTP traffic of a client inside decoy HTTP requests. An *agent*
takes HTTP or SOCKS5 connections from local clients, encrypts what they send and
posts it to a *server*, which talks to the target hosts. Both are one C++ program
on Boost.Asio (`core/src`); a handful of worker threads run one `io_context`.

This directory holds a model of that program, TLC configurations that check it on
small instances, and proofs that TLAPS checks for every instance. Paths below are
relative to the repository.

## 1. Inventory

| Component | State | Operations | Talks to |
|---|---|---|---|
| `TCPServer` (`tcpserver.cpp`), `Runner` (`runner.cpp`) | acceptor, `io_context`, worker threads | accept, run the pool | creates a `TCPConnection` for each accept |
| `TCPConnection` on the agent (`tcpconnection.cpp`) | socket to the client, buffers, `strand_`, `timeout_`, `pollTimer_`, `tunnelClosed_`, `pollInProgress_`, `connect_`, `closed_`, its `client_` | read a request, SOCKS5 handshake, answer, tunnel read loop, tunnel poll loop, post, close, time out | `AgentHandler`, its `TCPClient` |
| `TCPConnection` on the server | socket to the agent (plain or TLS), buffers, `strand_`, `timeout_`, `closed_` | read a request, run the handler, write the response, read again or shut down | `ServerHandler` |
| `AgentHandler` (`agenthandler.cpp`) | `connect_`, `end_` | wrap a client request, send it, unwrap the answer | `TCPClient` of the connection |
| `ServerHandler` (`serverhandler.cpp`) | the process-wide table `sessions_` under `sessionsMutex_` | open, send, recv, close; plain requests; direct CONNECT | a `TCPClient` for each session |
| `TCPClient` (`tcpclient.cpp`) | `socket_`, `sslSocket_`, `tlsEnabled_`, `closed_`, `timeout_`, `mutex_`, buffers | connect, handshake, write, read an HTTP message, shut down; timer handler | the peer |
| Direct tunnel (`tcpconnection.cpp`, `relay*`) | four relay loops over two sockets | relay, shut down | both sockets |
| SOCKS5 (`handleSocks5Handshake`) | none of its own | synchronous handshake, synthetic CONNECT | the client |
| `HTTP`, `http_utils` | parsed request | detect, parse, split host and port, body framing | - |
| `Config`, `general.hpp`, `Log` | settings; codec; log file | load and validate, encode and encrypt, write | - |

What is hard in it:

* **Tunnel over requests.** In poll mode (`tunnelEnable: false`, the default) a TCP
  stream is cut into `send` and `recv` posts over connections that break, time out
  and are reused, and a failed post is repeated although the first try may have been
  handled. Correct means: order, no loss and no duplicate where nothing but an idle
  connection was cut; bounded damage otherwise; no answer taken for another's.
* **Shared session.** Handlers of one session may run on two threads, and the
  session's `TCPClient` is not protected by a lock.
* **Timers.** A cancelled timer's handler may be queued already. `TCPClient`'s timer
  is on no strand, so its handler runs beside a request and changes `tlsEnabled_`,
  `closed_` and the sockets.
* **Blocking calls on the pool.** Posts and several client reads are synchronous.
* **Lifetimes.** Buffers of pending writes, sessions nobody closes.
* **Direct tunnel.** With `tunnelEnable` four relay loops share two sockets a side, no
  timer watches them, and the end of one direction takes the other with it.
* **Kept connections.** The agent's and the server's `client_` outlive a request: the
  next one may find them closed, connected to another host, or with the rest of an
  earlier answer in them.
* **Parsing by position.** The SOCKS5 handshake lies anywhere between the first read and
  the socket, and its address travels as the text of a CONNECT.

What makes the components correct, in a sentence each (the properties of section 3 in
plain words): a tunnel, polled or direct, is a pair of FIFO pipes that may break but
never reorder, repeat or invent; an answer belongs to the request that waits for it; a
request is not repeated and its parts reach one host in order; with TLS on nothing goes
out in the clear; every request, post and timed stage ends; a connection holds at most
one worker; a SOCKS5 client gets the address it asked for.

`PROJECT.json` lists the hazards by source line under "hazards", and for each component
whether it is modelled.

## 2. Modules

| Module | Models |
|---|---|
| `ServerHandler` | the server's half of a polled tunnel: `sessions_` entry, target socket, one handler per connection, `open`/`send`/`recv`/`close` |
| `PollTunnel` | EXTENDS it with the agent's half: posts, retry, read loop, poll loop, close, connections and faults; the properties of a polled tunnel |
| `TunnelStream` | abstract specification: two one-place, order-keeping, lossless pipes |
| `MCPollTunnel` | `PollTunnel` for TLC (symmetry of connections) |
| `MCPollFaults` | `PollTunnel` and an instance of it without connection reuse, for one run over every fault |
| `PollTunnelProofs` | theorems about `PollTunnel`: types, the last post, one exchange |
| `PollGrantProofs` | more of them: connections without reuse, what an HTTP client is told |
| `PollStreamProofs` | more of them: what the tunnel carries, the refinement of `TunnelStream` among them |
| `TCPClient` | the agent's connection to the server: sockets, TLS flag, `closed_`, timer, queued timer handlers, the two ends of a `socketShutdown` on the timer's thread |
| `AgentRequests` | EXTENDS it with the callers: `AgentHandler::handle` and `sendOnce`, step by step |
| `MCAgentRequests` | `AgentRequests` for TLC |
| `AgentRequestsProofs` | theorems about `AgentRequests` |
| `DirectTunnel` | a tunnel with `tunnelEnable`, from its CONNECT to the end of its four relay loops |
| `TunnelPipes` | abstract specification of it: two FIFO pipes that may break |
| `DirectTunnelProofs` | theorems about `DirectTunnel`, the refinement of `TunnelPipes` among them |
| `WorkerPool` | the worker threads of one process: strands, handlers, timers, blocking calls |
| `WorkerPoolProofs` | theorems about `WorkerPool` |
| `Addresses` | the text of an address, written by the agent, taken apart by the server |
| `Socks5` | EXTENDS it with the agent's side of a SOCKS5 handshake |
| `ClientRequests` | EXTENDS `Socks5` with the requests of one client connection, from its socket through agent and server to the hosts and back |
| `MCClientRequests` | `ClientRequests` for TLC: addresses of every form |
| `ClientRequestsProofs` | theorems about `ClientRequests` and `Addresses` |
| `RequestOrderProofs` | EXTENDS it: what hosts get of a client's requests, which host, and what the client gets of the answers |

### PollTunnel and ServerHandler

`reqs[c]`, `resps[c]` are the two directions of connection `c`; `srvOpen` says whose
server side is open. `step[c]` is where the server's handler stands: `connect`,
`write` and `read` are its blocking calls; every other handler runs in one step,
because nothing it reads can change before it has read it all. A `recv` takes two
steps, `available()` and `read_some`, and between them another handler may empty the
socket. `doWrite` empties and refills the `writeBuffer_` of its `TCPClient` without a
lock, under a handler that may be inside `boost::asio::write` already. `buffer` has the
chunks moved into it since the first of the overlapping writes began; overlapping
writers are marked `torn`, and each delivers nothing, one of the chunks in `buffer` (its
own or another handler's), or `Garbage`, which stands for any mixture and for more than
one chunk (`DeliverTorn`). `mixed` records that this has happened.

On the agent, `pc` is the strand: `attempt` and `wait` are inside `postTunnelAction`,
`reply` is the write of the answer to the CONNECT, `idle` has a read of the client
outstanding. `poll` is the poll loop: `timer` while `pollTimer_` runs or its handler
is queued, `write` while an `async_write` of polled data is pending. A strand runs
one handler at a time and a post blocks it, which is why one `pc` is enough.

`faults` records the kinds of faults so far. `FaultKinds` says which may happen:

* `idle`: the server's timer closes a connection that has served a request;
* `refuse`: a connect fails;
* `lost`: a response is lost, or the agent's timer cuts a post at any moment.

A chunk is what one read returned; chunks are numbered. `NoData` is an empty body,
`Garbage` stands for bytes nobody sent. Encryption, Base64, HTTP framing and TLS do
not appear here; connecting, accepting and shaking hands are one step.

Environment assumptions, all of them about how the program is deployed or timed:
agent and server have the same token and the same `connectionReuse`; a connection is
not cut by the server's idle timer before it has served its first request; session
identifiers (UUIDs) are unique, so one tunnel stands for all.

### TCPClient and AgentRequests

`pc` goes through the statements of the two callers, which do the same things in
different orders: `handle` enables TLS and then asks `isOpen`, `sendOnce` asks
`isOpen` and then enables TLS. `Blocking` are the calls the timer guards. An expired
timer puts a handler in the queue (`queued`); the handler may run at any later time,
between any two steps. Its `socketShutdown` is two steps, `OnTimeout` (sets `closed_`,
closes the sockets) and `EndShutdown` (clears `tlsEnabled_`, frees `mutex_`), and the
strand's own `socketShutdown` waits for the second. `tlsEnabled_` is read where the
code reads it: in `isOpen`, in `enableTlsClient`, twice around the resolver in
`doConnect`, and before the handshake.

`late` records that a call returned by itself although its timer's handler was
already queued. The properties that fail then (section 4) are stated under `~late`,
and `HandshakeFirst` and `TimerScoped` hold without that condition. `config` is a
variable that never changes, so that one run covers the four configurations.

Assumptions: `general.timeout` is not 0, OpenSSL's set-up does not fail, a timer of
seconds does not expire before the call it guards has begun, and the server answers
TLS with TLS only. `PollTunnel` uses the client as these properties describe it: a
failed try leaves nothing open (`StartsClean`), a blocked call ends (`RequestEnds`).

### DirectTunnel

The CONNECT goes over the one agent-to-server connection that then carries raw bytes.
`pc` has where the four nodes stand: the agent is `opening` (blocked in
`AgentHandler::handle`), writes the `reply` to the client, is in `relay` or `closed`; the
server is `dialing`, `answering`, in `relay`, back to reading requests (`http`, after a
refusal), or `closed`; client and target are `open`, have closed their sending half, or
are `gone`.

`wire[d][k]` is the k-th of the three connections of direction `d` with everything
between the two programs (send buffer, network, receive buffer), and `loop[d][k]` the
relay loop that moves chunks from wire k to wire k + 1: it has a `read` or a `write`
outstanding, never both, and `buf` is its array. `socketShutdown` closes both sockets of a
side: what a socket had received is lost, and a reset may take what it had sent,
the latest first. `cut` has the sides whose `TCPClient` was closed under the loops by a
timer handler that was late. Over plain TCP the agent may read bytes of the target along
with the answer to the CONNECT, which makes the answer undecodable (`ReadAnswer`); a TLS
read returns one record. `pipelined` says whether the client sent bytes right behind its
CONNECT, which the code drops in this mode (`pendingTunnelData` is used in poll mode
only); `Counted` starts behind them.

### WorkerPool

`pool` are the threads `Runner::run` starts, `at[w]` is the connection for which worker
`w` is blocked, and `ready` the handlers that wait for a worker. A handler that does not
block is one step. Three kinds of calls block a worker: the TLS `handshake` inside the
accept handler, `reading` the rest of a request synchronously (no timer), and `calling`,
a call of `TCPClient`. A handler of a connection needs its strand (`StrandFree`), except
the accept handler and the handler of `TCPClient`'s timer, and that exception is what
ends a blocking call: the mutant that puts the timer's handler on the strand stops the
process for good. One `calling` stands for the sequence of calls a request makes. It is
timed throughout, which idealises one call: the resolver's in `doConnect` comes before
its `resetTimeout` (`tcpclient.cpp:113-128`) and ends by the resolver's own limits. The
processes have the same shape: `handshakes` is a server with `tlsEnable`, `PollDue` is
the agent's `pollTimer_`.

### Socks5, Addresses and ClientRequests

`ClientRequests` follows a client connection until its tunnel. A request has two parts,
its header (or the first piece of it) and the rest; parts are numbered through the
client's stream, so that a repeat, a gap or a swap can be seen. `chunk` is what one
`handleReadAgent` forwards; `link` is the agent's `client_`, `stale` if the server has
closed its end; `spc` is the server's connection, `target` the server's `client_`, whose
host has `owed` parts of answers to send and sent those in `inbox`. `toHosts`, `served`,
`produced` and `got` are histories. What the code does with such requests:

* `handleReadAgent` reads on, without a timer, until it has a blank line and the body
  that Content-Length promises (`HeaderRead`, `Holds`). The body of a chunked request is
  not read and is taken for the next request (`Unparsable`); if it holds no blank line,
  the agent first waits for the client to send one. The end of the client's stream is no error, and what was read is forwarded (`ReadsEnd`).
* `AgentHandler::handle` asks `isOpen` (`DialServer`), and sends (`Ask`): a connection
  that the server has closed in the meantime fails the request, and nothing is repeated.
  With `connectionReuse` off this is the fate of every second plain request of a client
  connection, because the server closes behind each response (section 4, item 5).
* `ServerHandler::handle` dials only if `client_` has no open socket (`MustDial`), so all
  plain requests of a client connection go to the host of the first.
* `doReadServer` reads an answer with one `read_some`; what comes later is read in front
  of the next answer (`ReadAnswer`), or lost with the connection.

`Socks5` numbers the client's bytes: `buffered` came with the first read, and
`readExactFromClient` takes the next field from there and then from the socket. A
`patient` client waits for each answer of the handshake. Address lengths are scaled down
(2 and 3 bytes for IPv4 and IPv6 in place of 4 and 16; they matter only in
that a field may be cut anywhere). `Addresses` has the text `HOST:PORT` as tokens: the
three characters `parseHostPort` looks for, and the runs between them, of which
`std::stoi` reads the digits in front. `ParseHostPort` has every branch of the code.

An http client says nothing of SOCKS5 (`said` is then any one handshake). The body of a
CONNECT and what follows it belong to the tunnels' modules.

## 3. Runs

| Run | Question | Bounds | States |
|---|---|---|---|
| `poll_relay` | is a polled tunnel a pair of lossless pipes as long as only idle connections are cut? refinement of `TunnelStream` included | 2 connections, 3 chunks each way | 14 340 |
| `poll_faults` | what survives refused, lost and timed-out posts? | 2 connections, all faults; without reuse 2 chunks each way, with reuse 2 up, or 1 up and 2 down (`FewChunks`) | 1 999 624 |
| `poll_live` | does every post end, does polling deliver? | 2 connections, 1 chunk each way, all faults, fairness | 583 796 |
| `client_timeouts` | does a request stay on TLS, start clean and end, with timer handlers in between? | 2 queued handlers, four configurations, fairness | 4 046 |
| `direct_tunnel` | is a direct tunnel a pair of pipes, does its end reach everybody, does nothing else end it? refinement of `TunnelPipes` included | 2 chunks up, 1 down and the answer, 2 chunks a wire, TLS and plain, fairness | 117 440 |
| `worker_pool` | can a connection hold two workers, can a silent peer outlive a timer? | 1 or 2 workers, 2 connections, agent and server, fairness | 52 962 |
| `client_requests` | what becomes of a client's requests and answers, and of a SOCKS5 handshake, with connections that end or fail anywhere? | 3 requests, 2 parts an answer, 46 handshakes, 8 configurations, fairness | 1 164 972 |
| `poll_socks5` | violation: SOCKS5 success after a 502 | | |
| `poll_partial_write` | violation: bytes from a dead buffer | | |
| `poll_stuck_read` | violation: a server handler that never returns | fairness | |
| `client_downgrade` | violation: a plain-text request with TLS on | | |
| `client_newconnection` | violation: a request put to a connection that was closed behind the last one | | |

Why the bounds are enough: a post uses at most two connections, the second after the
first was given up, so two connections give every overlap of an abandoned exchange
with its successor; a third would only repeat it, since a step of `PollTunnel`
touches one connection and the agent's. Three chunks show first, middle and last
chunk and a repeat between neighbours. Under all faults two chunks down are what
order needs, and two chunks up let writes of different chunks overlap; with reuse the
product of both directions is too large for one run (`FewChunks`). In `direct_tunnel` a direction has five places (three wires, two arrays);
two chunks up are enough for a swap, a loss in the middle, and a full wire
(`Window` is 2), and the answer is the second chunk down. Two connections on one or two
workers give both cases that matter, as many blocked connections as workers and fewer.
Three plain requests let an answer's rest run over into the next answer and that one's
into the third, and the address of the first request stay in use for the last; an answer
in two parts is the least of which something can be left over.
`CHECK_DEADLOCK FALSE` is set because a tunnel and a connection end.

Properties that are conditional, and why:

* `OneHandler`, `UpstreamIntact`, `DownstreamIntact` and `StreamOK` speak of
  behaviours in which `faults` is within `{"idle"}`. After a lost response or a
  timeout, the code repeats a `send` that may have been handled, and the first try
  may even be written behind later chunks; a `recv` whose response is lost loses its
  chunk. What remains then is `DownstreamOrder`, `OneExchange` and `AnswerMatches`, and
  `BoundedCopies` until two writes to the target overlap (`mixed`). Behind an overlap it
  does not hold: a post that timed out inside `doWrite` and its successor may both send
  the successor's chunk, which then arrives twice from one post, without reuse too.
* `DownstreamDelivered` speaks of tunnels in which no post was refused or lost: refused
  posts may go on for ever, and a lost answer takes its chunk with it.
* `CloseRemovesSession` needs that nothing failed: a close is posted once and never
  repeated, and nothing else removes the entry.
* In `direct_tunnel`, `Conserved` speaks of the time before anybody closes and `PipesOK`
  of all of it. `GrantStands` excludes the two things that do end a granted tunnel: a late
  timer handler (`cut`), and a target that speaks over plain TCP before the agent has
  read the answer (`"spoke"`). `EndSpreads` and `Delivered` need that the
  sink of the direction reads: behind one that does not, a loop stays in its write,
  and no timer ends it.
* `NothingStalls` is about processes in which some worker is idle again and again
  (`Unfrozen`). As many silent clients in synchronous reads as there are workers falsify
  it, and `FreeWorker` says that fewer cannot block them all.
* `FirstHost` speaks of `connectionReuse: true`. Without reuse it would say no more than
  that the second request fails (section 4, item 5); a new connection for each request,
  as the documentation has it, would mean a new dial for each.
* `AnswersInOrder`, `FirstHost` and the second half of `RequestsIntact` are stated under
  `~late`: a timer handler that is late may close the server's connection to a
  host between a request that the host never got and the next one. The first half of
  `RequestsIntact` (no part twice, none out of order) holds without it.
* `RightTarget` says nothing of names that contain brackets: the agent puts only what
  contains a colon in brackets, and what `parseHostPort` makes of further ones
  may be another host. An empty host and port 0 give the server no address.
* `RequestEnds` of `ClientRequests` excepts the points where the code waits for its client
  without a timer (`ClientOwes`).

## 4. What the violations show

1. `AgentHandler::connect_` depends on the client's request only, and the SOCKS5
   reply depends on `connect_` only (`agenthandler.cpp:152`, `tcpconnection.cpp:258`).
2. `startTunnelPollServer` gives `async_write` the buffer of a local string
   (`tcpconnection.cpp:711-716`).
3. The `recv` handler reads the target without a timer (`serverhandler.cpp:201`).
4. A timer handler that is queued when its call returns may clear `tlsEnabled_`
   between the check and the connect of the next request (`tcpclient.cpp:130, 584`).
   In the same way it can leave `closed_` set over an open socket; then neither
   `ShutdownWorks` nor `RequestEnds` holds.
5. `config.yaml:53-54` says that without `connectionReuse` there is a new connection
   between agent and server for each request. The server shuts its side behind each
   response, but `AgentHandler::handle` asks only whether its own socket is open
   (`agenthandler.cpp:55`): the second plain request of a client goes to the closed
   connection, gets no answer, and ends the client's connection (`NewConnection`).

## 5. Fairness

`PollTunnel!Fairness`: the pool runs a handler that is ready (`Runner::run`), an armed
timer expires, and the strand takes its handlers in turn. Weak fairness is enough for
`PollFires` although `ReadClient` competes with it, because the client's chunks are
bounded in the model; for the program it is the strand's FIFO queue. The timer of a
post needs a worker that is not itself inside a post: a free worker is assumed here,
and `WorkerPool` shows when there is one. Nothing is assumed of the client,
the target, or faults.

`AgentRequests!Fairness`: the strand goes on where nothing blocks it, timers over
blocking calls expire, queued handlers run and finish. The server may be silent.

`DirectTunnel!Fairness`: each side's handlers of the open run or its timer expires, and
each relay loop goes on when its read or write can complete. Nothing is assumed of
the two ends; that a sink reads is the premise `Flowing` of the properties.

`WorkerPool!Fairness`: timers expire and a call whose socket was closed returns (weak);
a handler in the queue is taken some time if again and again a worker and the strand are
free for it (strong, as Asio's queue is first in, first out, and a worker or a
strand that comes free again and again reaches it). Nothing is assumed of the peers: a
synchronous read may never end.

`ClientRequests!Fairness`: handlers run, calls of both `TCPClient`s end by their timers,
and `onTimeout` closes idle connections. A client or a host may stop anywhere.

## 6. Proofs

`PollTunnelProofs` (for any set of connections, bounds, protocol, fault kinds and both
values of `connectionReuse`; the only assumptions are the `ASSUME`s of the modules):

* `TypeCorrect`: `[]TypeOK`. `TypeOK` is not inductive as it stands: `TypeInv` adds
  that only requests that were really posted are held or answered.
* `CloseLast`: `[]CloseIsLast`, from `CloseInv`, which also says that a strand which
  went back to `idle` has not closed the tunnel.
* `OneExchangeCorrect`, `AnswersMatch`: `[]OneExchange`, `[]AnswerMatches`, from
  `ExchangeInv`: every connection carries at most one exchange, the agent's carries
  none unless the strand waits, and what is on the agent's connection (request in
  flight, request held by the handler, response) belongs to the current try. The
  proof moves one exchange through its three places: each action of a handler keeps
  the sum or takes it down, and only `WriteRequest` raises it, on a connection it
  found empty.

`PollGrantProofs` (EXTENDS `PollTunnelProofs`, same generality):

* `OwnConnectionCorrect`: `[]OwnConnection`, which `poll_faults` checks of its instance
  without reuse as `SingleConnection`. `OwnInv` adds that without reuse the
  strand holds no connection when it is `idle`, from where the next post starts.
* `HttpGrantIsReal`: `Protocol = "http" => (Spec => []GrantIsReal)`; for SOCKS5 it does
  not hold (section 4). `GrantInv` follows the answer from the server to the client:
  only `OpenTarget` answers an `open` with 200, and has then recorded the session
  (`OpensConnect`, `OpenAnswers`); by `ExchangeInv` the answer the strand reads is the
  one to its own `open`; and the session is erased by a `close` only, which is on its
  way only when the strand has closed the tunnel (`ClosesLate`).

`PollStreamProofs` (the same generality) says what the tunnel carries. The first five
results are about tunnels in which nothing but an idle connection was cut (`Quiet`):

* `OneHandlerAlways`: `[]OneHandler`, from `RelayInv`. What `OneHandler` lacks is why a
  post that fails left nothing behind. `Alone` says that every connection but the one the
  strand waits on is empty; `ClosedIdle` that a connection the server has closed has no
  request and no handler; `StillOpen` that only a connection that has answered before
  can be found closed, and that the first post and second tries are on new ones. So the
  end of a stream (`EofSteps`) means that the request was not handled, and it is
  repeated (`Repeats`) or was a close.
* `TunnelSteps` is the case split of all that follows: a quiet step is unseen by the
  tunnel's ends, answers the strand's request as its action says (`ServerDoes`), or is one
  of twelve steps of the strand.
* `UpstreamIntactAlways`: `UpInv` says how far the target is behind the client at each
  point of a post: by nothing, or by the one chunk of an unanswered `send` or `open`.
* `DownstreamIntactAlways`, where the client's socket takes whole writes (with
  `PartialWrites`, `poll_partial_write` shows the opposite): `DownInv`, the same with the
  chunk of an unread answer.
* `SessionRemoved`: `[]CloseRemovesSession`, from `Closing`.
* `TunnelImplementsStream`: `Spec => StreamOK`, the refinement of `TunnelStream`, for
  `FaultKinds` within `{"idle"}` and whole writes. `AbstractSteps` restates the pipes'
  steps for the mapped state, `ServerPipes` and `StrandPipes` find the step of the pipes
  for each step of `TunnelSteps`.

The last two are about every fault:

* `DownstreamOrderAlways`, where writes are whole: `RiseInv` says that an answer on the
  strand's connection carries a chunk later than all the client has.
* `BoundedCopiesAlways`: as long as no two writes to the target have overlapped (`mixed`),
  `CopiesInv` counts, for each chunk, its copies at the target
  (`Copies`), the connections that still carry it (`Under`) and the tries that are left
  (`Left`); the sum never exceeds the tries. A write turns a try into a connection
  (`BoundWritten`), a delivery a connection into a copy (`BoundDelivered`), every
  other step can only lose one (`BoundKept`). `Untorn` says that until
  then no writer is torn, so that a write delivers its own chunk; the invariant is that
  either `mixed` is set, and stays so (`MixedStays`), or `CopiesInv` and `Untorn` hold.

`AgentRequestsProofs` (for any `MaxQueued`, all four configurations; `QueuedAssumption`
only): `TypeCorrect`, `HandshakeAlwaysFirst`, `TlsKept`, `ShutdownAlwaysWorks`,
`TimerAlwaysScoped` and `AlwaysStartsClean`, all from one inductive invariant,
`ClientInv`. None of these properties is inductive by itself:

* `HandlersInTime` counts the timer handlers: while no call returned late, there is
  one at most for the call in progress (timer armed, handler queued, or handler at
  work), and none between two calls.
* `KindsInTime` then ties the three places that say which stream is in use:
  `tlsEnabled_`, the stream `doConnect` chose (`via`), and the open sockets.
* `NothingOpen` says that a connect starts with both sockets closed, which
  `StartsClean` and `ShutdownWorks` need.
* `Handshakes` is the part that late handlers do not break: an open TLS stream
  without a handshake is on its way to one, or TLS has been turned off and the
  stream is out of use.

The proof has one lemma for each conjunct and one step for each group of actions
(`Looks`, `Prepares`, `Starts`, `Succeeds`, `Fails`, `Leaves`, `Timer`).

`WorkerPoolProofs` (for any finite sets of workers and connections; `PoolAssumption` only):
`TypeCorrect` and `SomeWorkerFree`, `[]FreeWorker`. `PoolInv` adds to `TypeOK` that no two
workers are blocked for one connection (`OneWorker`), that each blocking stage has its
worker (`Held`), and what may be queued at each stage (`Queue`). The last is what makes
`OneWorker` inductive: the TLS handshake runs beside the strand, so nothing that
takes the strand may be queued before it has ended. `FreeWorker` follows by the
pigeonhole principle (`Pigeons`): the busy workers map one to one into the blocked
connections.

`ClientRequestsProofs` (for any handshakes, requests and bounds; `HandshakesAssumption`
and `RequestsAssumption` only):

* `RoundTrip`: `ParseHostPort(MakeTarget(host, port), default)` is the address again for
  every host without brackets and every port. One lemma follows the bracketed branch,
  one the branches of a single colon.
* `ControlInvariant`, and from it `TypeCorrect` and `HandshakeAlwaysExact`
  (`[]HandshakeExact`). `ControlInv` says that what the handshake has taken is what lies
  in front of the next field (`SocksInv`), and how the requests, the parts read, the
  chunk under way and the two ends of the connections fit together (`AgentInv`).
* `AlwaysRightTarget`, `[]RightTarget`: by `TargetInv` the one request of a SOCKS5
  connection is the CONNECT of its handshake, and whatever the server dials or grants it
  does for that; `RoundTrip` then says which address that is.

`RequestOrderProofs` (the same generality): `RequestsAlwaysIntact`, `AlwaysFirstHost` and
`AnswersAlwaysInOrder`, that is `[]RequestsIntact`, `[]FirstHost` and `[]AnswersInOrder`.

* `OrderInv`: what a host has got lies in front of the chunk under way, until that is
  passed on; no part goes out twice because an error closes the connection and no
  path leads back to `handling` with the same chunk.
* `IntactInv`, for as long as no timer handler was late, says what becomes of a chunk that
  was not passed on: its host is gone (`Lost`), or its answer is empty, which closes
  the agent's connection, or the server's connection is one the agent cannot use again
  (`link = "stale"`). So nothing can be passed on behind a gap.
* `HostInv`, likewise without late handlers. `FirstHost`, which adds that
  connections are reused, speaks of what was served; what makes it inductive is why the server cannot dial again (`DialInv`): once a chunk was
  served, a server without a host has an agent that will close (the answer is empty),
  has closed, or has a stale link. A polled CONNECT does dial again, and nothing is
  asked behind it (`Over`).
* `AnswersInv`, likewise: what hosts have sent is what the client has got, then the
  answer on its way (`Coming`), then what waits in the server's socket, as long as
  the connections can still be used (`Usable`). Where parts are dropped (`AnswerMissing`,
  a server's connection that ends) they cannot be used any more, but an answer
  already on its way is still the right piece of the stream (`Piece`). So the rest of
  an answer that one `read_some` did not take is the beginning of the next one.

`DirectTunnelProofs` (for any numbers of chunks and any window; `TunnelAssumption` only):
every step is first sorted by what it does (`Steps`): the open or a loop moves one chunk
along, a side closes for one of the reasons in `Reason`, a late handler cuts a
`TCPClient` off, an end sends, receives or leaves, or nothing that matters happens.

* `DirectTypesCorrect`: `[]TypeOK`, from `TunnelInv`, which adds where a loop can be
  running (`LoopInv`), which answers go with which stage of the server (`ServerInv`),
  that nothing has come past a server that has not dialled (`QuietInv`), and which
  arrays are still empty (`ArraysInv`).
* `PipesCorrect`: `Spec => PipesOK`, the refinement. `Flow` is what can still reach the
  sink as a function of the state; it is a nested concatenation that a closed or cut
  node interrupts. A chunk that moves along leaves it unchanged (`AlongMoves`), whatever
  closes leaves a prefix of it and breaks the pipe (`CutsLess`), and a chunk is put in
  or taken out at its ends (`SendFlow`, `ReceiveFlow`). So each step is a step of a pipe or a
  stutter (`PipeSteps`).
* `ReceivedInOrderAlways` and `ConservedAlways`: `StreamInv` compares, over the steps of
  the pipes, what was received and is on its way with the numbers put in: a prefix of
  them always, all of them while nothing is broken. `Conserved` unfolds `Flow` for a
  direction in which nobody has closed.
* `GrantStandsAlways`: `StandInv` says that an untouched tunnel, granted or still being
  opened, has both sides, and that over TCP the target is silent before the agent has
  read the answer, or the history says it spoke. With `StreamInv` the answer is then
  alone on its wire (`AnswerAlone`), and no reason to close is left (`NoReason`).

Every invariant of a passing run and both refinements are proved (`GrantIsReal` for the
HTTP tunnels, of which it holds; `SingleCopies` and `SingleConnection` are `BoundedCopies`
and `OwnConnection` for `Reuse = FALSE`). Only model-checked is
liveness (`PostReturns`, `DownstreamDelivered`, `RequestEnds`, `EndSpreads`, `Delivered`,
`NothingStalls`), which is out of the prover's reach. The violations of section 4 are
TLC's, too.

## 7. Plan

Done: the polled and the direct tunnel end to end, each with its abstract specification;
`TCPClient` under the agent's requests; the worker pool; a client's requests up to its
tunnel with the SOCKS5 handshake and addresses; and the theorems of section 6. Next:

1. `HttpBody`: body framing (`readHttpMessageImpl`, `readRemainingHttpBodyImpl`) as
   functions against a reference definition.
2. The composition of `WorkerPool` with two tunnels, if it stays small enough.

## 8. Not modelled

* Encryption, Base64 and hex, YAML reading and validation, logging: data conversions and
  output without control worth a state machine.
* Body framing by Content-Length or chunks, Boost.Beast's parser, and the sniffing of TLS
  records in `detectType`. Agent and server write Content-Length to each other, so
  the modules above take a message between them as a whole.
* Requests a server cannot decode (the agent is its only peer here); names that contain
  spaces or line ends, which change the text of the synthetic CONNECT.
* `general.timeout: 0`, which turns all timers off; failures of the acceptor or of the
  TLS set-up; the end of the process.
* OpenSSL's internals; several tunnels at once, which share nothing but the worker pool.

## 9. Running

    tlc -config PollRelay.cfg MCPollTunnel.tla
    tlc -config DirectTunnel.cfg DirectTunnel.tla
    tlc -config WorkerPool.cfg WorkerPool.tla
    tlc -config ClientRequests.cfg MCClientRequests.tla
    tlapm PollTunnelProofs.tla
    tlapm PollGrantProofs.tla
    tlapm PollStreamProofs.tla
    tlapm AgentRequestsProofs.tla
    tlapm WorkerPoolProofs.tla
    tlapm ClientRequestsProofs.tla
    tlapm RequestOrderProofs.tla
    tlapm DirectTunnelProofs.tla

The other runs are started in the same way, with the module and the configuration that
`PROJECT.json` names for them.
