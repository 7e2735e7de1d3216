---------------------------- MODULE ServerHandler ----------------------------
(***************************************************************************)
(* The server's half of one polled tunnel (general.tunnelEnable = no).     *)
(*                                                                         *)
(* The agent of a tunnel talks to the server over HTTP requests, each on   *)
(* some agent-to-server connection c \in Conns.  A connection is served by *)
(* one TCPConnection whose handlers run on its own strand, so it handles   *)
(* one request at a time; two connections are served by two threads of the *)
(* pool, and what they share is the entry of ServerHandler::sessions_ for  *)
(* the tunnel and the TCPClient that entry holds.  One session identifier  *)
(* is modelled: tunnels with different identifiers share nothing.          *)
(*                                                                         *)
(* A chunk is what one read returned; it is known by its number, counted   *)
(* from 1 in each direction.  Encryption and HTTP framing are left out.    *)
(***************************************************************************)
EXTENDS Naturals, Sequences, FiniteSets

CONSTANTS
    Conns,      \* agent-to-server connections
    Reuse,      \* general.connectionReuse, the same on both sides
    MaxDown     \* bound: chunks the target sends

ASSUME ServerAssumption == Reuse \in BOOLEAN /\ MaxDown \in Nat

VARIABLES
    session,    \* sessions_ has an entry for the tunnel
    target,     \* socket of that entry's TCPClient, see Targets
    produced,   \* chunks the target has sent
    taken,      \* chunks the server has read from the target's socket
    targetGot,  \* chunks that reached the target, in order
    buffer,     \* chunks in writeBuffer_ of that TCPClient
    mixed,      \* history: two handlers were in its doWrite at once
    srvOpen,    \* connections whose server side is open
    reqs,       \* requests on their way to the server, per connection
    resps,      \* responses on their way to the agent, per connection
    step,       \* where the handler of a connection stands, see Steps
    held        \* the request that handler works on

session_vars == <<session, target, produced, taken, targetGot, buffer, mixed>>
conn_vars == <<srvOpen, reqs, resps, step, held>>
server_vars == <<session_vars, conn_vars>>

Actions == {"open", "send", "recv", "close"}
NoData  == 0    \* an empty body
Garbage == 0    \* bytes the sender never wrote

\* attempt tells the two tries of postTunnelAction apart; the code sends the
\* same bytes both times.
Request == [act : Actions, chunk : Nat, attempt : 1..2]
NoRequest == [act |-> "none", chunk |-> NoData, attempt |-> 0]
Response == [req : Request, ok : BOOLEAN, data : Nat]

\* "hungup": the peer closed, the local socket is still open.
Targets == {"none", "open", "hungup", "shut"}

\* "write" is inside TCPClient::doWrite; "torn" is a write that overlapped
\* another one on the same TCPClient: each doWrite empties and refills the one
\* writeBuffer_, also under a handler that is writing from it.
Steps == {"idle", "connect", "write", "torn", "read"}

TargetIsOpen == session /\ target \in {"open", "hungup"}
Writers == {c \in Conns : step[c] \in {"write", "torn"}}

Asked(c, act) ==
    /\ c \in srvOpen
    /\ step[c] = "idle"
    /\ reqs[c] # <<>>
    /\ Head(reqs[c]).act = act

\* Mutant of Begin: the handler runs on a buffer that was emptied.
BeginEmpty(c, s) ==
    /\ step' = [step EXCEPT ![c] = s]
    /\ reqs' = [reqs EXCEPT ![c] = Tail(@)]
    /\ UNCHANGED <<held, srvOpen, resps>>

\* The handler keeps the request and goes on to s.
Begin(c, s) ==
    /\ step' = [step EXCEPT ![c] = s]
    /\ held' = [held EXCEPT ![c] = Head(reqs[c])]
    /\ reqs' = [reqs EXCEPT ![c] = Tail(@)]
    /\ UNCHANGED <<srvOpen, resps>>

\* The response is written; the connection then reads the next request, or is
\* shut down when connections are not reused.
Respond(c, q, ok, data) ==
    /\ resps' = [resps EXCEPT ![c] =
                    Append(@, [req |-> q, ok |-> ok, data |-> data])]
    /\ srvOpen' = IF Reuse THEN srvOpen ELSE srvOpen \ {c}

\* A handler answers at once...
RespondNow(c, data) ==
    /\ Respond(c, Head(reqs[c]), TRUE, data)
    /\ reqs' = [reqs EXCEPT ![c] = Tail(@)]
    /\ UNCHANGED <<step, held>>

\* ... or after the blocking call it was in.
Finish(c, ok, data) ==
    /\ Respond(c, held[c], ok, data)
    /\ step' = [step EXCEPT ![c] = "idle"]
    /\ held' = [held EXCEPT ![c] = NoRequest]
    /\ UNCHANGED reqs

Deliver(chunk) == targetGot' = Append(targetGot, chunk)
-----------------------------------------------------------------------------
(* A CONNECT: the handler connects to the target, writes what the client   *)
(* pipelined behind its CONNECT, records the session and answers 200; or   *)
(* it answers 502.  The result of the pipelined write is not looked at.    *)
HandleOpen(c) == Asked(c, "open") /\ Begin(c, "connect") /\ UNCHANGED session_vars

\* Mutant of OpenTarget: the pipelined chunk is dropped.
OpenDropsPending(c) ==
    /\ step[c] = "connect"
    /\ session' = TRUE /\ target' = "open"
    /\ Finish(c, TRUE, NoData)
    /\ UNCHANGED <<produced, taken, targetGot, buffer, mixed>>

OpenTarget(c) ==
    /\ step[c] = "connect"
    /\ session' = TRUE
    /\ \/ target' = "open"
          /\ IF held[c].chunk = NoData THEN UNCHANGED targetGot
                                       ELSE Deliver(held[c].chunk)
       \/ held[c].chunk # NoData /\ target' = "shut" /\ UNCHANGED targetGot
    /\ Finish(c, TRUE, NoData)
    /\ UNCHANGED <<produced, taken, buffer, mixed>>

RefuseTarget(c) ==
    /\ step[c] = "connect"
    /\ Finish(c, FALSE, NoData)
    /\ UNCHANGED session_vars

(* A send: without an open target the body is dropped and the answer is    *)
(* the same 200.  Otherwise TCPClient::doWrite, which holds no lock.       *)
DropSend(c) ==
    /\ Asked(c, "send")
    /\ ~TargetIsOpen
    /\ RespondNow(c, NoData)
    /\ UNCHANGED session_vars

HandleSend(c) ==
    /\ Asked(c, "send")
    /\ TargetIsOpen
    /\ held' = [held EXCEPT ![c] = Head(reqs[c])]
    /\ step' = [d \in Conns |->
                  IF d \in Writers \cup {c}
                  THEN IF Writers = {} THEN "write" ELSE "torn"
                  ELSE step[d]]
    /\ buffer' = buffer \cup {Head(reqs[c]).chunk}
    /\ mixed' = (mixed \/ Writers # {})
    /\ reqs' = [reqs EXCEPT ![c] = Tail(@)]
    /\ UNCHANGED <<srvOpen, resps, session, target, produced, taken, targetGot>>

\* What a torn write sends is whatever the buffer holds meanwhile: nothing, one
\* of the chunks moved into it, its own or another handler's, or other bytes, a
\* mixture or more than one of them, which count as one piece of Garbage.
DeliverTorn == UNCHANGED targetGot \/ \E chunk \in buffer \cup {Garbage} : Deliver(chunk)

WriteTarget(c) ==
    /\ c \in Writers
    /\ \/ /\ target = "open"
          /\ IF step[c] = "torn" THEN DeliverTorn ELSE Deliver(held[c].chunk)
          /\ UNCHANGED target
       \/ target = "hungup" /\ UNCHANGED <<target, targetGot>>
       \/ target' = "shut" /\ UNCHANGED targetGot
    /\ buffer' = IF Writers = {c} THEN {} ELSE buffer
    /\ Finish(c, TRUE, NoData)
    /\ UNCHANGED <<session, produced, taken, mixed>>

(* A recv: available() says whether there is anything to read, and a       *)
(* blocking read_some without a timer follows.  If another handler emptied *)
(* the socket in between, it waits for the next chunk.                     *)
NothingToRead(c) ==
    /\ Asked(c, "recv")
    /\ ~TargetIsOpen \/ taken = produced
    /\ RespondNow(c, NoData)
    /\ UNCHANGED session_vars

HandleRecv(c) ==
    /\ Asked(c, "recv")
    /\ TargetIsOpen /\ taken < produced
    /\ Begin(c, "read")
    /\ UNCHANGED session_vars

ReadTarget(c) ==
    /\ step[c] = "read"
    /\ \/ /\ target \in {"open", "hungup"} /\ taken < produced
          /\ taken' = taken + 1
          /\ Finish(c, TRUE, taken + 1)
       \/ /\ target = "shut" \/ (target = "hungup" /\ taken = produced)
          /\ Finish(c, TRUE, NoData)
          /\ UNCHANGED taken
    /\ UNCHANGED <<session, target, produced, targetGot, buffer, mixed>>

(* A close: the session is erased and its socket shut down, which also     *)
(* wakes a handler that is reading from it or writing to it.               *)
\* Mutant of HandleClose: the entry is not erased.
CloseKeepsSession(c) ==
    /\ Asked(c, "close")
    /\ target' = IF session THEN "shut" ELSE target
    /\ RespondNow(c, NoData)
    /\ UNCHANGED <<session, produced, taken, targetGot, buffer, mixed>>

HandleClose(c) ==
    /\ Asked(c, "close")
    /\ session' = FALSE
    /\ target' = IF session THEN "shut" ELSE target
    /\ RespondNow(c, NoData)
    /\ UNCHANGED <<produced, taken, targetGot, buffer, mixed>>
-----------------------------------------------------------------------------
(* The target host, outside the program.                                   *)
TargetSends ==
    /\ target = "open"
    /\ produced < MaxDown
    /\ produced' = produced + 1
    /\ UNCHANGED <<session, target, taken, targetGot, buffer, mixed, conn_vars>>

TargetHangsUp ==
    /\ target = "open"
    /\ target' = "hungup"
    /\ UNCHANGED <<session, produced, taken, targetGot, buffer, mixed, conn_vars>>
-----------------------------------------------------------------------------
ServerInit ==
    /\ session = FALSE
    /\ target = "none"
    /\ produced = 0 /\ taken = 0
    /\ targetGot = <<>>
    /\ buffer = {} /\ mixed = FALSE
    /\ srvOpen = {}
    /\ reqs = [c \in Conns |-> <<>>] /\ resps = [c \in Conns |-> <<>>]
    /\ step = [c \in Conns |-> "idle"]
    /\ held = [c \in Conns |-> NoRequest]

Handler(c) ==
    \/ HandleOpen(c) \/ OpenTarget(c) \/ RefuseTarget(c)
    \/ DropSend(c) \/ HandleSend(c) \/ WriteTarget(c)
    \/ NothingToRead(c) \/ HandleRecv(c) \/ ReadTarget(c)
    \/ HandleClose(c)

ServerNext == (\E c \in Conns : Handler(c)) \/ TargetSends \/ TargetHangsUp

ServerTypeOK ==
    /\ session \in BOOLEAN
    /\ target \in Targets
    /\ produced \in 0..MaxDown
    /\ taken \in 0..produced
    /\ targetGot \in Seq(Nat)
    /\ buffer \subseteq Nat /\ mixed \in BOOLEAN
    /\ srvOpen \subseteq Conns
    /\ reqs \in [Conns -> Seq(Request)]
    /\ resps \in [Conns -> Seq(Response)]
    /\ step \in [Conns -> Steps]
    /\ held \in [Conns -> Request \cup {NoRequest}]
=============================================================================
