----------------------------- MODULE DirectTunnel -----------------------------
(***************************************************************************)
(* One tunnel with general.tunnelEnable, from the CONNECT to the end: a    *)
(* single agent-to-server connection carries the open and its answer, and  *)
(* then raw bytes, moved by two relay loops of the agent's TCPConnection   *)
(* and two of the server's.                                                *)
(*                                                                         *)
(*   up:    client --1--> agent --2--> server --3--> target                *)
(*   down:  target --1--> server --2--> agent --3--> client                *)
(*                                                                         *)
(* wire[d][k] is the k-th connection of direction d (send buffer, network  *)
(* and receive buffer), and relay loop <<d, k>> moves chunks from wire k   *)
(* to wire k + 1 through one array of its TCPConnection.  A loop has a     *)
(* read or a write outstanding, never both; the arrays and the strand are  *)
(* all the two loops of a connection share.                                *)
(*                                                                         *)
(* Left out: encryption and framing of the open, the bytes of TLS (but not *)
(* that a TLS read returns one record), and how long timeouts are.         *)
(***************************************************************************)
EXTENDS Integers, Sequences

CONSTANTS
    MaxUp,          \* bound: chunks the client sends
    MaxDown,        \* bound: chunks the target sends
    Window          \* chunks a wire holds before its writer has to wait

ASSUME TunnelAssumption ==
    /\ MaxUp \in Nat /\ MaxDown \in Nat
    /\ Window \in Nat \ {0}

VARIABLES
    tls,            \* general.tlsEnable
    pc,             \* where each node stands, see Stands
    answer,         \* what the server made of the CONNECT
    cut,            \* whose TCPClient was closed by a late timer handler
    loop,           \* each relay loop: "off", "read" or "write"
    buf,            \* what its array holds
    wire,           \* chunks on each wire, in order
    sent,           \* chunks sent by the source of each direction
    pipelined,      \* how many of them the client sent right behind its CONNECT
    got,            \* what the sink of each direction received, in order
    faults          \* history: "timeout", "spoke"

vars == <<tls, pc, answer, cut, loop, buf, wire, sent, pipelined,
          got, faults>>

Dirs == {"up", "down"}
Hops == 1..2
Sides == {"agent", "server"}
MaxSent(d) == IF d = "up" THEN MaxUp ELSE MaxDown

\* Who writes a wire and who reads it.
Writer(d, k) == IF d = "up" THEN <<"client", "agent", "server">>[k]
                            ELSE <<"target", "server", "agent">>[k]
Reader(d, k) == IF d = "up" THEN <<"agent", "server", "target">>[k]
                            ELSE <<"server", "agent", "client">>[k]
Hop(s, d) == IF (s = "agent") = (d = "up") THEN 1 ELSE 2

\* What travels down besides the target's chunks 1, 2, ...: the answers
\* "200 Connection Established", "502 Bad Gateway" and "400 Bad Request".
Granted == 0
Refused == -1
Rejected == -2
NoAnswer == -3

Stands == [client : {"open", "half", "gone"},
           agent  : {"opening", "reply", "relay", "closed"},
           server : {"dialing", "answering", "relay", "http", "closed"},
           target : {"open", "half", "gone"}]

Ended(n) == pc[n] \in {"half", "gone", "closed"}   \* sends no more
Deaf(n) == pc[n] \in {"gone", "closed"}            \* reads no more
Relaying(s) == pc[s] = "relay"
IsOpen(s) == s \notin cut                          \* client_->isOpen()

\* The array a loop reads into.  Mutant: both loops of a side use one array.
OneArray(d, k) == <<"up", Hop(Reader(d, k), "up")>>
Array(d, k) == <<d, k>>
Arrays == Dirs \X Hops
Held(d, k) == buf[Array(d, k)]

\* connect_: on the agent set by every CONNECT, on the server by its success.
\* Mutant: it is never set.
NeverConnect(s) == FALSE
Connect(s) == IF s = "agent" THEN pc["agent"] \in {"reply", "relay"}
                             ELSE answer = Granted

(***************************************************************************)
(* The end of a side: socketShutdown closes both sockets and aborts both   *)
(* loops.  What a socket had received is lost, and a reset may take what   *)
(* it had sent from the receiver, the latest first.  w is the state of the *)
(* wires after what the calling handler wrote.                             *)
(***************************************************************************)
Prefixes(q) == {SubSeq(q, 1, n) : n \in 0..Len(q)}

Shutdown(s, w) ==
    /\ pc' = [pc EXCEPT ![s] = "closed"]
    /\ loop' = [d \in Dirs |-> [loop[d] EXCEPT ![Hop(s, d)] = "off"]]
    /\ buf' = [a \in Arrays |-> IF a[2] = Hop(s, a[1]) THEN <<>> ELSE buf[a]]
    /\ \E up \in Prefixes(w["up"][Hop(s, "up") + 1]),
          down \in Prefixes(w["down"][Hop(s, "down") + 1]) :
          wire' = [d \in Dirs |->
                     [w[d] EXCEPT ![Hop(s, d)] = <<>>,
                                  ![Hop(s, d) + 1] = IF d = "up" THEN up ELSE down]]
    /\ UNCHANGED <<tls, answer, cut, sent, pipelined, got>>

\* What the wires hold after a write of what loop <<d, k>> has in its array.
Written(d, k) ==
    IF Deaf(Reader(d, k + 1)) THEN wire ELSE [wire EXCEPT ![d][k + 1] = @ \o Held(d, k)]
CanWrite(d, k) == Deaf(Reader(d, k + 1)) \/ Len(wire[d][k + 1]) < Window
Emptied(d, k) == [buf EXCEPT ![Array(d, k)] = <<>>]

\* Mutant of Started: one of the two loops is forgotten.
StartedUp(s) == [loop EXCEPT !["up"][Hop(s, "up")] = "read"]

Started(s) == [d \in Dirs |-> [loop[d] EXCEPT ![Hop(s, d)] = "read"]]

(***************************************************************************)
(* The open.  The agent's strand is blocked in AgentHandler::handle, the   *)
(* server's in ServerHandler::handle.  After a refusal the server closes   *)
(* or goes on reading requests; the agent relays whatever the answer was.  *)
(***************************************************************************)
Dial ==
    /\ pc["server"] = "dialing"
    /\ pc' = [pc EXCEPT !["server"] = "answering"]
    /\ \E a \in {Granted, Refused} :
          /\ answer' = a
          /\ buf' = [buf EXCEPT ![Array("down", 1)] = <<a>>]
    /\ UNCHANGED <<tls, cut, loop, wire, sent, pipelined, got, faults>>

\* After a refusal the server reads requests again if connectionReuse is set.
AfterAnswer == IF answer = Granted THEN {"relay"} ELSE {"http", "closed"}

\* async_write of the server's answer, and its completion handler.
WriteAnswer ==
    /\ pc["server"] = "answering" /\ CanWrite("down", 1)
    /\ \/ /\ \/ /\ "relay" \in AfterAnswer /\ IsOpen("server")
                /\ pc' = [pc EXCEPT !["server"] = "relay"]
                /\ loop' = Started("server")
             \/ /\ "http" \in AfterAnswer
                /\ pc' = [pc EXCEPT !["server"] = "http"]
                /\ UNCHANGED loop
          /\ wire' = Written("down", 1) /\ buf' = Emptied("down", 1)
          /\ UNCHANGED <<tls, answer, cut, sent, pipelined, got>>
       \/ /\ "closed" \in AfterAnswer \/ ~IsOpen("server") \/ Deaf("agent")
          /\ Shutdown("server", Written("down", 1))
    /\ UNCHANGED faults

\* Mutant of ReadAnswer: what was read along with the answer is dropped.
ReadAnswerOnly ==
    /\ pc["agent"] = "opening" /\ wire["down"][2] # <<>>
    /\ pc' = [pc EXCEPT !["agent"] = "reply"]
    /\ wire' = [wire EXCEPT !["down"][2] = <<>>]
    /\ buf' = [buf EXCEPT ![Array("down", 2)] = <<Head(wire["down"][2])>>]
    /\ UNCHANGED <<tls, answer, cut, loop, sent, pipelined, got, faults>>

\* The agent reads the answer up to the end of its headers, then the rest of
\* its body.  Over TCP what has arrived behind it may come along and makes the
\* answer undecodable; a TLS read returns one record.
ReadAnswer ==
    /\ pc["agent"] = "opening"
    /\ \E n \in 1..Len(wire["down"][2]) :
          /\ n > 1 => ~tls
          /\ \/ /\ n = 1
                /\ pc' = [pc EXCEPT !["agent"] = "reply"]
                /\ wire' = [wire EXCEPT !["down"][2] = Tail(@)]
                /\ buf' = [buf EXCEPT ![Array("down", 2)] = <<Head(wire["down"][2])>>]
                /\ UNCHANGED <<tls, answer, cut, loop, sent, pipelined, got>>
             \/ n > 1 /\ Shutdown("agent", wire)
    /\ UNCHANGED faults

\* No answer: the TCPClient's timer expires, or the server has closed.
AgentTimeout ==
    /\ pc["agent"] = "opening"
    /\ Shutdown("agent", wire)
    /\ faults' = faults \cup {"timeout"}

AnswerMissing ==
    /\ pc["agent"] = "opening" /\ wire["down"][2] = <<>> /\ Ended("server")
    /\ Shutdown("agent", wire)
    /\ UNCHANGED faults

\* async_write of the answer to the client, and its completion handler.
WriteReply ==
    /\ pc["agent"] = "reply" /\ CanWrite("down", 2)
    /\ \/ /\ IsOpen("agent")
          /\ pc' = [pc EXCEPT !["agent"] = "relay"]
          /\ loop' = Started("agent")
          /\ wire' = Written("down", 2) /\ buf' = Emptied("down", 2)
          /\ UNCHANGED <<tls, answer, cut, sent, pipelined, got>>
       \/ /\ ~IsOpen("agent") \/ Deaf("client")
          /\ Shutdown("agent", Written("down", 2))
    /\ UNCHANGED faults

\* A server that refused takes what comes for the next request: it waits for
\* the rest of it, cannot make anything of it, or answers that it is bad.
ReadRaw ==
    /\ pc["server"] = "http" /\ wire["up"][2] # <<>>
    /\ LET rest == [wire EXCEPT !["up"][2] = Tail(@)]
       IN  \/ Shutdown("server", rest)
           \/ /\ wire' = rest
              /\ \/ UNCHANGED <<pc, buf>>
                 \/ /\ pc' = [pc EXCEPT !["server"] = "answering"]
                    /\ buf' = [buf EXCEPT ![Array("down", 1)] = <<Rejected>>]
              /\ UNCHANGED <<tls, answer, cut, loop, sent, pipelined, got>>
    /\ UNCHANGED faults

RawEnds ==
    /\ pc["server"] = "http" /\ wire["up"][2] = <<>> /\ Ended("agent")
    /\ Shutdown("server", wire)
    /\ UNCHANGED faults

\* TCPConnection::onTimeout: the timer of a read or a write, or a handler of it
\* that was queued when it was cancelled.
OnTimeout(s) ==
    /\ pc[s] \in {"reply", "relay", "answering", "http"} /\ ~Connect(s)
    /\ Shutdown(s, wire)
    /\ UNCHANGED faults

(***************************************************************************)
(* The relay loops.                                                        *)
(***************************************************************************)
\* Mutant of LoopReads: it does not wait for its last write.
ReadsOn(d, k) ==
    /\ loop[d][k] # "off" /\ wire[d][k] # <<>>
    /\ buf' = [buf EXCEPT ![Array(d, k)] = Append(@, Head(wire[d][k]))]
    /\ wire' = [wire EXCEPT ![d][k] = Tail(@)]
    /\ loop' = [loop EXCEPT ![d][k] = "write"]
    /\ UNCHANGED <<tls, pc, answer, cut, sent, pipelined, got, faults>>

LoopReads(d, k) ==
    /\ loop[d][k] = "read" /\ wire[d][k] # <<>>
    /\ d = "down" => IsOpen(Reader(d, k))
    /\ buf' = [buf EXCEPT ![Array(d, k)] = <<Head(wire[d][k])>>]
    /\ wire' = [wire EXCEPT ![d][k] = Tail(@)]
    /\ loop' = [loop EXCEPT ![d][k] = "write"]
    /\ UNCHANGED <<tls, pc, answer, cut, sent, pipelined, got, faults>>

\* A peer that has closed takes one more write and drops it, or the write fails.
LoopWrites(d, k) ==
    /\ loop[d][k] = "write" /\ CanWrite(d, k)
    /\ d = "up" => IsOpen(Reader(d, k))
    /\ \/ /\ wire' = Written(d, k) /\ buf' = Emptied(d, k)
          /\ loop' = [loop EXCEPT ![d][k] = "read"]
          /\ UNCHANGED <<tls, pc, answer, cut, sent, pipelined, got>>
       \/ Deaf(Reader(d, k + 1)) /\ Shutdown(Reader(d, k), wire)
    /\ UNCHANGED faults

\* Mutant of LoopEnds: the loop just stops at the end of its input.
LoopStops(d, k) ==
    /\ loop[d][k] = "read" /\ wire[d][k] = <<>> /\ Ended(Writer(d, k))
    /\ loop' = [loop EXCEPT ![d][k] = "off"]
    /\ UNCHANGED <<tls, pc, answer, cut, buf, wire, sent, pipelined,
                   got, faults>>

LoopEnds(d, k) ==
    /\ loop[d][k] = "read" /\ wire[d][k] = <<>> /\ Ended(Writer(d, k))
    /\ Shutdown(Reader(d, k), wire)
    /\ UNCHANGED faults

\* A handler of the TCPClient's timer that was queued when its last call (the
\* server's doConnect, the agent's doReadAgent) returned closes its socket
\* under the relay loops; they notice at once or when they start.
LateTimeout(s) ==
    /\ IsOpen(s)
    /\ pc[s] \in {"reply", "answering", "relay"} /\ Connect(s)
    /\ cut' = cut \cup {s}
    /\ \E q \in Prefixes(wire["up"][Hop(s, "up") + 1]) :
          wire' = [wire EXCEPT !["up"][Hop(s, "up") + 1] = q,
                               !["down"][Hop(s, "down")] = <<>>]
    /\ UNCHANGED <<tls, pc, answer, loop, buf, sent, pipelined, got, faults>>

Aborted(s) ==
    /\ Relaying(s) /\ ~IsOpen(s)
    /\ Shutdown(s, wire)
    /\ UNCHANGED faults

(***************************************************************************)
(* The two ends.                                                           *)
(***************************************************************************)
Source(d) == Writer(d, 1)
Sink(d) == Reader(d, 3)

\* An end takes part while its neighbour has a socket to it; the target once
\* the server has connected.
Present(d) == IF d = "up" THEN pc["agent"] # "closed" 
              ELSE answer = Granted /\ pc["server"] # "closed" /\ IsOpen("server")

Send(d) ==
    /\ pc[Source(d)] = "open" /\ Present(d)
    /\ sent[d] < MaxSent(d) /\ Len(wire[d][1]) < Window
    /\ sent' = [sent EXCEPT ![d] = @ + 1]
    /\ wire' = [wire EXCEPT ![d][1] = Append(@, sent[d] + 1)]
    /\ faults' = IF d = "down" /\ pc["agent"] = "opening" /\ ~tls
                 THEN faults \cup {"spoke"} ELSE faults
    /\ UNCHANGED <<tls, pc, answer, cut, loop, buf, pipelined, got>>

Receive(d) ==
    /\ wire[d][3] # <<>> /\ ~Deaf(Sink(d))
    /\ got' = [got EXCEPT ![d] = Append(@, Head(wire[d][3]))]
    /\ wire' = [wire EXCEPT ![d][3] = Tail(@)]
    /\ UNCHANGED <<tls, pc, answer, cut, loop, buf, sent, pipelined, faults>>

\* An end shuts down its sending half, or closes, with a reset at worst.
Leave(d) ==
    /\ pc[Source(d)] # "gone" /\ Present(d)
    /\ \/ /\ pc[Source(d)] = "open"
          /\ pc' = [pc EXCEPT ![Source(d)] = "half"]
          /\ UNCHANGED wire
       \/ /\ pc' = [pc EXCEPT ![Source(d)] = "gone"]
          /\ \E q \in Prefixes(wire[d][1]), o \in Dirs \ {d} :
                wire' = [wire EXCEPT ![d][1] = q, ![o][3] = <<>>]
    /\ UNCHANGED <<tls, answer, cut, loop, buf, sent, pipelined, got, faults>>

(***************************************************************************)
(* Specification.                                                          *)
(***************************************************************************)
Init ==
    /\ tls \in BOOLEAN
    /\ pc = [client |-> "open", agent |-> "opening", server |-> "dialing", target |-> "open"]
    /\ answer = NoAnswer
    /\ cut = {}
    /\ loop = [d \in Dirs |-> [k \in Hops |-> "off"]]
    /\ buf = [a \in Arrays |-> <<>>]
    /\ wire = [d \in Dirs |-> [k \in 1..3 |-> <<>>]]
    \* What came with the CONNECT went to the server with it, and is dropped.
    /\ pipelined \in 0..1 /\ pipelined <= MaxUp
    /\ sent = [up |-> pipelined, down |-> 0]
    /\ got = [d \in Dirs |-> <<>>]
    /\ faults = {}

AgentOpens == ReadAnswer \/ AgentTimeout \/ AnswerMissing \/ WriteReply
ServerOpens == Dial \/ WriteAnswer \/ ReadRaw \/ RawEnds
Relay(d, k) == LoopReads(d, k) \/ LoopWrites(d, k) \/ LoopEnds(d, k)
End(d) == Send(d) \/ Receive(d) \/ Leave(d)

Next ==
    \/ AgentOpens \/ ServerOpens
    \/ \E s \in Sides : OnTimeout(s) \/ LateTimeout(s) \/ Aborted(s)
    \/ \E d \in Dirs : End(d) \/ \E k \in Hops : Relay(d, k)

Spec == Init /\ [][Next]_vars

\* Ready handlers run, a resolver or connect call returns, armed timers
\* expire.  Nothing is assumed of the two ends, nor of late handlers.
Fairness ==
    /\ WF_vars(AgentOpens \/ OnTimeout("agent") \/ Aborted("agent"))
    /\ WF_vars(ServerOpens \/ OnTimeout("server") \/ Aborted("server"))
    /\ \A d \in Dirs, k \in Hops : WF_vars(Relay(d, k))

FairSpec == Spec /\ Fairness

(***************************************************************************)
(* Properties.                                                             *)
(***************************************************************************)
Chunks == Nat \cup {Refused, Rejected}

\* Every variable holds what the code can store in it, and no array or wire
\* holds more than it has room for.
TypeOK ==
    /\ tls \in BOOLEAN
    /\ pc \in Stands
    /\ answer \in {NoAnswer, Granted, Refused}
    /\ cut \subseteq Sides
    /\ loop \in [Dirs -> [Hops -> {"off", "read", "write"}]]
    /\ buf \in [Arrays -> Seq(Chunks)] /\ \A a \in Arrays : Len(buf[a]) <= 1
    /\ wire \in [Dirs -> [1..3 -> Seq(Chunks)]]
    /\ \A d \in Dirs, k \in 1..3 : Len(wire[d][k]) <= Window
    /\ sent \in [Dirs -> Nat] /\ \A d \in Dirs : sent[d] <= MaxSent(d) /\ pipelined \in 0..1
    /\ got \in [Dirs -> Seq(Chunks)]
    /\ faults \subseteq {"timeout", "spoke"}

\* Everything a direction holds, the oldest chunk first.
Path(d) == got[d] \o wire[d][3] \o Held(d, 2) \o wire[d][2] \o Held(d, 1) \o wire[d][1]

First(d) == IF d = "up" THEN pipelined + 1 ELSE Granted
Counted(d) == [i \in 1..(sent[d] + 1 - First(d)) |-> First(d) + i - 1]

Intact == cut = {} /\ \A n \in DOMAIN pc : ~Deaf(n)

\* While nobody has closed, the relay loops lose, repeat and reorder nothing:
\* both directions hold exactly what was sent into them, the answer to the
\* CONNECT in front, except what came together with the CONNECT.
Conserved == answer = Granted /\ Intact => \A d \in Dirs : Path(d) = Counted(d)

\* A tunnel the server granted stands until an end closes its sending half, a
\* TCPClient timer interferes, or the target speaks before the agent has read
\* the answer and its bytes are read along with it, which TLS prevents.  In
\* particular no timer of the two TCPConnections ends it.
GrantStands ==
    /\ answer = Granted
    /\ pc["client"] = "open" /\ pc["target"] = "open" /\ cut = {}
    /\ faults = {}
    => pc["agent"] # "closed" /\ pc["server"] # "closed"

\* The sink of d keeps reading: its socket is empty again and again.
Flowing(d) == []<>(wire[d][3] = <<>>)

\* Where a direction keeps flowing, neither the departure of its source nor the
\* end of the side next to it goes unnoticed, though no timer watches a tunnel
\* and the other direction may be stuck for ever: both sides close.
EndSpreads ==
    \A d \in Dirs : Flowing(d) =>
        (Ended(Source(d)) \/ Ended(Reader(d, 1))
            ~> pc["agent"] = "closed" /\ pc["server"] = "closed")

\* What is sent into a direction that flows arrives, unless somebody closes
\* (the bound on what is sent lets "again and again" mean all of it).
Delivered ==
    \A d \in Dirs : Flowing(d) =>
        []<>(\/ answer = Granted /\ got[d] = Counted(d)
             \/ \E n \in DOMAIN pc : Ended(n))

(***************************************************************************)
(* Refinement: what can still reach the sink is ahead of the first node,   *)
(* seen from the sink, that has closed or lost its TCPClient's socket.     *)
(***************************************************************************)
CannotWrite(d, k) == Deaf(Reader(d, k)) \/ (d = "up" /\ ~IsOpen(Reader(d, k)))
CannotRead(d, k) == d = "down" /\ ~IsOpen(Reader(d, k))

InHop(d, k, behind) ==
    IF CannotWrite(d, k) THEN <<>>
    ELSE Held(d, k) \o IF CannotRead(d, k) THEN <<>> ELSE wire[d][k] \o behind

Transit(d) ==
    IF answer = Refused \/ Deaf(Sink(d)) THEN <<>>
    ELSE wire[d][3] \o InHop(d, 2, InHop(d, 1, <<>>))

Pipes == INSTANCE TunnelPipes WITH
    next <- [d \in Dirs |-> IF d = "down" /\ answer # Granted THEN 0 ELSE sent[d] + 1],
    transit <- [d \in Dirs |-> Transit(d)],
    out <- [d \in Dirs |-> IF answer = Granted THEN got[d] ELSE <<>>],
    broken <- [d \in Dirs |-> answer = Refused \/ cut # {} \/ \E n \in DOMAIN pc : Deaf(n)]

\* The tunnel implements the two pipes of TunnelPipes: what an end receives is
\* an initial part of what was sent, whatever fails and whenever.
PipesOK == Pipes!PipesSpec
=============================================================================
