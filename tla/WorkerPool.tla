------------------------------ MODULE WorkerPool ------------------------------
(***************************************************************************)
(* The worker threads of one process (Runner::run), agent or server, and   *)
(* the connections they serve.  Every handler runs on a worker of one      *)
(* io_context.  Handlers of a TCPConnection run on its strand, one at a    *)
(* time; the accept handler and the handler of TCPClient's timer are on no *)
(* strand.  Some handlers block the worker they run on:                    *)
(*                                                                         *)
(*   handshake  TLS handshake in the accept handler of a server, watched   *)
(*              by the connection's timer, whose handler is on the strand; *)
(*   reading    the rest of a request, or of a SOCKS5 handshake, or what   *)
(*              a server's recv found available, watched by no timer;      *)
(*   calling    a call of TCPClient, watched by TCPClient's timer.         *)
(*                                                                         *)
(* So a timer that is to end a blocking call needs a worker that is not    *)
(* blocked itself.  The peers may be silent for ever.                      *)
(*                                                                         *)
(* A request makes several calls one after the other, each with a timer of *)
(* its own; one stands for them here.  The resolver's call in doConnect    *)
(* comes before its resetTimeout and ends by limits of the resolver's own; *)
(* it is taken for a part of the timed call.                               *)
(* A handler that finds its connection closed does nothing, and is left    *)
(* out.                                                                    *)
(***************************************************************************)
EXTENDS Integers, FiniteSets

CONSTANTS
    Workers,        \* worker threads there may be
    Conns,          \* connections of the process
    Nobody          \* a worker that is not blocked works for nobody

ASSUME PoolAssumption ==
    /\ IsFiniteSet(Workers) /\ Workers # {}
    /\ IsFiniteSet(Conns)
    /\ Nobody \notin Conns

VARIABLES
    pool,           \* the workers of this process: threads of its section
    handshakes,     \* a server with general.tlsEnable
    stage,          \* what goes on on each connection, see Stages
    at,             \* the connection a worker is blocked for
    ready,          \* handlers waiting for a worker
    armed,          \* timers running: <<c, "connTimer">>, <<c, "callTimer">>
    cut,            \* connections whose blocking call was cut by a timer
    tunnel          \* connect_: polled tunnels, which the connection's timer spares

vars == <<pool, handshakes, stage, at, ready, armed, cut, tunnel>>
config_vars == <<pool, handshakes>>

Blocking == {"handshake", "reading", "calling"}
\* "none": not accepted yet; "idle": an async_read is outstanding; "writing":
\* an async_write is.
Stages == {"none", "accepted", "idle", "writing", "closed"} \cup Blocking
Kinds == {"accept", "data", "poll", "written", "connTimer", "callTimer"}

Idle(w) == at[w] = Nobody
Open == {c \in Conns : stage[c] \notin {"none", "closed"}}

\* Mutant of StrandFree: the handlers of a connection are bound to no strand.
NoStrand(c) == TRUE
\* The handshake runs in the accept handler, beside the strand.
StrandFree(c) == stage[c] = "handshake" \/ \A w \in pool : at[w] # c

Of(c) == {c} \X Kinds

\* An idle worker takes a handler from the queue and runs it.
Takes(w, c, kind) ==
    /\ w \in pool /\ Idle(w)
    /\ <<c, kind>> \in ready
    /\ kind \notin {"accept", "callTimer"} => StrandFree(c)

Done(c, kind) == ready' = ready \ {<<c, kind>>}
Frees(w) == at' = [at EXCEPT ![w] = Nobody]
Blocks(w, c, s) ==
    /\ at' = [at EXCEPT ![w] = c]
    /\ stage' = [stage EXCEPT ![c] = s]

\* socketShutdown: timers are cancelled, outstanding operations aborted.
Closes(c) ==
    /\ stage' = [stage EXCEPT ![c] = "closed"]
    /\ armed' = armed \ Of(c)
    /\ ready' = ready \ Of(c)
    /\ cut' = cut \ {c}
    /\ tunnel' = tunnel \ {c}

\* Mutant of NextRead: the connection's timer is not set again.
UntimedRead(c) ==
    /\ stage' = [stage EXCEPT ![c] = "idle"]
    /\ armed' = armed \ Of(c)
    /\ UNCHANGED tunnel

\* doReadAgent and doReadServer time the next read; the loops of a tunnel do not.
NextRead(c) ==
    /\ stage' = [stage EXCEPT ![c] = "idle"]
    /\ armed' = (armed \ Of(c)) \cup (IF c \in tunnel THEN {} ELSE {<<c, "connTimer">>})
    /\ UNCHANGED tunnel

\* A call of TCPClient; the connection's timer was cancelled before.
Calls(w, c) ==
    /\ Blocks(w, c, "calling")
    /\ armed' = (armed \ Of(c)) \cup {<<c, "callTimer">>}
    /\ UNCHANGED <<cut, tunnel>>

\* How a handler goes on once it blocks no more: a tunnel reads on, an answer is
\* written (connect_ may be set by then), or the connection is closed.  Timers
\* are cancelled, but a timer's handler that is in the queue stays there.
Continues(c, queue) ==
    \/ Closes(c)
    \/ /\ c \in tunnel /\ NextRead(c)
       /\ ready' = queue /\ cut' = cut \ {c}
    \/ /\ c \notin tunnel
       /\ tunnel' \in {tunnel, tunnel \cup {c}}
       /\ stage' = [stage EXCEPT ![c] = "writing"]
       /\ armed' = (armed \ Of(c)) \cup {<<c, "connTimer">>}
       /\ ready' = queue /\ cut' = cut \ {c}

(***************************************************************************)
(* The peers and the clock.                                                *)
(***************************************************************************)
Queued(c, kind) == ready' = ready \cup {<<c, kind>>}

Accept(c) ==
    /\ stage[c] = "none"
    /\ stage' = [stage EXCEPT ![c] = "accepted"] /\ Queued(c, "accept")
    /\ UNCHANGED <<config_vars, at, armed, cut, tunnel>>

\* The peer has sent something, or has left.
PeerSends(c) ==
    /\ stage[c] = "idle" /\ <<c, "data">> \notin ready
    /\ Queued(c, "data")
    /\ UNCHANGED <<config_vars, stage, at, armed, cut, tunnel>>

\* pollTimer_ of an agent's tunnel.
PollDue(c) ==
    /\ c \in tunnel /\ ~handshakes
    /\ stage[c] = "idle" /\ <<c, "poll">> \notin ready
    /\ Queued(c, "poll")
    /\ UNCHANGED <<config_vars, stage, at, armed, cut, tunnel>>

WriteDone(c) ==
    /\ stage[c] = "writing" /\ <<c, "written">> \notin ready
    /\ Queued(c, "written")
    /\ UNCHANGED <<config_vars, stage, at, armed, cut, tunnel>>

TimerExpires(c, timer) ==
    /\ <<c, timer>> \in armed
    /\ armed' = armed \ {<<c, timer>>} /\ Queued(c, timer)
    /\ UNCHANGED <<config_vars, stage, at, cut, tunnel>>

(***************************************************************************)
(* Handlers that a worker takes.                                           *)
(***************************************************************************)
RunAccept(w, c) ==
    /\ Takes(w, c, "accept") /\ Done(c, "accept")
    /\ IF handshakes
       THEN /\ Blocks(w, c, "handshake")
            /\ armed' = armed \cup {<<c, "connTimer">>} /\ UNCHANGED tunnel
       ELSE NextRead(c) /\ UNCHANGED at
    /\ UNCHANGED <<config_vars, cut>>

\* handleReadAgent, handleReadServer, and the tunnel's read of the client.
RunData(w, c) ==
    /\ Takes(w, c, "data")
    /\ \/ Continues(c, ready \ {<<c, "data">>}) /\ UNCHANGED at
       \/ Calls(w, c) /\ Done(c, "data")
       \/ /\ c \notin tunnel /\ Blocks(w, c, "reading") /\ Done(c, "data")
          /\ armed' = armed \ Of(c) /\ UNCHANGED <<cut, tunnel>>
    /\ UNCHANGED config_vars

RunPoll(w, c) ==
    /\ Takes(w, c, "poll") /\ Done(c, "poll")
    /\ Calls(w, c)
    /\ UNCHANGED config_vars

\* The answer is written: a tunnel begins, the next request is read, or the
\* connection is not to be reused.
RunWritten(w, c) ==
    /\ Takes(w, c, "written")
    /\ \/ Closes(c)
       \/ NextRead(c) /\ Done(c, "written") /\ UNCHANGED cut
    /\ UNCHANGED <<config_vars, at>>

\* TCPConnection::onTimeout.  A handshake whose socket it closes fails.
RunConnTimer(w, c) ==
    /\ Takes(w, c, "connTimer")
    /\ \/ /\ stage[c] = "handshake" /\ cut' = cut \cup {c}
          /\ Done(c, "connTimer") /\ UNCHANGED <<stage, armed, tunnel>>
       \/ stage[c] # "handshake" /\ c \notin tunnel /\ Closes(c)
       \/ /\ c \in tunnel /\ Done(c, "connTimer")
          /\ UNCHANGED <<stage, armed, cut, tunnel>>
    /\ UNCHANGED <<config_vars, at>>

\* TCPClient::onTimeout.  What one that comes late does to the client's socket
\* is the matter of module AgentRequests.
CallTimer(w, c) ==
    /\ Takes(w, c, "callTimer") /\ Done(c, "callTimer")
    /\ cut' = IF stage[c] = "calling" THEN cut \cup {c} ELSE cut
    /\ UNCHANGED <<config_vars, stage, at, armed, tunnel>>
\* Mutant of RunCallTimer: the handler is bound to the connection's strand.
CallTimerOnStrand(w, c) == StrandFree(c) /\ CallTimer(w, c)
RunCallTimer(w, c) == CallTimer(w, c)

(***************************************************************************)
(* The end of what a worker is blocked in.                                 *)
(***************************************************************************)
HandshakeEnds(w, c) ==
    /\ at[w] = c /\ stage[c] = "handshake" /\ Frees(w)
    /\ \/ Closes(c)
       \/ c \notin cut /\ NextRead(c) /\ UNCHANGED <<ready, cut>>
    /\ UNCHANGED config_vars

\* The rest of the request is there, or the peer has left.
ReadingEnds(w, c) ==
    /\ at[w] = c /\ stage[c] = "reading"
    /\ \/ Frees(w) /\ Continues(c, ready)
       \/ Calls(w, c) /\ UNCHANGED ready
    /\ UNCHANGED config_vars

CallEnds(w, c) ==
    /\ at[w] = c /\ stage[c] = "calling" /\ Frees(w)
    /\ Continues(c, ready)
    /\ UNCHANGED config_vars

\* A call or a handshake whose socket a timer has closed comes back.
Released(c) == c \in cut /\ \E w \in pool : HandshakeEnds(w, c) \/ CallEnds(w, c)

(***************************************************************************)
(* The process.                                                            *)
(***************************************************************************)
Init ==
    /\ pool \in SUBSET Workers \ {{}}
    /\ handshakes \in BOOLEAN
    /\ stage = [c \in Conns |-> "none"]
    /\ at = [w \in Workers |-> Nobody]
    /\ ready = {} /\ armed = {} /\ cut = {} /\ tunnel = {}

Runs(w, c) ==
    \/ RunAccept(w, c)
    \/ RunData(w, c)
    \/ RunPoll(w, c)
    \/ RunWritten(w, c)
    \/ RunConnTimer(w, c)
    \/ RunCallTimer(w, c)

Ends(w, c) ==
    \/ HandshakeEnds(w, c)
    \/ ReadingEnds(w, c)
    \/ CallEnds(w, c)

Peers(c) ==
    \/ Accept(c)
    \/ PeerSends(c)
    \/ PollDue(c)
    \/ WriteDone(c)
    \/ \E timer \in {"connTimer", "callTimer"} : TimerExpires(c, timer)

Next ==
    \E c \in Conns :
        \/ Peers(c)
        \/ \E w \in pool : Runs(w, c) \/ Ends(w, c)

Spec == Init /\ [][Next]_vars

\* The io_context hands every handler to a worker some time, if workers are free
\* again and again and the strand is; timers expire, and a call whose socket is
\* closed comes back.  Nothing is assumed of the peers.
Fairness ==
    \A c \in Conns :
        /\ SF_vars(\E w \in pool : RunAccept(w, c) \/ RunData(w, c) \/ RunPoll(w, c)
                                     \/ RunWritten(w, c))
        /\ SF_vars(\E w \in pool : RunConnTimer(w, c))
        /\ SF_vars(\E w \in pool : RunCallTimer(w, c))
        /\ WF_vars(\E timer \in {"connTimer", "callTimer"} : TimerExpires(c, timer))
        /\ WF_vars(Released(c))

FairSpec == Spec /\ Fairness

(***************************************************************************)
(* Properties.                                                             *)
(***************************************************************************)

\* Types, and what every stage takes: only blocking handlers hold a worker, a
\* timer runs only for what it watches.
TypeOK ==
    /\ pool \subseteq Workers
    /\ handshakes \in BOOLEAN
    /\ stage \in [Conns -> Stages]
    /\ at \in [Workers -> Conns \cup {Nobody}]
    /\ ready \subseteq Conns \X Kinds
    /\ armed \subseteq Conns \X {"connTimer", "callTimer"}
    /\ cut \subseteq Conns /\ tunnel \subseteq Conns
    /\ \A w \in Workers : Idle(w) \/ (w \in pool /\ stage[at[w]] \in Blocking)
    /\ \A c \in Conns :
        /\ c \in cut => stage[c] \in {"handshake", "calling"}
        /\ <<c, "callTimer">> \in armed => stage[c] = "calling"
        /\ <<c, "connTimer">> \in armed => stage[c] \in {"handshake", "idle", "writing"}

\* A connection never holds more than one worker, whatever it has outstanding:
\* a process freezes (no worker idle) only if as many of its connections block
\* as it has workers.  So `threads` bounds how many silent peers it bears.
FreeWorker ==
    (\A w \in pool : ~Idle(w)) =>
        Cardinality({c \in Conns : stage[c] \in Blocking}) >= Cardinality(pool)

\* As long as a worker comes free again and again, no connection stays for ever
\* in a stage that a timer watches, however silent its peer is: config.yaml has
\* `timeout` to "automatically close stalled connections".  The end of a call
\* needs a second worker, which runs the timer's handler beside the strand.
Unfrozen == []<>(\E w \in pool : Idle(w))
NothingStalls ==
    Unfrozen =>
        \A c \in Conns :
            /\ []<>(stage[c] \notin {"accepted", "handshake", "calling"})
            /\ []<>(c \in tunnel \/ stage[c] # "idle")
            /\ []<>(c \in tunnel \/ stage[c] # "writing")
================================================================================
