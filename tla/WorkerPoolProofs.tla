--------------------------- MODULE WorkerPoolProofs ---------------------------
(***************************************************************************)
(* Theorems about WorkerPool, for every number of workers and connections. *)
(***************************************************************************)
EXTENDS WorkerPool, FiniteSetTheorems, TLAPS

\* What is in the queue fits the stage: before the first read nothing but the
\* accept handler and the handshake's timer can be there.  So nothing that
\* needs the strand is there while the handshake runs beside it.
Queue ==
    \A c \in Conns :
        /\ <<c, "accept">> \in ready => stage[c] = "accepted"
        /\ stage[c] \in {"none", "accepted", "handshake"} =>
               /\ c \notin tunnel
               /\ \A kind \in Kinds \ {"accept", "connTimer"} : <<c, kind>> \notin ready
        /\ stage[c] \in {"none", "accepted"} => <<c, "connTimer">> \notin ready

\* No two workers are blocked for one connection.
OneWorker == \A v, w \in Workers : at[v] = at[w] => v = w \/ Idle(v)

\* What blocks, blocks a worker.
Held == \A c \in Conns : stage[c] \in Blocking => \E w \in pool : at[w] = c

PoolInv == TypeOK /\ Queue /\ OneWorker /\ Held
-----------------------------------------------------------------------------
LEMMA InitOK == Init => PoolInv
BY PoolAssumption DEF Init, PoolInv, TypeOK, Queue, OneWorker, Held, Idle, Stages, Blocking, Kinds

\* A peer or the clock adds to the queue.
LEMMA PeersOK ==
    ASSUME PoolInv, NEW c \in Conns, Peers(c) PROVE PoolInv'
<1>1. CASE Accept(c)
  BY <1>1 DEF Accept, Queued, PoolInv, TypeOK, Queue, OneWorker, Held, Idle, Stages,
              Blocking, Kinds, config_vars
<1>2. CASE PeerSends(c)
  BY <1>2 DEF PeerSends, Queued, PoolInv, TypeOK, Queue, OneWorker, Held, Idle, Stages,
              Blocking, Kinds, config_vars
<1>3. CASE PollDue(c)
  BY <1>3 DEF PollDue, Queued, PoolInv, TypeOK, Queue, OneWorker, Held, Idle, Stages,
              Blocking, Kinds, config_vars
<1>4. CASE WriteDone(c)
  BY <1>4 DEF WriteDone, Queued, PoolInv, TypeOK, Queue, OneWorker, Held, Idle, Stages,
              Blocking, Kinds, config_vars
<1>5. ASSUME NEW timer \in {"connTimer", "callTimer"}, TimerExpires(c, timer) PROVE PoolInv'
  <2>1. /\ <<c, timer>> \in armed /\ armed' \subseteq armed
        /\ ready' = ready \cup {<<c, timer>>}
        /\ UNCHANGED <<pool, handshakes, stage, at, cut, tunnel>>
    BY <1>5 DEF TimerExpires, Queued, config_vars
  <2>2. TypeOK'
    BY <2>1 DEF PoolInv, TypeOK, Idle, Kinds
  <2>3. /\ timer = "connTimer" => stage[c] \notin {"none", "accepted"}
        /\ timer = "callTimer" => stage[c] \notin {"none", "accepted", "handshake"}
    BY <2>1 DEF PoolInv, TypeOK
  <2>4. Queue'
    <3> SUFFICES ASSUME NEW d \in Conns PROVE
            /\ <<d, "accept">> \in ready' => stage[d] = "accepted"
            /\ stage[d] \in {"none", "accepted", "handshake"} =>
                   /\ d \notin tunnel
                   /\ \A kind \in Kinds \ {"accept", "connTimer"} : <<d, kind>> \notin ready'
            /\ stage[d] \in {"none", "accepted"} => <<d, "connTimer">> \notin ready'
      BY <2>1, Zenon DEF Queue
    <3>1. \A kind : <<d, kind>> \in ready' => <<d, kind>> \in ready \/ (d = c /\ kind = timer)
      BY <2>1
    <3> QED BY <2>3, <3>1 DEF PoolInv, Queue
  <2>5. OneWorker' /\ Held'
    BY <2>1 DEF PoolInv, OneWorker, Held, Idle
  <2> QED BY <2>2, <2>4, <2>5 DEF PoolInv
<1> QED BY <1>1, <1>2, <1>3, <1>4, <1>5 DEF Peers

\* No worker is blocked for c, or the one that was is free again.
Unblocked(c) ==
    \/ UNCHANGED at /\ \A w \in Workers : at[w] # c
    \/ \E w \in Workers : at[w] = c /\ Frees(w)

LEMMA UnblockedOK ==
    ASSUME PoolInv, NEW c \in Conns, Unblocked(c)
    PROVE  /\ at' \in [Workers -> Conns \cup {Nobody}]
           /\ OneWorker'
           /\ \A w \in Workers : at'[w] # c /\ (at'[w] = at[w] \/ at'[w] = Nobody)
           /\ \A w \in Workers : at[w] # c => at'[w] = at[w]
<1>1. at \in [Workers -> Conns \cup {Nobody}] /\ c # Nobody
  BY PoolAssumption DEF PoolInv, TypeOK
<1>2. CASE UNCHANGED at /\ \A w \in Workers : at[w] # c
  BY <1>1, <1>2 DEF PoolInv, OneWorker, Idle
<1>3. ASSUME NEW w \in Workers, at[w] = c, Frees(w)
      PROVE  /\ at' \in [Workers -> Conns \cup {Nobody}]
             /\ OneWorker'
             /\ \A v \in Workers : at'[v] # c /\ (at'[v] = at[v] \/ at'[v] = Nobody)
             /\ \A v \in Workers : at[v] # c => at'[v] = at[v]
  BY <1>1, <1>3 DEF PoolInv, OneWorker, Idle, Frees
<1> QED BY <1>2, <1>3 DEF Unblocked

LEMMA StillHeld ==
    ASSUME PoolInv, NEW c \in Conns, Unblocked(c), UNCHANGED pool,
           NEW s \in Stages \ Blocking, stage' = [stage EXCEPT ![c] = s]
    PROVE  Held'
<1> SUFFICES ASSUME NEW d \in Conns, stage'[d] \in Blocking PROVE \E w \in pool : at'[w] = d
  BY DEF Held
<1>1. d # c /\ stage[d] \in Blocking
  BY DEF PoolInv, TypeOK
<1>2. PICK w \in pool : at[w] = d
  BY <1>1 DEF PoolInv, Held
<1>3. at'[w] = d
  BY <1>1, <1>2, UnblockedOK DEF PoolInv, TypeOK
<1> QED BY <1>3

LEMMA ClosesOK ==
    ASSUME PoolInv, NEW c \in Conns, Closes(c), Unblocked(c), UNCHANGED config_vars
    PROVE  PoolInv'
<1>1. TypeOK'
  BY UnblockedOK DEF Closes, Of, PoolInv, TypeOK, Idle, Stages, Blocking, Kinds, config_vars
<1>2. Queue'
  BY DEF Closes, Of, PoolInv, TypeOK, Queue, Stages, Blocking, Kinds
<1>3. Held'
  BY StillHeld DEF Closes, Stages, Blocking, config_vars
<1> QED BY <1>1, <1>2, <1>3, UnblockedOK DEF PoolInv

\* A connection that is past its handshake goes on.
Past(c) == stage[c] \notin {"none", "accepted"} /\ <<c, "accept">> \notin ready

LEMMA NextReadOK ==
    ASSUME PoolInv, NEW c \in Conns, NextRead(c), Unblocked(c), UNCHANGED config_vars,
           ready' \subseteq ready, <<c, "accept">> \notin ready',
           cut' \in {cut, cut \ {c}}, c \notin cut'
    PROVE  PoolInv'
<1>1. TypeOK'
  BY UnblockedOK DEF NextRead, Of, PoolInv, TypeOK, Idle, Stages, Blocking, Kinds, config_vars
<1>2. Queue'
  BY DEF NextRead, PoolInv, TypeOK, Queue, Stages, Blocking, Kinds
<1>3. Held'
  BY StillHeld DEF NextRead, Stages, Blocking, config_vars
<1> QED BY <1>1, <1>2, <1>3, UnblockedOK DEF PoolInv

LEMMA ContinuesOK ==
    ASSUME PoolInv, NEW c \in Conns, NEW queue \in SUBSET ready,
           Continues(c, queue), Unblocked(c), UNCHANGED config_vars,
           <<c, "accept">> \notin ready
    PROVE  PoolInv'
<1>1. CASE Closes(c)
  BY <1>1, ClosesOK
<1>2. CASE c \in tunnel /\ NextRead(c) /\ ready' = queue /\ cut' = cut \ {c}
  BY <1>2, NextReadOK
<1>3. CASE /\ c \notin tunnel
           /\ tunnel' \in {tunnel, tunnel \cup {c}}
           /\ stage' = [stage EXCEPT ![c] = "writing"]
           /\ armed' = (armed \ Of(c)) \cup {<<c, "connTimer">>}
           /\ ready' = queue /\ cut' = cut \ {c}
  <2>1. TypeOK'
    BY <1>3, UnblockedOK DEF Of, PoolInv, TypeOK, Idle, Stages, Blocking, Kinds, config_vars
  <2>2. Queue'
    BY <1>3 DEF PoolInv, TypeOK, Queue, Stages, Blocking, Kinds
  <2>3. Held'
    BY <1>3, StillHeld DEF Stages, Blocking, config_vars
  <2> QED BY <2>1, <2>2, <2>3, UnblockedOK DEF PoolInv
<1> QED BY <1>1, <1>2, <1>3, Zenon DEF Continues

\* A worker that was idle, or was blocked for c already, is blocked for c.
LEMMA BlocksOK ==
    ASSUME PoolInv, NEW c \in Conns, NEW w \in pool, NEW s \in Blocking, Blocks(w, c, s),
           Idle(w) \/ at[w] = c, \A v \in Workers : v # w => at[v] # c
    PROVE  /\ at' \in [Workers -> Conns \cup {Nobody}]
           /\ stage' \in [Conns -> Stages]
           /\ OneWorker'
           /\ \A v \in Workers : (at'[v] # Nobody /\ v # w => at'[v] = at[v] /\ at[v] # c)
           /\ at'[w] = c /\ stage'[c] = s /\ \A d \in Conns \ {c} : stage'[d] = stage[d]
           /\ UNCHANGED pool => Held'
<1>1. /\ at' \in [Workers -> Conns \cup {Nobody}]
      /\ stage' \in [Conns -> Stages]
      /\ OneWorker'
      /\ \A v \in Workers : (at'[v] # Nobody /\ v # w => at'[v] = at[v] /\ at[v] # c)
      /\ at'[w] = c /\ stage'[c] = s /\ \A d \in Conns \ {c} : stage'[d] = stage[d]
  BY PoolAssumption DEF Blocks, PoolInv, TypeOK, OneWorker, Idle, Stages, Blocking
<1>2. ASSUME UNCHANGED pool, NEW d \in Conns, stage'[d] \in Blocking
      PROVE  \E v \in pool : at'[v] = d
  <2>1. CASE d = c
    BY <1>1, <2>1
  <2>2. CASE d # c
    <3>1. PICK v \in pool : at[v] = d
      BY <1>1, <1>2, <2>2 DEF PoolInv, Held
    <3>2. v # w /\ at'[v] = d
      BY <2>2, <3>1, PoolAssumption DEF Blocks, Idle, PoolInv, TypeOK
    <3> QED BY <3>2
  <2> QED BY <2>1, <2>2
<1> QED BY <1>1, <1>2 DEF Held

LEMMA CallsOK ==
    ASSUME PoolInv, NEW c \in Conns, NEW w \in pool, Calls(w, c), UNCHANGED config_vars,
           Idle(w) \/ at[w] = c, \A v \in Workers : v # w => at[v] # c,
           ready' \subseteq ready, Past(c)
    PROVE  PoolInv'
<1>1. Blocks(w, c, "calling") /\ "calling" \in Blocking
  BY DEF Calls, Blocking
<1>2. TypeOK'
  BY <1>1, BlocksOK DEF Calls, Of, PoolInv, TypeOK, Idle, Blocking, Kinds, config_vars
<1>3. Queue'
  <2>1. stage'[c] = "calling" /\ \A d \in Conns \ {c} : stage'[d] = stage[d]
    BY <1>1, BlocksOK
  <2> QED BY <2>1 DEF Calls, Past, PoolInv, TypeOK, Queue
<1> QED BY <1>1, <1>2, <1>3, BlocksOK DEF PoolInv, config_vars

-----------------------------------------------------------------------------
\* The strand: no worker is blocked for the connection of a handler it is given,
\* unless the handler is bound to no strand.
LEMMA StrandHolds ==
    ASSUME PoolInv, NEW c \in Conns, NEW w \in pool, NEW kind \in Kinds,
           Takes(w, c, kind), kind \notin {"connTimer", "callTimer"}
    PROVE  /\ \A v \in Workers : at[v] # c
           /\ stage[c] \notin Blocking /\ (kind # "accept" => Past(c))
<1>1. kind = "accept" => stage[c] = "accepted"
  BY DEF Takes, PoolInv, Queue
<1>2. kind # "accept" => stage[c] \notin {"none", "accepted", "handshake"}
  BY DEF Takes, PoolInv, Queue
<1>3. \A v \in Workers : at[v] = c => v \in pool /\ stage[c] \in Blocking
  BY PoolAssumption DEF PoolInv, TypeOK, Idle
<1>4. kind = "accept" => \A v \in Workers : at[v] # c
  BY <1>1, <1>3 DEF Blocking
<1>5. kind # "accept" => \A v \in Workers : at[v] # c
  BY <1>2, <1>3 DEF Takes, StrandFree
<1>6. kind # "accept" => <<c, "accept">> \notin ready
  BY <1>2 DEF PoolInv, Queue
<1>7. stage[c] \notin Blocking
  BY <1>4, <1>5 DEF PoolInv, TypeOK, Held
<1> QED BY <1>1, <1>2, <1>4, <1>5, <1>6, <1>7 DEF Past

LEMMA RunAcceptOK ==
    ASSUME PoolInv, NEW c \in Conns, NEW w \in pool, RunAccept(w, c) PROVE PoolInv'
<1>1. stage[c] = "accepted" /\ \A v \in Workers : at[v] # c
  BY StrandHolds DEF RunAccept, Takes, PoolInv, Queue, Kinds
<1>2. c \notin cut
  BY <1>1 DEF PoolInv, TypeOK
<1>3. \A kind \in Kinds : <<c, kind>> \notin ready'
  BY <1>1 DEF RunAccept, Done, PoolInv, Queue, Kinds
<1>4. CASE ~handshakes
  <2>1. NextRead(c) /\ UNCHANGED <<at, config_vars, cut>> /\ ready' \subseteq ready
    BY <1>4 DEF RunAccept, Done
  <2> QED BY <1>1, <1>2, <1>3, <2>1, NextReadOK DEF Unblocked, Kinds
<1>5. CASE handshakes
  <2>1. Blocks(w, c, "handshake") /\ Idle(w) /\ "handshake" \in Blocking
    BY <1>5 DEF RunAccept, Takes, Blocking
  <2>2. /\ at' \in [Workers -> Conns \cup {Nobody}] /\ stage' \in [Conns -> Stages]
        /\ OneWorker'
        /\ \A v \in Workers : (at'[v] # Nobody /\ v # w => at'[v] = at[v] /\ at[v] # c)
        /\ Held' /\ at'[w] = c /\ stage'[c] = "handshake"
        /\ \A d \in Conns \ {c} : stage'[d] = stage[d]
    BY <1>1, <2>1, BlocksOK DEF RunAccept, config_vars
  <2>3. /\ armed' = armed \cup {<<c, "connTimer">>}
        /\ UNCHANGED <<config_vars, cut, tunnel>> /\ ready' \subseteq ready
    BY <1>5 DEF RunAccept, Done
  <2>4. TypeOK'
    BY <1>1, <1>2, <2>2, <2>3 DEF PoolInv, TypeOK, Idle, Blocking, config_vars
  <2>5. Queue'
    BY <1>1, <1>3, <2>2, <2>3 DEF PoolInv, Queue, Kinds
  <2> QED BY <2>2, <2>4, <2>5 DEF PoolInv
<1> QED BY <1>4, <1>5

LEMMA RunDataOK ==
    ASSUME PoolInv, NEW c \in Conns, NEW w \in pool, RunData(w, c) PROVE PoolInv'
<1>1. /\ Past(c) /\ (\A v \in Workers : at[v] # c) /\ Idle(w)
      /\ stage[c] \notin Blocking
  BY StrandHolds DEF RunData, Takes, Kinds
<1>2. CASE Continues(c, ready \ {<<c, "data">>}) /\ UNCHANGED at
  BY <1>1, <1>2, ContinuesOK DEF RunData, Unblocked, Past
<1>3. CASE Calls(w, c) /\ Done(c, "data")
  BY <1>1, <1>3, CallsOK DEF RunData, Done
<1>4. CASE /\ c \notin tunnel /\ Blocks(w, c, "reading") /\ Done(c, "data")
           /\ armed' = armed \ Of(c) /\ UNCHANGED <<cut, tunnel>>
  <2>1. "reading" \in Blocking /\ UNCHANGED config_vars
    BY DEF Blocking, RunData
  <2>2. /\ at' \in [Workers -> Conns \cup {Nobody}] /\ stage' \in [Conns -> Stages]
        /\ OneWorker'
        /\ \A v \in Workers : (at'[v] # Nobody /\ v # w => at'[v] = at[v] /\ at[v] # c)
        /\ Held' /\ at'[w] = c /\ stage'[c] = "reading"
        /\ \A d \in Conns \ {c} : stage'[d] = stage[d]
    BY <1>1, <1>4, <2>1, BlocksOK DEF config_vars
  <2>3. c \notin cut /\ ready' \subseteq ready
    BY <1>1, <1>4 DEF PoolInv, TypeOK, Blocking, Done
  <2>4. TypeOK'
    BY <1>4, <2>1, <2>2, <2>3 DEF PoolInv, TypeOK, Of, Idle, Blocking, Kinds, config_vars
  <2>5. Queue'
    BY <1>1, <1>4, <2>2, <2>3 DEF PoolInv, Queue, Past
  <2> QED BY <2>2, <2>4, <2>5 DEF PoolInv
<1> QED BY <1>2, <1>3, <1>4, Zenon DEF RunData

LEMMA RunPollOK ==
    ASSUME PoolInv, NEW c \in Conns, NEW w \in pool, RunPoll(w, c) PROVE PoolInv'
<1>1. Past(c) /\ (\A v \in Workers : at[v] # c) /\ Idle(w)
  BY StrandHolds DEF RunPoll, Takes, Kinds
<1> QED BY <1>1, CallsOK DEF RunPoll, Done

LEMMA RunWrittenOK ==
    ASSUME PoolInv, NEW c \in Conns, NEW w \in pool, RunWritten(w, c) PROVE PoolInv'
<1>1. /\ Past(c) /\ (\A v \in Workers : at[v] # c)
      /\ stage[c] \notin Blocking
  BY StrandHolds DEF RunWritten, Takes, Kinds
<1>2. c \notin cut
  BY <1>1 DEF PoolInv, TypeOK, Blocking
<1>3. Unblocked(c) /\ UNCHANGED config_vars
  BY <1>1 DEF RunWritten, Unblocked
<1>4. CASE Closes(c)
  BY <1>3, <1>4, ClosesOK
<1>5. CASE NextRead(c) /\ Done(c, "written") /\ UNCHANGED cut
  BY <1>1, <1>2, <1>3, <1>5, NextReadOK DEF Done, Past
<1> QED BY <1>4, <1>5 DEF RunWritten

LEMMA RunConnTimerOK ==
    ASSUME PoolInv, NEW c \in Conns, NEW w \in pool, RunConnTimer(w, c) PROVE PoolInv'
<1>1. UNCHANGED <<config_vars, at>>
  BY DEF RunConnTimer
<1>2. CASE /\ stage[c] = "handshake" /\ cut' = cut \cup {c}
           /\ Done(c, "connTimer") /\ UNCHANGED <<stage, armed, tunnel>>
  BY <1>1, <1>2 DEF Done, PoolInv, TypeOK, Queue, OneWorker, Held, Idle, config_vars
<1>3. CASE stage[c] # "handshake" /\ Closes(c)
  <2>1. \A v \in Workers : at[v] = c => v \in pool
    BY PoolAssumption DEF PoolInv, TypeOK, Idle
  <2>2. Unblocked(c)
    BY <1>1, <1>3, <2>1 DEF RunConnTimer, Takes, StrandFree, Unblocked
  <2> QED BY <1>1, <1>3, <2>2, ClosesOK
<1>4. CASE /\ c \in tunnel /\ Done(c, "connTimer")
           /\ UNCHANGED <<stage, armed, cut, tunnel>>
  BY <1>1, <1>4 DEF Done, PoolInv, TypeOK, Queue, OneWorker, Held, Idle, config_vars
<1> QED BY <1>2, <1>3, <1>4 DEF RunConnTimer

LEMMA RunCallTimerOK ==
    ASSUME PoolInv, NEW c \in Conns, NEW w \in pool, RunCallTimer(w, c) PROVE PoolInv'
BY DEF RunCallTimer, CallTimer, Done, PoolInv, TypeOK, Queue, OneWorker, Held, Idle, config_vars

-----------------------------------------------------------------------------
\* The end of what a worker is blocked in frees the worker, or blocks it again.
LEMMA EndsOK ==
    ASSUME PoolInv, NEW c \in Conns, NEW w \in pool, Ends(w, c) PROVE PoolInv'
<1>1. at[w] = c /\ stage[c] \in Blocking /\ UNCHANGED config_vars /\ c # Nobody /\ w \in Workers
  BY PoolAssumption DEF Ends, HandshakeEnds, ReadingEnds, CallEnds, Blocking, PoolInv, TypeOK
<1>2. Frees(w) => Unblocked(c)
  BY <1>1 DEF Unblocked
<1>3. <<c, "accept">> \notin ready /\ stage[c] \notin {"none", "accepted"}
  BY <1>1 DEF PoolInv, Queue, Blocking
<1>4. \A v \in Workers : v # w => at[v] # c
  BY <1>1 DEF PoolInv, OneWorker, Idle
<1>5. CASE HandshakeEnds(w, c)
  <2>1. CASE Closes(c)
    BY <1>1, <1>2, <1>5, <2>1, ClosesOK DEF HandshakeEnds
  <2>2. CASE c \notin cut /\ NextRead(c) /\ UNCHANGED <<ready, cut>>
    BY <1>1, <1>2, <1>3, <1>5, <2>2, NextReadOK DEF HandshakeEnds
  <2> QED BY <1>5, <2>1, <2>2 DEF HandshakeEnds
<1>6. CASE ReadingEnds(w, c)
  <2>1. CASE Frees(w) /\ Continues(c, ready)
    BY <1>1, <1>2, <1>3, <2>1, ContinuesOK
  <2>2. CASE Calls(w, c) /\ UNCHANGED ready
    BY <1>1, <1>3, <1>4, <2>2, CallsOK DEF Past
  <2> QED BY <1>6, <2>1, <2>2 DEF ReadingEnds
<1>7. CASE CallEnds(w, c)
  BY <1>1, <1>2, <1>3, <1>7, ContinuesOK DEF CallEnds
<1> QED BY <1>5, <1>6, <1>7 DEF Ends

LEMMA NextOK == PoolInv /\ [Next]_vars => PoolInv'
<1> SUFFICES ASSUME PoolInv, [Next]_vars PROVE PoolInv'
  OBVIOUS
<1>1. CASE UNCHANGED vars
  BY <1>1 DEF vars, PoolInv, TypeOK, Queue, OneWorker, Held, Idle
<1>2. ASSUME NEW c \in Conns, Peers(c) PROVE PoolInv'
  BY <1>2, PeersOK
<1>3. ASSUME NEW c \in Conns, NEW w \in pool, Runs(w, c) PROVE PoolInv'
  BY <1>3, RunAcceptOK, RunDataOK, RunPollOK, RunWrittenOK, RunConnTimerOK, RunCallTimerOK
     DEF Runs
<1>4. ASSUME NEW c \in Conns, NEW w \in pool, Ends(w, c) PROVE PoolInv'
  BY <1>4, EndsOK
<1> QED BY <1>1, <1>2, <1>3, <1>4 DEF Next

\* The invariant of the worker pool: handlers are queued for connections that can
\* have them, and a connection's strand (or its accept handler) never holds two
\* workers (Runner::run, TCPConnection's strand_).
THEOREM PoolInvariant == Spec => []PoolInv
BY InitOK, NextOK, PTL DEF Spec
-----------------------------------------------------------------------------
\* Every variable has its type, a blocked worker serves a connection whose stage
\* blocks, and a timer runs only over the stage it watches (TCPConnection's and
\* TCPClient's resetTimeout and cancelTimeout).
THEOREM TypeCorrect == Spec => []TypeOK
BY PoolInvariant, PTL DEF PoolInv

\* Busy workers work for different connections, so there are not more of them.
LEMMA Pigeons == PoolInv => FreeWorker
<1> SUFFICES ASSUME PoolInv, \A w \in pool : ~Idle(w)
             PROVE  Cardinality({c \in Conns : stage[c] \in Blocking}) >= Cardinality(pool)
  BY DEF FreeWorker
<1> DEFINE Busy == {c \in Conns : stage[c] \in Blocking}
           f == [w \in pool |-> at[w]]
<1>1. IsFiniteSet(pool) /\ IsFiniteSet(Busy)
  BY PoolAssumption, FS_Subset DEF PoolInv, TypeOK
<1>2. f \in [pool -> Busy]
  BY DEF PoolInv, TypeOK, Idle
<1>3. \A v, w \in pool : f[v] = f[w] => v = w
  BY DEF PoolInv, TypeOK, OneWorker
<1>4. ~(Cardinality(Busy) < Cardinality(pool))
  <2> HIDE DEF Busy, f
  <2> QED BY <1>1, <1>2, <1>3, FS_PigeonHole
<1>5. Cardinality(Busy) \in Nat /\ Cardinality(pool) \in Nat
  BY <1>1, FS_CardinalityType
<1> QED BY <1>4, <1>5

\* With more workers (config.threads) than connections in blocking calls there
\* is a worker for every other handler, that of a timer among them.
THEOREM SomeWorkerFree == Spec => []FreeWorker
BY PoolInvariant, Pigeons, PTL
===============================================================================
