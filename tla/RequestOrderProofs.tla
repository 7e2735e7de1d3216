-------------------------- MODULE RequestOrderProofs --------------------------
(***************************************************************************)
(* What hosts get of a client's requests, which host gets them, and what    *)
(* the client gets of the answers (RequestsIntact, FirstHost and            *)
(* AnswersInOrder of ClientRequests), for every set of handshakes and       *)
(* requests and every bound.                                                *)
(***************************************************************************)
EXTENDS ClientRequestsProofs

UnderWay == {"reading", "handling", "asking"}
Holding == UnderWay \cup {"waiting", "writing"}

\* No chunk under way was passed on before, not even in part.
OrderInv ==
    /\ toHosts \in Seq(Nat)
    /\ \A j, k \in DOMAIN toHosts : j < k => toHosts[j] < toHosts[k]
    /\ \A k \in DOMAIN toHosts : toHosts[k] <= seen
    /\ pc \in UnderWay \/ spc \in {"asked", "dialled"} =>
           \A k \in DOMAIN toHosts : toHosts[k] < chunk.from
    /\ pc \in Holding \/ spc \in Serving => chunk.from <= chunk.to /\ chunk.to = seen

-----------------------------------------------------------------------------
(* What a host gets.                                                       *)
LEMMA PartsAre ==
    ASSUME chunk \in [from : Nat, to : Nat], chunk.from <= chunk.to
    PROVE  /\ Parts \in Seq(Nat) /\ Len(Parts) = chunk.to - chunk.from + 1
           /\ \A i \in 1..Len(Parts) : Parts[i] = chunk.from + i - 1
<1>1. Parts \in Seq(Nat) /\ Len(Parts) = chunk.to - chunk.from + 1
  <2> DEFINE n == chunk.to - chunk.from + 1
  <2>1. n \in Nat
    OBVIOUS
  <2>2. \A i \in 1..n : chunk.from + i - 1 \in Nat
    OBVIOUS
  <2>3. Parts \in [1..n -> Nat]
    BY <2>2 DEF Parts
  <2> HIDE DEF n
  <2>4. Parts \in Seq(Nat) /\ Len(Parts) = n
    BY <2>1, <2>3
  <2> QED BY <2>4 DEF n
<1>2. \A i \in 1..(chunk.to - chunk.from + 1) : Parts[i] = chunk.from + i - 1
  BY DEF Parts
<1> QED BY <1>1, <1>2

LEMMA Concatenated ==
    ASSUME NEW s \in Seq(Nat), NEW t \in Seq(Nat)
    PROVE  s \o t \in Seq(Nat) /\ Len(s \o t) = Len(s) + Len(t)
OBVIOUS

\* toHosts behind the write of a chunk: old parts in front, the chunk's behind.
LEMMA PassedOn ==
    ASSUME chunk \in [from : Nat, to : Nat], chunk.from <= chunk.to, toHosts \in Seq(Nat),
           toHosts' = toHosts \o Parts
    PROVE  /\ toHosts' \in Seq(Nat)
           /\ Len(toHosts') = Len(toHosts) + (chunk.to - chunk.from + 1)
           /\ \A k \in DOMAIN toHosts' :
                  \/ k \in DOMAIN toHosts /\ toHosts'[k] = toHosts[k]
                  \/ /\ k > Len(toHosts) /\ k <= Len(toHosts')
                     /\ toHosts'[k] = chunk.from + (k - Len(toHosts)) - 1
<1> DEFINE p == Parts
<1>1. /\ p \in Seq(Nat) /\ Len(p) = chunk.to - chunk.from + 1
      /\ \A i \in 1..Len(p) : p[i] = chunk.from + i - 1
  BY PartsAre
<1> HIDE DEF p
<1>2. toHosts' = toHosts \o p
  BY DEF p
<1>3. toHosts' \in Seq(Nat) /\ Len(toHosts') = Len(toHosts) + Len(p)
  <2>1. toHosts \o p \in Seq(Nat) /\ Len(toHosts \o p) = Len(toHosts) + Len(p)
    BY <1>1, Concatenated
  <2> QED BY <1>2, <2>1
<1>4. ASSUME NEW k \in DOMAIN toHosts'
      PROVE  \/ k \in DOMAIN toHosts /\ toHosts'[k] = toHosts[k]
             \/ /\ k > Len(toHosts) /\ k <= Len(toHosts')
                /\ toHosts'[k] = chunk.from + (k - Len(toHosts)) - 1
  <2>1. k \in 1..Len(toHosts') /\ Len(toHosts) \in Nat
    BY <1>3
  <2>2. CASE k <= Len(toHosts)
    BY <1>1, <1>2, <2>1, <2>2
  <2>3. CASE k > Len(toHosts)
    <3>1. toHosts'[k] = p[k - Len(toHosts)] /\ k - Len(toHosts) \in 1..Len(p)
      BY <1>1, <1>2, <1>3, <2>1, <2>3
    <3> QED BY <1>1, <2>1, <2>3, <3>1
  <2> QED BY <2>1, <2>2, <2>3
<1> QED BY <1>1, <1>3, <1>4

-----------------------------------------------------------------------------
(* Order.                                                                  *)
LEMMA OrderInitOK == Init => OrderInv
BY DEF Init, OrderInv, UnderWay, Holding, Serving

LEMMA ClientOrder == ASSUME OrderInv, Client PROVE OrderInv'
<1>1. UNCHANGED <<toHosts, seen, pc, spc, chunk>>
  BY DEF Client, agent_vars, host_vars
<1> QED BY <1>1 DEF OrderInv

LEMMA AgentReadsOrder ==
    ASSUME ControlInv, TargetInv, OrderInv, AgentReads PROVE OrderInv'
<1>1. UNCHANGED <<toHosts, spc>> /\ seen \in Nat /\ sent \in Nat
  BY DEF AgentReads, host_vars, ControlInv, AgentInv
<1>2. spc \in Serving => pc \in {"waiting", "closed"}
  BY DEF ControlInv, AgentInv
<1>3. CASE FirstRead
  <2> PICK to \in (seen + 1)..sent :
          /\ chunk' = [from |-> seen + 1, to |-> to] /\ seen' = to
          /\ pc' \in {"handling", "reading"} /\ pc = "idle"
    BY <1>3 DEF FirstRead, Holds, Goto
  <2>1. \A k \in DOMAIN toHosts : toHosts[k] < chunk'.from /\ toHosts[k] <= seen'
    <3> SUFFICES ASSUME NEW k \in DOMAIN toHosts
                 PROVE  toHosts[k] < chunk'.from /\ toHosts[k] <= seen'
      OBVIOUS
    <3>1. toHosts[k] \in Nat /\ toHosts[k] <= seen
      BY DEF OrderInv
    <3> QED BY <1>1, <3>1
  <2>2. chunk'.from <= chunk'.to /\ chunk'.to = seen'
    BY <1>1
  <2>3. toHosts \in Seq(Nat) /\ \A j, k \in DOMAIN toHosts : j < k => toHosts[j] < toHosts[k]
    BY DEF OrderInv
  <2> QED BY <1>1, <2>1, <2>2, <2>3 DEF OrderInv
<1>4. CASE ReadsRest
  <2> PICK to \in (seen + 1)..sent :
          /\ chunk' = [from |-> chunk.from, to |-> to] /\ seen' = to
          /\ pc' \in {"handling", "reading"} /\ pc = "reading"
    BY <1>4 DEF ReadsRest, Holds, Goto
  <2>1. \A k \in DOMAIN toHosts : toHosts[k] < chunk.from /\ toHosts[k] <= seen'
    <3> SUFFICES ASSUME NEW k \in DOMAIN toHosts
                 PROVE  toHosts[k] < chunk.from /\ toHosts[k] <= seen'
      OBVIOUS
    <3>1. toHosts[k] \in Nat /\ toHosts[k] <= seen /\ toHosts[k] < chunk.from
      BY DEF OrderInv, UnderWay
    <3> QED BY <1>1, <3>1
  <2>2. chunk'.from = chunk.from /\ chunk'.to = seen' /\ chunk.from <= seen
        /\ chunk.from \in Nat
    BY DEF OrderInv, Holding, UnderWay, ControlInv, AgentInv
  <2>3. toHosts \in Seq(Nat) /\ \A j, k \in DOMAIN toHosts : j < k => toHosts[j] < toHosts[k]
    BY DEF OrderInv
  <2>4. chunk'.from <= chunk'.to
    BY <1>1, <2>2
  <2> QED BY <1>1, <2>1, <2>2, <2>3, <2>4 DEF OrderInv
<1>5. CASE HandshakeReads /\ field' = "done"
  <2>1. /\ chunk' = [from |-> 1, to |-> 2] /\ seen' = 2
        /\ pc = "handshake" /\ pc' = "handling"
    BY <1>5 DEF HandshakeReads, Goto
  <2>2. toHosts = <<>>
    <3>1. config.protocol \in {"http", "socks5"}
      BY DEF ControlInv, AgentInv, Configs
    <3> QED BY <2>1, <3>1 DEF TargetInv
  <2> QED BY <1>1, <2>1, <2>2 DEF OrderInv
<1>6. CASE ReadsEnd \/ FirstBytes \/ (HandshakeReads /\ field' # "done") \/ HandshakeRejects
           \/ HandshakeCut \/ IdleEnds
  <2>1. /\ UNCHANGED <<seen, chunk>>
        /\ \/ pc' \in {"closed", "handshake"}
           \/ pc = "reading" /\ pc' = "handling"
           \/ pc' = pc
    BY <1>6 DEF ReadsEnd, FirstBytes, HandshakeReads, HandshakeRejects, HandshakeCut, IdleEnds,
                Close, Goto
  <2> QED BY <1>1, <2>1 DEF OrderInv, UnderWay, Holding
<1> QED BY <1>3, <1>4, <1>5, <1>6 DEF AgentReads

LEMMA PassOnOrder == ASSUME ControlInv, OrderInv, PassOn, seen' = seen, pc' = pc, chunk' = chunk
                     PROVE  OrderInv'
<1>1. /\ spc = "dialled" /\ spc' = "waiting"
      /\ toHosts' = toHosts \/ toHosts' = toHosts \o Parts
  BY DEF PassOn
<1>2. /\ chunk \in [from : Nat, to : Nat] /\ chunk.from <= chunk.to /\ chunk.to = seen
      /\ toHosts \in Seq(Nat) /\ pc \notin UnderWay
  BY <1>1 DEF OrderInv, ControlInv, AgentInv, Serving, UnderWay
<1>3. CASE toHosts' = toHosts
  BY <1>1, <1>2, <1>3 DEF OrderInv, Serving, Holding
<1>4. CASE toHosts' = toHosts \o Parts
  <2> DEFINE n == Len(toHosts)
  <2>1. toHosts' \in Seq(Nat) /\ DOMAIN toHosts' = 1..Len(toHosts') /\ n \in Nat
        /\ DOMAIN toHosts = 1..n /\ Len(toHosts') = n + (chunk.to - chunk.from + 1)
    BY <1>2, <1>4, PassedOn
  <2>2. ASSUME NEW j \in DOMAIN toHosts', NEW k \in DOMAIN toHosts', j < k
        PROVE  toHosts'[j] < toHosts'[k]
    <3>1. \/ j \in DOMAIN toHosts /\ toHosts'[j] = toHosts[j]
          \/ j > n /\ j <= Len(toHosts') /\ toHosts'[j] = chunk.from + (j - n) - 1
      BY <1>2, <1>4, PassedOn
    <3>2. \/ k \in DOMAIN toHosts /\ toHosts'[k] = toHosts[k]
          \/ k > n /\ k <= Len(toHosts') /\ toHosts'[k] = chunk.from + (k - n) - 1
      BY <1>2, <1>4, PassedOn
    <3>3. CASE k \in DOMAIN toHosts
      <4>1. j \in DOMAIN toHosts
        BY <2>1, <2>2, <3>3
      <4>2. toHosts[j] < toHosts[k]
        BY <2>2, <3>3, <4>1 DEF OrderInv
      <4> QED BY <2>1, <3>1, <3>2, <3>3, <4>1, <4>2
    <3>4. CASE k \notin DOMAIN toHosts
      <4>1. k > n /\ toHosts'[k] = chunk.from + (k - n) - 1
        BY <3>2, <3>4
      <4>2. toHosts'[k] >= chunk.from
        BY <1>2, <2>1, <4>1
      <4>3. CASE j \in DOMAIN toHosts
        <5>1. toHosts'[j] = toHosts[j]
          BY <2>1, <3>1, <4>3
        <5>2. toHosts[j] < chunk.from /\ toHosts[j] \in Nat
          BY <1>1, <1>2, <4>3 DEF OrderInv
        <5>3. toHosts'[k] \in Nat
          BY <2>1
        <5> QED BY <1>2, <4>2, <5>1, <5>2, <5>3
      <4>4. CASE j \notin DOMAIN toHosts
        BY <1>2, <2>1, <2>2, <3>1, <4>1, <4>4
      <4> QED BY <4>3, <4>4
    <3> QED BY <3>3, <3>4
  <2>3. ASSUME NEW k \in DOMAIN toHosts' PROVE toHosts'[k] <= seen'
    <3>1. \/ k \in DOMAIN toHosts /\ toHosts'[k] = toHosts[k] /\ toHosts[k] <= seen
          \/ k > n /\ k <= Len(toHosts') /\ toHosts'[k] = chunk.from + (k - n) - 1
      BY <1>2, <1>4, PassedOn DEF OrderInv
    <3> QED BY <1>2, <2>1, <3>1
  <2> QED BY <1>1, <1>2, <2>1, <2>2, <2>3 DEF OrderInv
<1> QED BY <1>1, <1>3, <1>4

LEMMA OrderNextOK == ASSUME ControlInv, TargetInv, OrderInv, Next PROVE OrderInv'
<1>1. spc \in Serving => pc \in {"waiting", "closed"}
  BY DEF ControlInv, AgentInv
<1>2. CASE AgentAsks
  <2>1. UNCHANGED <<toHosts, seen, chunk>>
    BY <1>2 DEF AgentAsks, Unparsable, DialServer, Ask, RequestFails, KeepHistory, host_vars
  <2>2. /\ pc \in UnderWay \cup {"waiting"} /\ pc' \in {"asking", "waiting", "closed"}
        /\ pc' = "asking" => pc \in UnderWay
        /\ \/ spc' = spc
           \/ spc' = "idle"
           \/ spc' = "asked" /\ pc \in UnderWay
    BY <1>2 DEF AgentAsks, Unparsable, DialServer, Ask, RequestFails, Close, Goto, host_vars,
                UnderWay
  <2> QED BY <2>1, <2>2 DEF OrderInv, UnderWay, Holding, Serving
<1>3. CASE AgentWrites
  <2>1. UNCHANGED <<toHosts, seen, chunk, spc>> /\ pc' \in {"tunnel", "idle", "closed"}
    BY <1>3 DEF AgentWrites, WriteDone, WriteFails, Close, Goto, host_vars
  <2> QED BY <2>1 DEF OrderInv, UnderWay, Holding
<1>4. CASE Server
  <2>1. UNCHANGED <<seen, chunk, pc>>
    BY <1>4 DEF Server, agent_vars
  <2>2. CASE PassOn
    BY <2>1, <2>2, PassOnOrder
  <2>3. CASE ~PassOn
    <3>1. /\ toHosts' = toHosts /\ spc \in Serving /\ spc' \in Serving
          /\ spc' \in {"asked", "dialled"} => spc = "asked"
      BY <1>4, <2>3 DEF Server, DialHost, DialFails, DialedBefore, ReadAnswer, AnswerMissing,
                        Replies, KeepHistory, host_vars, Serving
    <3> QED BY <2>1, <3>1 DEF OrderInv
  <2> QED BY <2>2, <2>3
<1>5. CASE Exchange
  <2>1. /\ UNCHANGED <<toHosts, seen, chunk>> /\ spc' \in {"idle", "tunnel", "closed"}
        /\ \/ UNCHANGED pc
           \/ pc' = "closed"
           \/ spc \in Serving /\ pc' = "writing"
    BY <1>5 DEF Exchange, Respond, ServerEnds, AgentTakes, Close, Goto, KeepHistory, Serving
  <2> QED BY <2>1 DEF OrderInv, UnderWay, Holding, Serving
<1>6. CASE Host \/ LateTimer
  <2>1. UNCHANGED <<toHosts, seen, chunk, pc, spc>>
    BY <1>6 DEF Host, HostAnswers, HostEnds, LateTimer, KeepHistory, agent_vars, host_vars
  <2> QED BY <2>1 DEF OrderInv
<1> QED BY <1>2, <1>3, <1>4, <1>5, <1>6, ClientOrder, AgentReadsOrder DEF Next

LEMMA OrderStepOK == ControlInv /\ TargetInv /\ OrderInv /\ [Next]_vars => OrderInv'
<1>1. ASSUME OrderInv, UNCHANGED vars PROVE OrderInv'
  <2>1. UNCHANGED <<toHosts, seen, pc, spc, chunk>>
    BY <1>1 DEF vars, agent_vars, host_vars
  <2> QED BY <1>1, <2>1 DEF OrderInv
<1> QED BY <1>1, OrderNextOK

-----------------------------------------------------------------------------
(* Nothing is passed over.                                                 *)

\* All of the client's stream up to part n is at a host, or the host is gone
\* and gets nothing any more.
Lost == target.state = "ended"
UpTo(n) == Len(toHosts) = n \/ Lost

\* A chunk that was not passed on leaves an answer that closes the agent's
\* connection, or a server's connection that the agent cannot use again.
IntactInv ==
    /\ \A k \in DOMAIN toHosts : toHosts[k] = k
    /\ link = "none" /\ pc # "closed" => target.state = "none"
    /\ spc = "idle" => link = "open" \/ pc = "closed"
    /\ spc = "dialled" => target.state # "none"
    /\ spc \in {"asked", "dialled"} => UpTo(chunk.from - 1)
    /\ pc \in UnderWay => UpTo(chunk.from - 1) \/ link = "stale"
    /\ pc = "idle" => UpTo(seen) \/ link = "stale"
    /\ pc = "writing" => UpTo(seen) \/ link = "stale" \/ IsConnect
    /\ spc = "waiting" => UpTo(seen) \/ pc = "closed"
    /\ spc = "replying" /\ pc = "waiting" => UpTo(seen) \/ reply = <<>> \/ IsConnect

LEMMA IntactInitOK == Init => IntactInv
<1> SUFFICES ASSUME Init PROVE IntactInv
  OBVIOUS
<1>1. target.state = "none" /\ Len(toHosts) = 0 /\ toHosts = <<>>
  BY DEF Init, NoTarget
<1> QED BY <1>1 DEF Init, IntactInv, UpTo, UnderWay

\* A client that asks on does not change what it has asked.
LEMMA RequestsKept ==
    ASSUME ControlInv, Client
    PROVE  \A i \in DOMAIN requests : i \in DOMAIN requests' /\ requests'[i] = requests[i]
<1>1. requests \in Seq(Asked)
  BY DEF ControlInv, AgentInv
<1>2. \/ requests' = requests
      \/ \E request \in Requests : requests' = Append(requests, request)
  BY DEF Client, Asks, SendsRest, SendsBytes, Leaves, client_vars
<1> QED BY <1>1, <1>2

LEMMA SameCurrent ==
    ASSUME ControlInv, Client, chunk.from <= seen
    PROVE  Current' = Current /\ IsConnect' = IsConnect
<1>1. /\ chunk' = chunk /\ requests \in Seq(Asked) /\ chunk.from \in Nat /\ chunk.from > 0
      /\ chunk.from <= 2 * Len(requests) /\ Len(requests) \in Nat
  BY DEF Client, agent_vars, ControlInv, AgentInv
<1>2. RequestOf(chunk.from) \in 1..Len(requests)
  BY <1>1 DEF RequestOf
<1>4. requests'[RequestOf(chunk.from)] = requests[RequestOf(chunk.from)]
  BY <1>1, <1>2, RequestsKept
<1>5. Current' = Current
  BY <1>1, <1>4 DEF Current, RequestOf
<1> QED BY <1>5 DEF IsConnect

LEMMA ClientIntact == ASSUME ControlInv, OrderInv, IntactInv, Client PROVE IntactInv'
<1>1. UNCHANGED <<toHosts, seen, pc, spc, chunk, link, target, reply>>
  BY DEF Client, agent_vars, host_vars
<1>2. pc = "writing" \/ spc = "replying" => IsConnect' = IsConnect
  BY SameCurrent DEF OrderInv, Holding, Serving
<1>3. \A n : UpTo(n)' <=> UpTo(n)
  BY <1>1 DEF UpTo, Lost
<1> QED BY <1>1, <1>2 DEF IntactInv, UpTo, Lost

LEMMA AgentReadsIntact ==
    ASSUME ControlInv, TargetInv, IntactInv, AgentReads PROVE IntactInv'
<1>1. UNCHANGED <<toHosts, spc, target, reply>> /\ seen \in Nat
  BY DEF AgentReads, host_vars, ControlInv, AgentInv
<1>2. spc \in Serving => pc \in {"waiting", "closed"}
  BY DEF ControlInv, AgentInv
<1>3. /\ pc \in {"idle", "reading", "handshake"}
      /\ pc' \notin {"idle", "waiting", "writing"}
      /\ \/ link' = link
         \/ link' = "none" /\ pc' = "closed"
  BY DEF AgentReads, FirstRead, ReadsRest, ReadsEnd, FirstBytes, HandshakeReads,
         HandshakeRejects, HandshakeCut, IdleEnds, Close, Holds, Goto
<1>4. pc' \in UnderWay => UpTo(chunk.from - 1)' \/ link' = "stale"
  <2>1. CASE FirstRead
    <3>1. chunk'.from = seen + 1 /\ link' = link /\ pc = "idle"
      BY <2>1 DEF FirstRead, Holds
    <3>2. chunk'.from - 1 = seen
      BY <1>1, <3>1
    <3> QED BY <1>1, <3>1, <3>2 DEF IntactInv, UpTo, Lost
  <2>2. CASE ReadsRest \/ ReadsEnd
    <3>1. /\ chunk'.from = chunk.from /\ pc = "reading"
          /\ link' = link \/ pc' = "closed"
      BY <2>2 DEF ReadsRest, ReadsEnd, Close, Holds, Goto, ControlInv, AgentInv
    <3> QED BY <1>1, <3>1 DEF IntactInv, UpTo, Lost, UnderWay
  <2>3. CASE HandshakeReads
    <3>1. CASE field' = "done"
      <4>1. chunk' = [from |-> 1, to |-> 2] /\ pc = "handshake"
        BY <2>3, <3>1 DEF HandshakeReads
      <4>2. toHosts = <<>>
        <5>1. config.protocol \in {"http", "socks5"}
          BY DEF ControlInv, AgentInv, Configs
        <5> QED BY <4>1, <5>1 DEF TargetInv
      <4>3. Len(toHosts') = 0 /\ chunk'.from - 1 = 0
        BY <1>1, <4>1, <4>2
      <4> QED BY <4>3 DEF UpTo
    <3>2. CASE field' # "done"
      BY <2>3, <3>2 DEF HandshakeReads, UnderWay
    <3> QED BY <3>1, <3>2
  <2>4. CASE FirstBytes \/ HandshakeRejects \/ HandshakeCut \/ IdleEnds
    BY <2>4 DEF FirstBytes, HandshakeRejects, HandshakeCut, IdleEnds, Close, Goto, UnderWay
  <2> QED BY <2>1, <2>2, <2>3, <2>4 DEF AgentReads
<1>5. spc' \notin {"asked", "dialled", "waiting", "replying"}
  <2>1. spc \notin Serving /\ spc' = spc
    BY <1>1, <1>2, <1>3
  <2> QED BY <2>1 DEF Serving
<1>6. target'.state = target.state
  BY <1>1
<1> QED BY <1>1, <1>3, <1>4, <1>5, <1>6 DEF IntactInv

LEMMA AgentAsksIntact == ASSUME ControlInv, IntactInv, AgentAsks PROVE IntactInv'
<1>1. UNCHANGED <<toHosts, seen, chunk, reply, requests>>
  BY DEF AgentAsks, Unparsable, DialServer, Ask, RequestFails, KeepHistory, host_vars,
         client_vars
<1>2. spc \in Serving => (pc = "waiting" /\ link = "open") \/ pc = "closed"
  BY DEF ControlInv, AgentInv
<1>3. CASE DialServer /\ link = "none" /\ pc' # "closed"
  <2>1. /\ pc = "handling" /\ pc' = "asking" /\ link' = "open" /\ spc' = "idle"
        /\ target'.state = "none"
    BY <1>3 DEF DialServer, Drop, NoTarget, Goto, Close
  <2>2. Len(toHosts) = chunk.from - 1
    BY <1>3, <2>1 DEF IntactInv, UpTo, Lost, UnderWay
  <2> QED BY <1>1, <2>1, <2>2 DEF IntactInv, UpTo, UnderWay
<1>4. CASE Ask /\ link = "open"
  <2>1. /\ pc = "asking" /\ pc' = "waiting" /\ spc' = "asked"
        /\ UNCHANGED <<link, target>>
    BY <1>4 DEF Ask, Goto, host_vars
  <2> QED BY <1>1, <1>4, <2>1 DEF IntactInv, UpTo, Lost, UnderWay
<1>5. CASE DialServer /\ link # "none"
  <2>1. /\ pc = "handling" /\ pc' = "asking"
        /\ UNCHANGED <<link, target, spc>>
    BY <1>5 DEF DialServer, Goto, host_vars
  <2>2. spc \notin Serving
    BY <1>2, <2>1
  <2> QED BY <1>1, <1>5, <2>1, <2>2 DEF IntactInv, UpTo, Lost, UnderWay, Serving
<1>6. CASE pc' = "closed"
  <2>1. UNCHANGED <<target, spc>>
    BY <1>6 DEF AgentAsks, Unparsable, DialServer, Ask, RequestFails, Goto, host_vars
  <2> QED BY <1>1, <1>6, <2>1 DEF IntactInv, UpTo, Lost, UnderWay
<1>7. Unparsable \/ RequestFails \/ (Ask /\ link # "open") => pc' = "closed"
  BY DEF Unparsable, RequestFails, Ask, Close, Goto
<1> QED BY <1>3, <1>4, <1>5, <1>6, <1>7 DEF AgentAsks

LEMMA AgentWritesIntact == ASSUME ControlInv, IntactInv, AgentWrites PROVE IntactInv'
<1>1. /\ UNCHANGED <<toHosts, seen, chunk, reply, spc, target>> /\ pc = "writing"
      /\ \/ pc' = "closed"
         \/ pc' = "tunnel" /\ link' = link
         \/ pc' = "idle" /\ link' = link /\ ~IsConnect
  BY DEF AgentWrites, WriteDone, WriteFails, Close, Goto, host_vars
<1>2. spc \notin Serving
  BY <1>1 DEF ControlInv, AgentInv
<1> QED BY <1>1, <1>2 DEF IntactInv, UpTo, Lost, UnderWay, Serving

LEMMA ServerIntact == ASSUME ControlInv, OrderInv, IntactInv, Server PROVE IntactInv'
<1>1. /\ UNCHANGED <<seen, pc, chunk, link, requests>>
      /\ IsConnect' = IsConnect
  BY DEF Server, agent_vars, client_vars, IsConnect, Current, RequestOf
<1>2. /\ (pc = "waiting" /\ link = "open") \/ pc = "closed"
      /\ spc \in Serving
  BY DEF ControlInv, AgentInv, Serving, Server, DialHost, DialFails, DialedBefore, PassOn,
         ReadAnswer, AnswerMissing
<1>3. CASE DialHost
  <2>1. /\ spc = "asked" /\ toHosts' = toHosts /\ target'.state = "open"
        /\ \/ IsConnect /\ spc' = "replying"
           \/ ~IsConnect /\ spc' = "dialled" /\ target.state = "none"
    BY <1>3 DEF DialHost, Replies, MustDial
  <2>2. CASE IsConnect
    BY <1>1, <1>2, <2>1, <2>2 DEF IntactInv, UnderWay
  <2>3. CASE ~IsConnect
    <3>1. Len(toHosts) = chunk.from - 1
      BY <2>1, <2>3 DEF IntactInv, UpTo, Lost
    <3> QED BY <1>1, <1>2, <2>1, <2>3, <3>1 DEF IntactInv, UnderWay, UpTo
  <2> QED BY <2>2, <2>3
<1>4. CASE DialFails
  <2>1. /\ spc' = "replying" /\ UNCHANGED <<toHosts, target>> /\ (IsConnect \/ reply' = <<>>)
    BY <1>4 DEF DialFails, Replies, host_vars
  <2> QED BY <1>1, <1>2, <2>1 DEF IntactInv, UnderWay
<1>5. CASE DialedBefore
  <2>1. /\ spc = "asked" /\ UNCHANGED <<toHosts, target>>
        /\ \/ IsConnect /\ spc' = "replying"
           \/ spc' = "dialled" /\ target.state # "none"
    BY <1>5 DEF DialedBefore, Replies, MustDial
  <2> QED BY <1>1, <1>2, <2>1 DEF IntactInv, UnderWay, UpTo, Lost
<1>6. CASE PassOn
  <2>1. /\ spc = "dialled" /\ spc' = "waiting" /\ target' = target
        /\ target.state \in {"open", "ended"}
    BY <1>6 DEF PassOn, IntactInv, ControlInv, AgentInv
  <2>2. CASE target.state = "open"
    <3>1. toHosts' = toHosts \o Parts /\ Len(toHosts) = chunk.from - 1
      BY <1>6, <2>1, <2>2 DEF PassOn, IntactInv, UpTo, Lost
    <3>2. /\ chunk \in [from : Nat, to : Nat] /\ chunk.from <= chunk.to /\ chunk.to = seen
          /\ toHosts \in Seq(Nat)
      BY <2>1 DEF OrderInv, ControlInv, AgentInv, Serving
    <3>3. Len(toHosts') = seen
      BY <3>1, <3>2, PassedOn
    <3>4. \A k \in DOMAIN toHosts' : toHosts'[k] = k
      <4> SUFFICES ASSUME NEW k \in DOMAIN toHosts' PROVE toHosts'[k] = k
        OBVIOUS
      <4>1. /\ \/ k \in DOMAIN toHosts /\ toHosts'[k] = toHosts[k]
               \/ toHosts'[k] = chunk.from + (k - Len(toHosts)) - 1
            /\ toHosts' \in Seq(Nat)
        BY <3>1, <3>2, PassedOn
      <4>2. k \in Nat
        BY <4>1
      <4>3. k \in DOMAIN toHosts => toHosts[k] = k
        BY DEF IntactInv
      <4>4. CASE k \in DOMAIN toHosts /\ toHosts'[k] = toHosts[k]
        BY <4>3, <4>4
      <4>5. CASE toHosts'[k] = chunk.from + (k - Len(toHosts)) - 1
        <5>1. chunk.from \in Nat /\ Len(toHosts) = chunk.from - 1
          BY <3>1, <3>2
        <5> QED BY <4>2, <4>5, <5>1
      <4> QED BY <4>1, <4>4, <4>5
    <3> QED BY <1>1, <1>2, <2>1, <3>3, <3>4 DEF IntactInv, UnderWay, UpTo
  <2>3. CASE target.state = "ended"
    <3>1. toHosts' = toHosts
      BY <1>6, <2>3 DEF PassOn
    <3> QED BY <1>1, <1>2, <2>1, <2>3, <3>1 DEF IntactInv, UnderWay, UpTo, Lost
  <2> QED BY <2>1, <2>2, <2>3
<1>7. CASE ReadAnswer
  <2>1. spc = "waiting" /\ spc' = "replying" /\ UNCHANGED <<toHosts, target>>
    BY <1>7 DEF ReadAnswer, Replies
  <2> QED BY <1>1, <1>2, <2>1 DEF IntactInv, UnderWay, UpTo, Lost
<1>8. CASE AnswerMissing
  <2>1. /\ spc = "waiting" /\ spc' = "replying" /\ toHosts' = toHosts /\ reply' = <<>>
        /\ target'.state = "none"
    BY <1>8 DEF AnswerMissing, Replies, Drop, NoTarget, KeepHistory
  <2> QED BY <1>1, <1>2, <2>1 DEF IntactInv, UnderWay
<1> QED BY <1>3, <1>4, <1>5, <1>6, <1>7, <1>8 DEF Server

LEMMA ExchangeIntact == ASSUME ControlInv, IntactInv, Exchange PROVE IntactInv'
<1>1. /\ UNCHANGED <<toHosts, seen, chunk, reply, requests>>
      /\ IsConnect' = IsConnect
  BY DEF Exchange, Respond, ServerEnds, KeepHistory, client_vars, IsConnect, Current, RequestOf
<1>2. /\ spc \in Serving => (pc = "waiting" /\ link = "open") \/ pc = "closed"
      /\ pc = "closed" => link = "none"
  BY DEF ControlInv, AgentInv
<1>3. target' = target \/ target'.state = "none"
  BY DEF Exchange, Respond, ServerEnds, Drop, NoTarget
<1>4. CASE Respond
  <2>1. spc = "replying" /\ spc' \in {"idle", "tunnel", "closed"}
    BY <1>4 DEF Respond
  <2>2. CASE pc = "closed"
    <3>1. pc' = "closed"
      BY <1>2, <1>4, <2>2 DEF Respond
    <3> QED BY <1>1, <2>1, <3>1 DEF IntactInv, UnderWay
  <2>3. CASE pc = "waiting" /\ link = "open"
    <3>1. CASE reply = <<>>
      <4>1. pc' = "closed"
        BY <1>4, <2>3, <3>1 DEF Respond, AgentTakes, Close, Goto
      <4> QED BY <1>1, <2>1, <4>1 DEF IntactInv, UnderWay
    <3>2. CASE reply # <<>>
      <4>1. /\ pc' = "writing" /\ link' = IF spc' = "closed" THEN "stale" ELSE "open"
            /\ target' = target \/ link' = "stale"
        BY <1>4, <2>3, <3>2 DEF Respond, AgentTakes, Goto
      <4> QED BY <1>1, <2>1, <2>3, <3>2, <4>1 DEF IntactInv, UnderWay, UpTo, Lost
    <3> QED BY <3>1, <3>2
  <2> QED BY <1>2, <2>1, <2>2, <2>3 DEF Serving
<1>5. CASE ServerEnds
  <2>1. /\ spc = "idle" /\ spc' = "closed" /\ pc' = pc /\ target'.state = "none"
        /\ link = "open" => link' = "stale"
    BY <1>5 DEF ServerEnds, Drop, NoTarget
  <2>2. CASE pc = "closed"
    BY <1>1, <2>1, <2>2 DEF IntactInv, UnderWay
  <2>3. CASE pc # "closed"
    BY <1>1, <2>1, <2>3 DEF IntactInv, UnderWay
  <2> QED BY <2>2, <2>3
<1> QED BY <1>4, <1>5 DEF Exchange

LEMMA HostIntact == ASSUME ControlInv, IntactInv, Host PROVE IntactInv'
<1>1. /\ UNCHANGED <<toHosts, seen, chunk, reply, requests, pc, spc, link>>
      /\ IsConnect' = IsConnect
  BY DEF Host, agent_vars, client_vars, IsConnect, Current, RequestOf
<1>2. CASE HostAnswers
  <2>1. target' = target
    BY <1>2 DEF HostAnswers
  <2> QED BY <1>1, <2>1 DEF IntactInv, UpTo, Lost
<1>3. CASE HostEnds
  <2>1. target.state = "open" /\ target'.state = "ended"
    BY <1>3 DEF HostEnds, ControlInv, AgentInv
  <2> QED BY <1>1, <2>1 DEF IntactInv, UpTo, Lost
<1> QED BY <1>2, <1>3 DEF Host

LEMMA IntactStepOK ==
    ASSUME ControlInv, TargetInv, OrderInv, ~late => IntactInv, [Next]_vars
    PROVE  ~late' => IntactInv'
<1>1. CASE UNCHANGED vars
  <2>1. UNCHANGED <<toHosts, seen, pc, spc, chunk, link, target, reply, requests, late>>
    BY <1>1 DEF vars, agent_vars, host_vars, client_vars
  <2>2. IsConnect' = IsConnect
    BY <2>1 DEF IsConnect, Current, RequestOf
  <2> QED BY <2>1, <2>2 DEF IntactInv, UpTo, Lost
<1>2. CASE LateTimer
  BY <1>2 DEF LateTimer
<1>3. CASE Client \/ AgentReads \/ AgentAsks \/ AgentWrites \/ Server \/ Exchange \/ Host
  <2>1. late' = late
    BY <1>3 DEF Client, AgentReads, AgentAsks, AgentWrites, Server, Exchange, Host
  <2> QED BY <1>3, <2>1, ClientIntact, AgentReadsIntact, AgentAsksIntact, AgentWritesIntact,
             ServerIntact, ExchangeIntact, HostIntact
<1> QED BY <1>1, <1>2, <1>3 DEF Next

\* Hosts get the parts of the client's requests in the client's order and none
\* of them twice (AgentHandler::handle never repeats a request), and none is
\* passed over while no timer handler is late.
THEOREM RequestsAlwaysIntact == Spec => []RequestsIntact
<1> DEFINE Inv == OrderInv /\ (~late => IntactInv)
<1>1. Init => Inv
  BY OrderInitOK, IntactInitOK
<1>2. ControlInv /\ TargetInv /\ Inv /\ [Next]_vars => Inv'
  BY OrderStepOK, IntactStepOK
<1>3. Inv => RequestsIntact
  BY DEF OrderInv, IntactInv, RequestsIntact
<1>4. Spec => []TargetInv
  BY TargetInitOK, TargetStepOK, ControlInvariant, PTL DEF Spec
<1> HIDE DEF Inv
<1> QED BY <1>1, <1>2, <1>3, <1>4, ControlInvariant, PTL DEF Spec

-----------------------------------------------------------------------------
(* One host.                                                               *)

\* The addresses that the client's requests name, and the k-th chunk's.
Named == {AddressOf(request) : request \in Asked}
NamedBy(k) == AddressOf(requests[served[k].request])
ServedPolled(k) == requests[served[k].request].kind = "connect" /\ ~config.direct

ServedInv ==
    /\ served \in Seq([request : Nat, address : Named])
    /\ \A k \in DOMAIN served :
          /\ served[k].request \in DOMAIN requests
          /\ ServedPolled(k) => served[k].address = NamedBy(k)
          /\ ~ServedPolled(k) => served[k].address = NamedBy(1)

\* The server has granted a polled CONNECT: nothing is asked behind it.
Over ==
    /\ IsConnect /\ ~config.direct
    /\ pc \in {"waiting", "writing", "tunnel", "closed"}
    /\ spc \notin {"asked", "dialled", "waiting"}

\* The server has no host only before the first chunk; once it had one and lost
\* it, its connection to the agent is not used again.
DialInv ==
    /\ target.state # "none" => target.address \in Named
    /\ config.protocol = "socks5" /\ pc \in {"idle", "handshake"} => served = <<>>
    /\ target.state = "none" /\ (spc = "asked" \/ (pc # "closed" /\ link # "stale")) =>
           served = <<>> \/ (spc = "replying" /\ reply = <<>>)
    /\ target.state # "none" /\ served = <<>> =>
           \/ /\ spc = "dialled" /\ target.address = AddressOf(Current)
              /\ owed = <<>> /\ inbox = <<>>
           \/ spc = "waiting" /\ target.state = "ended" /\ inbox = <<>>
    /\ target.state # "none" /\ served # <<>> => target.address = NamedBy(1) \/ Over
    /\ spc = "dialled" => ~IsConnect

HostInv == ServedInv /\ DialInv

LEMMA HostInitOK == Init => HostInv
<1> SUFFICES ASSUME Init PROVE HostInv
  OBVIOUS
<1>1. <<>> \in Seq([request : Nat, address : Named]) /\ DOMAIN <<>> = {}
  OBVIOUS
<1>2. served = <<>> /\ target.state = "none" /\ spc = "none"
  BY DEF Init, NoTarget
<1> QED BY <1>1, <1>2 DEF HostInv, ServedInv, DialInv

\* What the client asked in the handshake does not change.
LEMMA SameSaid == ASSUME Next PROVE UNCHANGED <<config, said>>
BY DEF Next, Client, Asks, SendsRest, SendsBytes, Leaves, SocksClientSends, AgentReads,
       FirstRead, ReadsRest, ReadsEnd, FirstBytes, HandshakeReads, HandshakeRejects,
       HandshakeCut, IdleEnds, SocksFirstRead, SocksReads, SocksRejects, AgentAsks,
       AgentWrites, Server, Exchange, Host, LateTimer, socks_vars

LEMMA SameNamed == ASSUME UNCHANGED said PROVE Named' = Named
BY DEF Named, Asked, SocksRequest, SocksTarget

LEMMA ServedKept ==
    ASSUME ServedInv, UNCHANGED <<served, config, said>>,
           \A i \in DOMAIN requests : i \in DOMAIN requests' /\ requests'[i] = requests[i]
    PROVE  /\ ServedInv'
           /\ served # <<>> => NamedBy(1)' = NamedBy(1)
<1>1. \A k \in DOMAIN served : requests'[served'[k].request] = requests[served[k].request]
                              /\ served'[k].request \in DOMAIN requests'
  BY DEF ServedInv
<1>2. served # <<>> => 1 \in DOMAIN served
  BY DEF ServedInv
<1>3. \A k \in DOMAIN served : /\ NamedBy(k)' = NamedBy(k)
                               /\ ServedPolled(k)' = ServedPolled(k)
  BY <1>1 DEF NamedBy, ServedPolled
<1>4. \A k \in DOMAIN served : served # <<>>
  BY DEF ServedInv
<1>5. Named' = Named
  BY SameNamed
<1> QED BY <1>1, <1>2, <1>3, <1>4, <1>5 DEF ServedInv

LEMMA ClientHost == ASSUME ControlInv, OrderInv, HostInv, Client PROVE HostInv'
<1>1. UNCHANGED <<config, pc, chunk, link, spc, target, owed, inbox, served, reply>>
      /\ pc \notin {"tunnel", "closed"}
  BY DEF Client, agent_vars, host_vars
<1>2. UNCHANGED said
  BY SameSaid DEF Next
<1>3. ServedInv' /\ (served # <<>> => NamedBy(1)' = NamedBy(1))
  BY <1>1, <1>2, RequestsKept, ServedKept DEF HostInv
<1>4. pc \in {"waiting", "writing"} \/ spc = "dialled" =>
          Current' = Current /\ IsConnect' = IsConnect
  BY SameCurrent DEF OrderInv, Holding, Serving
<1>5. Over => Over'
  BY <1>1, <1>4 DEF Over
<1>6. Named' = Named
  BY <1>2, SameNamed
<1>7. DialInv
  BY DEF HostInv
<1> QED BY <1>1, <1>3, <1>4, <1>5, <1>6, <1>7 DEF HostInv, DialInv

LEMMA AgentReadsHost ==
    ASSUME ControlInv, TargetInv, HostInv, AgentReads PROVE HostInv'
<1>1. UNCHANGED <<config, said, spc, target, owed, inbox, served, reply>>
  BY SameSaid DEF AgentReads, host_vars, Next
<1>2. /\ pc \in {"idle", "reading", "handshake"}
      /\ pc' \in {"handling", "reading", "handshake", "closed"}
      /\ pc' = "handshake" => pc \in {"idle", "handshake"}
      /\ \/ link' = link
         \/ link' = "none" /\ pc' = "closed"
  BY DEF AgentReads, FirstRead, ReadsRest, ReadsEnd, FirstBytes, HandshakeReads,
         HandshakeRejects, HandshakeCut, IdleEnds, Close, Holds, Goto
<1>3. spc \notin Serving
  BY <1>2 DEF ControlInv, AgentInv
<1>4. requests' = requests \/ served = <<>>
  <2>1. requests' = requests \/ pc = "handshake"
    BY DEF AgentReads, FirstRead, ReadsRest, ReadsEnd, FirstBytes, HandshakeReads,
           HandshakeRejects, HandshakeCut, IdleEnds, client_vars
  <2>2. config.protocol \in {"http", "socks5"}
    BY DEF ControlInv, AgentInv, Configs
  <2> QED BY <2>1, <2>2 DEF TargetInv, HostInv, DialInv
<1>5. ServedInv' /\ (served # <<>> => NamedBy(1)' = NamedBy(1))
  <2>1. CASE requests' = requests
    BY <1>1, <2>1, ServedKept DEF HostInv
  <2>2. CASE served = <<>>
    <3>1. Named' = Named /\ DOMAIN served = {}
      BY <1>1, <2>2, SameNamed
    <3> QED BY <1>1, <2>2, <3>1 DEF HostInv, ServedInv
  <2> QED BY <1>4, <2>1, <2>2
<1>6. ~Over
  BY <1>2 DEF Over
<1>7. Named' = Named
  BY <1>1, SameNamed
<1>8. DialInv
  BY DEF HostInv
<1> QED BY <1>1, <1>2, <1>3, <1>5, <1>6, <1>7, <1>8 DEF HostInv, DialInv, Serving

LEMMA AgentAsksHost ==
    ASSUME ControlInv, IntactInv, HostInv, AgentAsks PROVE HostInv'
<1>1. UNCHANGED <<config, said, served, reply, requests, chunk>>
  BY SameSaid DEF AgentAsks, Unparsable, DialServer, Ask, RequestFails, KeepHistory,
                  host_vars, client_vars, Next
<1>2. spc \in Serving => (pc = "waiting" /\ link = "open") \/ pc = "closed"
  BY DEF ControlInv, AgentInv
<1>3. ServedInv' /\ (served # <<>> => NamedBy(1)' = NamedBy(1))
  BY <1>1, ServedKept DEF HostInv
<1>4. Named' = Named
  BY <1>1, SameNamed
<1>5. DialInv
  BY DEF HostInv
<1>6. Current' = Current /\ IsConnect' = IsConnect
  BY <1>1 DEF Current, IsConnect, RequestOf
<1>7. CASE DialServer /\ link = "none" /\ pc' # "closed"
  <2>1. /\ pc = "handling" /\ pc' = "asking" /\ link' = "open" /\ spc' = "idle"
        /\ target'.state = "none"
    BY <1>7 DEF DialServer, Drop, NoTarget, Goto, Close
  <2>2. served = <<>>
    BY <1>2, <1>5, <1>7, <2>1 DEF IntactInv, DialInv, Serving
  <2> QED BY <1>1, <1>3, <2>1, <2>2 DEF HostInv, DialInv
<1>8. CASE Ask /\ link = "open"
  <2>1. /\ pc = "asking" /\ pc' = "waiting" /\ spc' = "asked"
        /\ UNCHANGED <<link, target, inbox, owed>>
    BY <1>8 DEF Ask, Goto, host_vars
  <2>2. spc \notin Serving /\ ~Over
    BY <1>2, <2>1 DEF Over
  <2> QED BY <1>1, <1>3, <1>4, <1>5, <1>8, <2>1, <2>2 DEF HostInv, DialInv, Serving
<1>9. CASE DialServer /\ link # "none"
  <2>1. /\ pc = "handling" /\ pc' = "asking"
        /\ UNCHANGED <<link, target, spc, inbox, owed>>
    BY <1>9 DEF DialServer, Goto, host_vars
  <2>2. spc \notin Serving /\ ~Over
    BY <1>2, <2>1 DEF Over
  <2> QED BY <1>1, <1>3, <1>4, <1>5, <1>9, <2>1, <2>2 DEF HostInv, DialInv, Serving
<1>10. CASE pc' = "closed"
  <2>1. UNCHANGED <<target, spc, inbox, owed>>
    BY <1>10 DEF AgentAsks, Unparsable, DialServer, Ask, RequestFails, Goto, host_vars
  <2>2. Over => Over'
    BY <1>1, <1>6, <1>10, <2>1 DEF Over
  <2> QED BY <1>1, <1>3, <1>4, <1>5, <1>6, <1>10, <2>1, <2>2 DEF HostInv, DialInv
<1>11. Unparsable \/ RequestFails \/ (Ask /\ link # "open") => pc' = "closed"
  BY DEF Unparsable, RequestFails, Ask, Close, Goto
<1> QED BY <1>7, <1>8, <1>9, <1>10, <1>11 DEF AgentAsks

LEMMA AgentWritesHost ==
    ASSUME ControlInv, TargetInv, HostInv, AgentWrites PROVE HostInv'
<1>1. UNCHANGED <<config, said, served, reply, requests, chunk, spc, target, inbox, owed>>
  BY SameSaid DEF AgentWrites, host_vars, client_vars, Next
<1>2. /\ pc = "writing"
      /\ \/ pc' = "closed"
         \/ pc' = "tunnel" /\ link' = link
         \/ pc' = "idle" /\ link' = link /\ ~IsConnect
  BY DEF AgentWrites, WriteDone, WriteFails, Close, Goto
<1>3. ServedInv' /\ (served # <<>> => NamedBy(1)' = NamedBy(1))
  BY <1>1, ServedKept DEF HostInv
<1>4. Named' = Named
  BY <1>1, SameNamed
<1>5. Current' = Current /\ IsConnect' = IsConnect
  BY <1>1 DEF Current, IsConnect, RequestOf
<1>6. config.protocol = "socks5" => pc' # "idle"
  BY <1>2, SocksCurrent DEF TargetInv
<1>7. Over => Over'
  BY <1>1, <1>2, <1>5 DEF Over
<1>8. spc \notin Serving
  BY <1>2 DEF ControlInv, AgentInv
<1>9. DialInv
  BY DEF HostInv
<1> QED BY <1>1, <1>2, <1>3, <1>4, <1>5, <1>6, <1>7, <1>8, <1>9
        DEF HostInv, DialInv, Serving

LEMMA CurrentAsked ==
    ASSUME ControlInv, OrderInv, spc \in Serving
    PROVE  /\ RequestOf(chunk.from) \in Nat /\ RequestOf(chunk.from) \in DOMAIN requests
           /\ AddressOf(Current) \in Named
<1>1. /\ requests \in Seq(Asked) /\ chunk.from \in Nat /\ chunk.from > 0
      /\ chunk.from <= 2 * Len(requests) /\ Len(requests) \in Nat
  BY DEF OrderInv, ControlInv, AgentInv
<1>2. RequestOf(chunk.from) \in Nat /\ RequestOf(chunk.from) \in 1..Len(requests)
  BY <1>1 DEF RequestOf
<1>3. Current \in Asked
  BY <1>1, <1>2 DEF Current
<1> QED BY <1>1, <1>2, <1>3 DEF Named

\* A chunk more goes where those before it went, the first one where it asked to
\* go, and a polled CONNECT always.
LEMMA ServedMore ==
    ASSUME ControlInv, OrderInv, spc \in Serving, ServedInv,
           UNCHANGED <<config, said, requests>>, NEW address \in Named,
           served' = Append(served, [request |-> RequestOf(chunk.from), address |-> address]),
           served = <<>> \/ (IsConnect /\ ~config.direct) => address = AddressOf(Current),
           served # <<>> /\ ~(IsConnect /\ ~config.direct) => address = NamedBy(1)
    PROVE  /\ ServedInv' /\ served' # <<>>
           /\ served = <<>> => NamedBy(1)' = AddressOf(Current)
           /\ served # <<>> => NamedBy(1)' = NamedBy(1)
<1> DEFINE r == RequestOf(chunk.from)
           x == [request |-> r, address |-> address]
           S == [request : Nat, address : Named]
<1>1. r \in Nat /\ r \in DOMAIN requests /\ Current = requests[r] /\ x \in S
  BY CurrentAsked DEF Current
<1>2. served \in Seq(S)
  BY DEF ServedInv
<1> PICK n \in Nat : n = Len(served) + 1
  BY <1>2
<1>3. x.request = r /\ x.address = address
  OBVIOUS
<1>4. served' = Append(served, x)
  OBVIOUS
<1> HIDE DEF x
<1>5. /\ served' \in Seq(S) /\ DOMAIN served' = 1..n /\ n \in Nat /\ n > 0
      /\ DOMAIN served = 1..(n - 1) /\ served'[n] = x
      /\ \A k \in 1..(n - 1) : served'[k] = served[k]
      /\ served = <<>> <=> n = 1
  BY <1>1, <1>2, <1>4
<1> HIDE DEF r
<1>6. Named' = Named
  BY SameNamed
<1>7. \A k \in 1..(n - 1) : NamedBy(k)' = NamedBy(k) /\ ServedPolled(k)' = ServedPolled(k)
  BY <1>5 DEF NamedBy, ServedPolled
<1>8. NamedBy(n)' = AddressOf(Current) /\ (ServedPolled(n)' <=> IsConnect /\ ~config.direct)
  BY <1>1, <1>3, <1>5 DEF NamedBy, ServedPolled, IsConnect
<1>9. n # 1 => 1 \in 1..(n - 1)
  BY <1>5
<1>10. NamedBy(1)' = IF n = 1 THEN AddressOf(Current) ELSE NamedBy(1)
  BY <1>7, <1>8, <1>9
<1>11. \A k \in 1..(n - 1) : n # 1
  BY <1>5
<1>12. ASSUME NEW k \in 1..n
       PROVE  /\ served'[k].request \in DOMAIN requests'
              /\ ServedPolled(k)' => served'[k].address = NamedBy(k)'
              /\ ~ServedPolled(k)' => served'[k].address = NamedBy(1)'
  <2>1. CASE k = n
    BY <1>1, <1>3, <1>5, <1>8, <1>10, <2>1
  <2>2. CASE k # n
    <3>1. k \in 1..(n - 1)
      BY <1>5, <2>2
    <3> QED BY <1>5, <1>7, <1>10, <1>11, <3>1 DEF ServedInv
  <2> QED BY <2>1, <2>2
<1>13. served' # <<>>
  BY <1>5
<1> QED BY <1>5, <1>6, <1>10, <1>12, <1>13 DEF ServedInv, S

LEMMA ServerHost == ASSUME ControlInv, OrderInv, HostInv, Server PROVE HostInv'
<1>1. UNCHANGED <<config, said, pc, chunk, link, requests>>
  BY SameSaid DEF Server, agent_vars, client_vars, Next
<1>2. /\ (pc = "waiting" /\ link = "open") \/ pc = "closed"
      /\ spc \in Serving
  BY DEF ControlInv, AgentInv, Serving, Server, DialHost, DialFails, DialedBefore, PassOn,
         ReadAnswer, AnswerMissing
<1>3. Current' = Current /\ IsConnect' = IsConnect
  BY <1>1 DEF Current, IsConnect, RequestOf
<1>4. Named' = Named /\ AddressOf(Current) \in Named
  BY <1>1, <1>2, SameNamed, CurrentAsked
<1>5. ServedInv /\ DialInv
  BY DEF HostInv
<1>6. served' = served => ServedInv' /\ (served # <<>> => NamedBy(1)' = NamedBy(1))
  BY <1>1, <1>5, ServedKept
<1>7. pc \notin {"idle", "handshake"}
  BY <1>2
<1>8. CASE DialHost
  <2>1. /\ spc = "asked" /\ target'.state = "open" /\ target'.address = AddressOf(Current)
        /\ target.state = "none" \/ (IsConnect /\ ~config.direct)
        /\ owed' = <<>> /\ inbox' = <<>>
    BY <1>8 DEF DialHost, MustDial
  <2>2. served = <<>> \/ (IsConnect /\ ~config.direct)
    BY <1>5, <2>1 DEF DialInv
  <2>3. CASE IsConnect
    <3>1. served' = Append(served, [request |-> RequestOf(chunk.from),
                                    address |-> AddressOf(Current)]) /\ spc' = "replying"
      BY <1>8, <2>1, <2>3 DEF DialHost, Serves, Replies
    <3>2. /\ ServedInv' /\ served' # <<>>
          /\ served = <<>> => NamedBy(1)' = AddressOf(Current)
      BY <1>1, <1>2, <1>4, <1>5, <2>2, <3>1, ServedMore
    <3>3. ~config.direct => Over'
      BY <1>1, <1>2, <1>3, <2>3, <3>1 DEF Over
    <3> QED BY <1>1, <1>4, <1>7, <2>1, <2>2, <3>1, <3>2, <3>3 DEF HostInv, DialInv
  <2>4. CASE ~IsConnect
    <3>1. served' = served /\ spc' = "dialled" /\ served = <<>>
      BY <1>8, <2>2, <2>4 DEF DialHost
    <3> QED BY <1>1, <1>3, <1>4, <1>6, <2>1, <2>4, <3>1 DEF HostInv, DialInv
  <2> QED BY <2>3, <2>4
<1>9. CASE DialFails
  <2>1. /\ spc = "asked" /\ spc' = "replying" /\ UNCHANGED <<target, served, inbox, owed>>
        /\ IsConnect \/ reply' = <<>>
    BY <1>9 DEF DialFails, Replies, host_vars
  <2>2. ~Over
    BY <2>1 DEF Over
  <2> QED BY <1>1, <1>4, <1>5, <1>6, <1>7, <2>1, <2>2 DEF HostInv, DialInv
<1>10. CASE DialedBefore
  <2>1. /\ spc = "asked" /\ UNCHANGED <<target, inbox, owed>>
        /\ target.state # "none" /\ ~(IsConnect /\ ~config.direct)
    BY <1>10 DEF DialedBefore, MustDial
  <2>2. served # <<>> /\ target.address = NamedBy(1) /\ target.address \in Named
    BY <1>5, <2>1 DEF DialInv, Over
  <2>3. CASE IsConnect
    <3>1. served' = Append(served, [request |-> RequestOf(chunk.from),
                                    address |-> target.address]) /\ spc' = "replying"
      BY <1>10, <2>3 DEF DialedBefore, Serves, Replies
    <3>2. ServedInv' /\ served' # <<>> /\ NamedBy(1)' = NamedBy(1)
      BY <1>1, <1>2, <1>5, <2>1, <2>2, <3>1, ServedMore
    <3> QED BY <1>1, <1>4, <1>7, <2>1, <2>2, <3>1, <3>2 DEF HostInv, DialInv
  <2>4. CASE ~IsConnect
    <3>1. served' = served /\ spc' = "dialled"
      BY <1>10, <2>4 DEF DialedBefore
    <3> QED BY <1>1, <1>3, <1>4, <1>6, <1>7, <2>1, <2>2, <2>4, <3>1 DEF HostInv, DialInv
  <2> QED BY <2>3, <2>4
<1>11. CASE PassOn
  <2>1. spc = "dialled" /\ spc' = "waiting" /\ UNCHANGED <<target, inbox>> /\ ~Over
    BY <1>11 DEF PassOn, Over
  <2>2. CASE target.state = "open"
    <3>1. served' = Append(served, [request |-> RequestOf(chunk.from),
                                    address |-> target.address])
      BY <1>11, <2>2 DEF PassOn, Serves
    <3>2. /\ target.address \in Named
          /\ served = <<>> => target.address = AddressOf(Current)
          /\ served # <<>> => target.address = NamedBy(1)
      BY <1>5, <2>1, <2>2 DEF DialInv
    <3>3. ~IsConnect
      BY <1>5, <2>1 DEF DialInv
    <3>4. ServedInv' /\ served' # <<>> /\ target.address = NamedBy(1)'
      BY <1>1, <1>2, <1>5, <3>1, <3>2, <3>3, ServedMore
    <3> QED BY <1>1, <1>4, <1>7, <2>1, <2>2, <3>2, <3>4 DEF HostInv, DialInv
  <2>3. CASE target.state # "open"
    <3>1. served' = served /\ target.state \in {"none", "ended"}
      BY <1>11, <2>3 DEF PassOn, ControlInv, AgentInv
    <3> QED BY <1>1, <1>2, <1>4, <1>5, <1>6, <1>7, <2>1, <3>1 DEF HostInv, DialInv
  <2> QED BY <2>2, <2>3
<1>12. CASE ReadAnswer
  <2>1. /\ spc = "waiting" /\ spc' = "replying" /\ UNCHANGED <<target, served>>
        /\ inbox # <<>>
    BY <1>12 DEF ReadAnswer, Replies
  <2> QED BY <1>1, <1>4, <1>5, <1>6, <1>7, <2>1 DEF HostInv, DialInv, Over
<1>13. CASE AnswerMissing
  <2>1. /\ spc = "waiting" /\ spc' = "replying" /\ reply' = <<>>
        /\ target'.state = "none" /\ served' = served
    BY <1>13 DEF AnswerMissing, Replies, Drop, NoTarget, KeepHistory
  <2> QED BY <1>1, <1>4, <1>5, <1>6, <1>7, <2>1 DEF HostInv, DialInv
<1> QED BY <1>8, <1>9, <1>10, <1>11, <1>12, <1>13 DEF Server

LEMMA ExchangeHost ==
    ASSUME ControlInv, IntactInv, HostInv, Exchange PROVE HostInv'
<1>1. UNCHANGED <<config, said, chunk, reply, requests, served>>
  BY SameSaid DEF Exchange, Respond, ServerEnds, KeepHistory, client_vars, Next
<1>2. /\ spc \in Serving => (pc = "waiting" /\ link = "open") \/ pc = "closed"
      /\ pc = "closed" => link = "none"
  BY DEF ControlInv, AgentInv
<1>3. ServedInv' /\ (served # <<>> => NamedBy(1)' = NamedBy(1))
  BY <1>1, ServedKept DEF HostInv
<1>4. Named' = Named
  BY <1>1, SameNamed
<1>5. DialInv
  BY DEF HostInv
<1>6. Current' = Current /\ IsConnect' = IsConnect
  BY <1>1 DEF Current, IsConnect, RequestOf
<1>7. target' = target \/ target'.state = "none"
  BY DEF Exchange, Respond, ServerEnds, Drop, NoTarget
<1>8. CASE Respond
  <2>1. spc = "replying" /\ spc' \in {"idle", "tunnel", "closed"}
    BY <1>8 DEF Respond
  <2>2. target.state # "none" => served # <<>>
    BY <1>5, <2>1 DEF DialInv
  <2>3. CASE pc = "closed"
    <3>1. pc' = "closed"
      BY <1>2, <1>8, <2>3 DEF Respond
    <3>2. Over => Over'
      BY <1>1, <1>6, <2>1, <3>1 DEF Over
    <3> QED BY <1>1, <1>3, <1>4, <1>5, <1>7, <2>1, <2>2, <3>1, <3>2 DEF HostInv, DialInv
  <2>4. CASE pc = "waiting" /\ link = "open" /\ reply = <<>>
    <3>1. pc' = "closed"
      BY <1>8, <2>4 DEF Respond, AgentTakes, Close, Goto
    <3>2. Over => Over'
      BY <1>1, <1>6, <2>1, <3>1 DEF Over
    <3> QED BY <1>1, <1>3, <1>4, <1>5, <1>7, <2>1, <2>2, <3>1, <3>2 DEF HostInv, DialInv
  <2>5. CASE pc = "waiting" /\ link = "open" /\ reply # <<>>
    <3>1. /\ spc' = "closed" => link' = "stale"
          /\ target' = target \/ spc' = "closed"
      BY <1>8, <2>5 DEF Respond, AgentTakes, Goto
    <3>2. pc' = "writing"
      BY <1>8, <2>5 DEF Respond, AgentTakes, Goto
    <3>3. Over => Over'
      BY <1>1, <1>6, <2>1, <3>2 DEF Over
    <3> QED BY <1>1, <1>3, <1>4, <1>5, <1>7, <2>1, <2>2, <2>5, <3>1, <3>2, <3>3
            DEF HostInv, DialInv
  <2> QED BY <1>2, <2>1, <2>3, <2>4, <2>5 DEF Serving
<1>9. CASE ServerEnds
  <2>1. /\ spc = "idle" /\ spc' = "closed" /\ pc' = pc /\ target'.state = "none"
        /\ link = "open" => link' = "stale"
    BY <1>9 DEF ServerEnds, Drop, NoTarget
  <2> QED BY <1>1, <1>3, <1>5, <2>1 DEF HostInv, DialInv, IntactInv
<1> QED BY <1>8, <1>9 DEF Exchange

LEMMA HostHost == ASSUME ControlInv, HostInv, Host PROVE HostInv'
<1>1. UNCHANGED <<config, said, chunk, reply, requests, served, pc, spc, link>>
  BY SameSaid DEF Host, agent_vars, client_vars, Next
<1>2. ServedInv' /\ (served # <<>> => NamedBy(1)' = NamedBy(1))
  BY <1>1, ServedKept DEF HostInv
<1>3. Named' = Named
  BY <1>1, SameNamed
<1>4. DialInv
  BY DEF HostInv
<1>5. Current' = Current /\ IsConnect' = IsConnect
  BY <1>1 DEF Current, IsConnect, RequestOf
<1>6. Over' = Over
  BY <1>1, <1>5 DEF Over
<1>7. /\ target.state = "open" /\ target'.state \in {"open", "ended"}
      /\ target'.address = target.address
      /\ \/ owed # <<>>
         \/ owed' = <<>> /\ inbox' = inbox
  BY DEF Host, HostAnswers, HostEnds, ControlInv, AgentInv
<1> QED BY <1>1, <1>2, <1>3, <1>4, <1>5, <1>6, <1>7 DEF HostInv, DialInv

LEMMA HostStepOK ==
    ASSUME ControlInv, TargetInv, OrderInv, ~late => IntactInv, ~late => HostInv, [Next]_vars
    PROVE  ~late' => HostInv'
<1>1. CASE UNCHANGED vars
  <2>1. UNCHANGED <<config, said, pc, spc, chunk, link, target, owed, inbox, reply, requests,
                    served, late>>
    BY <1>1 DEF vars, agent_vars, host_vars, client_vars, socks_vars
  <2>2. Current' = Current /\ IsConnect' = IsConnect
    BY <2>1 DEF IsConnect, Current, RequestOf
  <2>3. Over' = Over /\ Named' = Named
    BY <2>1, <2>2, SameNamed DEF Over
  <2>4. HostInv => ServedInv' /\ (served # <<>> => NamedBy(1)' = NamedBy(1))
    BY <2>1, ServedKept DEF HostInv
  <2> QED BY <2>1, <2>2, <2>3, <2>4 DEF HostInv, DialInv
<1>2. CASE LateTimer
  BY <1>2 DEF LateTimer
<1>3. CASE Client \/ AgentReads \/ AgentAsks \/ AgentWrites \/ Server \/ Exchange \/ Host
  <2>1. late' = late
    BY <1>3 DEF Client, AgentReads, AgentAsks, AgentWrites, Server, Exchange, Host
  <2> QED BY <1>3, <2>1, ClientHost, AgentReadsHost, AgentAsksHost, AgentWritesHost,
             ServerHost, ExchangeHost, HostHost
<1> QED BY <1>1, <1>2, <1>3 DEF Next

\* Where connections are reused and while no timer handler is late, the server
\* dials once for the plain requests and the direct tunnel of a client
\* connection: they all go to the address of the first, and a polled CONNECT to
\* its own.
THEOREM AlwaysFirstHost == Spec => []FirstHost
<1> DEFINE Inv == OrderInv /\ (~late => IntactInv) /\ (~late => HostInv)
<1>1. Init => Inv
  BY OrderInitOK, IntactInitOK, HostInitOK
<1>2. ControlInv /\ TargetInv /\ Inv /\ [Next]_vars => Inv'
  BY OrderStepOK, IntactStepOK, HostStepOK
<1>3. Inv => FirstHost
  BY DEF HostInv, ServedInv, ServedPolled, NamedBy, FirstHost
<1>4. Spec => []TargetInv
  BY TargetInitOK, TargetStepOK, ControlInvariant, PTL DEF Spec
<1> HIDE DEF Inv
<1> QED BY <1>1, <1>2, <1>3, <1>4, ControlInvariant, PTL DEF Spec

-----------------------------------------------------------------------------
(* The way of an answer.                                                   *)
Answer == Int \X Int

\* parts are those of all behind its first n.
Piece(parts, n, all) ==
    /\ n + Len(parts) <= Len(all)
    /\ \A k \in 1..Len(parts) : parts[k] = all[n + k]

LEMMA PieceKept ==
    ASSUME NEW S, NEW all \in Seq(S), NEW parts \in Seq(S), NEW n \in Nat, NEW x \in S,
           Piece(parts, n, all)
    PROVE  Piece(parts, n, Append(all, x))
BY DEF Piece

LEMMA PieceGrows ==
    ASSUME NEW S, NEW all \in Seq(S), NEW parts \in Seq(S), NEW n \in Nat, NEW x \in S,
           Piece(parts, n, all), n + Len(parts) = Len(all)
    PROVE  /\ Piece(Append(parts, x), n, Append(all, x))
           /\ n + Len(Append(parts, x)) = Len(Append(all, x))
BY DEF Piece

LEMMA PieceSplit ==
    ASSUME NEW S, NEW all \in Seq(S), NEW parts \in Seq(S), NEW n \in Nat,
           NEW i \in 1..Len(parts), Piece(parts, n, all)
    PROVE  /\ SubSeq(parts, 1, i) \in Seq(S) /\ Len(SubSeq(parts, 1, i)) = i
           /\ SubSeq(parts, i + 1, Len(parts)) \in Seq(S)
           /\ Len(SubSeq(parts, i + 1, Len(parts))) = Len(parts) - i
           /\ Piece(SubSeq(parts, 1, i), n, all)
           /\ Piece(SubSeq(parts, i + 1, Len(parts)), n + i, all)
<1> DEFINE first == SubSeq(parts, 1, i)
           rest == SubSeq(parts, i + 1, Len(parts))
<1>1. /\ first \in Seq(S) /\ Len(first) = i
      /\ \A k \in 1..i : first[k] = parts[k]
  OBVIOUS
<1>2. /\ rest \in Seq(S) /\ Len(rest) = Len(parts) - i
      /\ \A k \in 1..(Len(parts) - i) : rest[k] = parts[i + k]
  OBVIOUS
<1> HIDE DEF first, rest
<1>3. Piece(first, n, all)
  <2>1. n + i <= Len(all) /\ \A k \in 1..i : k \in 1..Len(parts)
    BY DEF Piece
  <2>2. \A k \in 1..i : first[k] = all[n + k]
    BY <1>1, <2>1 DEF Piece
  <2> QED BY <1>1, <2>1, <2>2 DEF Piece
<1>4. Piece(rest, n + i, all)
  <2>1. /\ i \in Nat /\ Len(parts) \in Nat /\ Len(all) \in Nat
        /\ n + Len(parts) <= Len(all)
    BY DEF Piece
  <2>2. (n + i) + Len(rest) <= Len(all)
    <3>1. (n + i) + (Len(parts) - i) = n + Len(parts)
      BY <2>1
    <3> QED BY <1>2, <2>1, <3>1
  <2>3. ASSUME NEW k \in 1..Len(rest) PROVE rest[k] = all[(n + i) + k]
    <3>1. k \in 1..(Len(parts) - i) /\ i + k \in 1..Len(parts) /\ n + (i + k) = (n + i) + k
      BY <1>2, <2>1
    <3>2. rest[k] = parts[i + k] /\ parts[i + k] = all[n + (i + k)]
      BY <1>2, <3>1 DEF Piece
    <3> QED BY <3>1, <3>2
  <2> QED BY <2>2, <2>3 DEF Piece
<1> QED BY <1>1, <1>2, <1>3, <1>4 DEF first, rest

LEMMA PieceJoin ==
    ASSUME NEW S, NEW all \in Seq(S), NEW first \in Seq(S), NEW second \in Seq(S),
           Piece(first, 0, all), Piece(second, Len(first), all)
    PROVE  /\ first \o second \in Seq(S) /\ Len(first \o second) = Len(first) + Len(second)
           /\ Piece(first \o second, 0, all)
<1> DEFINE both == first \o second
           m == Len(first)
<1>1. /\ both \in Seq(S) /\ Len(both) = m + Len(second) /\ m \in Nat /\ Len(second) \in Nat
      /\ \A k \in 1..m : both[k] = first[k]
      /\ \A k \in 1..Len(second) : both[m + k] = second[k]
  OBVIOUS
<1>2. \A k \in 1..(m + Len(second)) : k \in 1..m \/ (k - m \in 1..Len(second) /\ m + (k - m) = k)
  BY <1>1
<1> HIDE DEF both
<1>3. \A k \in 1..Len(both) : both[k] = all[k]
  <2> SUFFICES ASSUME NEW k \in 1..Len(both) PROVE both[k] = all[k]
    OBVIOUS
  <2>1. CASE k \in 1..m
    BY <1>1, <2>1 DEF Piece
  <2>2. CASE k - m \in 1..Len(second) /\ m + (k - m) = k
    <3>1. both[m + (k - m)] = second[k - m] /\ second[k - m] = all[m + (k - m)]
      BY <1>1, <2>2 DEF Piece
    <3> QED BY <2>2, <3>1
  <2> QED BY <1>1, <1>2, <2>1, <2>2
<1>4. Len(both) <= Len(all)
  BY <1>1 DEF Piece
<1>5. Piece(both, 0, all)
  BY <1>3, <1>4, <1>1 DEF Piece
<1> QED BY <1>1, <1>5 DEF both

LEMMA PieceNone ==
    ASSUME NEW S, NEW all \in Seq(S), NEW n \in Nat, n <= Len(all) PROVE Piece(<<>>, n, all)
BY DEF Piece

\* What a host owes for a chunk.
LEMMA OwesAre ==
    ASSUME chunk \in [from : Nat, to : Nat], chunk.from <= chunk.to
    PROVE  Owes \in Seq(Answer)
<1> DEFINE n == AnswerParts
           m == n * (Len(Parts) \div 2)
           r == RequestOf(chunk.from)
<1>1. n \in Nat /\ n > 0 /\ Len(Parts) \in Nat
  BY PartsAre, RequestsAssumption
<1>2. m \in Nat
  <2>1. Len(Parts) \div 2 \in Nat
    BY <1>1
  <2> QED BY <1>1, <2>1
<1>3. r \in Int
  BY DEF RequestOf
<1> HIDE DEF m, r
<1>4. ASSUME NEW k \in 1..m PROVE <<r + ((k - 1) \div n), 1 + ((k - 1) % n)>> \in Answer
  <2>1. k - 1 \in Int /\ n \in Int /\ n > 0
    BY <1>1, <1>2
  <2>2. (k - 1) \div n \in Int /\ (k - 1) % n \in Int
    BY <2>1
  <2> QED BY <1>3, <2>2 DEF Answer
<1>5. Owes = [k \in 1..m |-> <<r + ((k - 1) \div n), 1 + ((k - 1) % n)>>]
  BY DEF Owes, m, r
<1>6. Owes \in [1..m -> Answer]
  BY <1>4, <1>5
<1> QED BY <1>2, <1>6

-----------------------------------------------------------------------------
(* Answers.                                                                *)

\* reply is an answer on its way to the client.
Coming == ~IsConnect /\ (pc = "writing" \/ (pc = "waiting" /\ spc = "replying"))

\* The connections to server and host may still be used: nothing is lost yet.
Usable ==
    /\ link # "stale"
    /\ \/ pc \in {"idle", "handshake", "reading", "handling", "asking"}
       \/ pc \in {"waiting", "writing"} /\ ~IsConnect /\ (spc = "replying" => reply # <<>>)

\* What hosts have sent is what the client has got, the answer that is on its
\* way and what waits for the server, in this order, as long as nothing is lost.
AnswersInv ==
    /\ produced \in Seq(Answer) /\ got \in Seq(Answer) /\ reply \in Seq(Answer)
    /\ inbox \in Seq(Answer) /\ owed \in Seq(Answer)
    /\ target.state = "none" => inbox = <<>>
    /\ Piece(got, 0, produced)
    /\ Coming => Piece(reply, Len(got), produced)
    /\ Usable /\ ~Coming => /\ Piece(inbox, Len(got), produced)
                           /\ Len(got) + Len(inbox) = Len(produced)
    /\ Usable /\ Coming => /\ Piece(inbox, Len(got) + Len(reply), produced)
                          /\ Len(got) + Len(reply) + Len(inbox) = Len(produced)

LEMMA AnswersInitOK == Init => AnswersInv
<1> SUFFICES ASSUME Init PROVE AnswersInv
  OBVIOUS
<1>1. /\ produced = <<>> /\ got = <<>> /\ reply = <<>> /\ inbox = <<>> /\ owed = <<>>
      /\ pc = "idle"
  BY DEF Init
<1>2. <<>> \in Seq(Answer) /\ Len(<<>>) = 0
  OBVIOUS
<1>3. Piece(<<>>, 0, <<>>)
  BY <1>2 DEF Piece
<1>4. ~Coming
  BY <1>1 DEF Coming
<1> QED BY <1>1, <1>2, <1>3, <1>4 DEF AnswersInv

\* Steps that leave the answers where they are.
LEMMA AnswersKept ==
    ASSUME AnswersInv, UNCHANGED <<produced, got, reply, inbox, owed>>,
           target'.state = "none" => target.state = "none",
           Coming' => Coming, Usable' => Usable, Usable' /\ Coming => Coming'
    PROVE  AnswersInv'
BY DEF AnswersInv

LEMMA ClientAnswers == ASSUME ControlInv, OrderInv, AnswersInv, Client PROVE AnswersInv'
<1>1. UNCHANGED <<produced, got, reply, inbox, owed, target, pc, spc, chunk, link>>
  BY DEF Client, agent_vars, host_vars
<1>2. pc \in {"waiting", "writing"} => IsConnect' = IsConnect
  BY SameCurrent DEF OrderInv, Holding
<1>3. Coming' = Coming /\ Usable' = Usable
  BY <1>1, <1>2 DEF Coming, Usable
<1> QED BY <1>1, <1>3, AnswersKept

LEMMA AgentReadsAnswers == ASSUME ControlInv, AnswersInv, AgentReads PROVE AnswersInv'
<1>1. UNCHANGED <<produced, got, reply, inbox, owed, target, spc>>
  BY DEF AgentReads, host_vars
<1>2. /\ pc \in {"idle", "reading", "handshake"}
      /\ pc' \in {"handling", "reading", "handshake", "closed"}
      /\ \/ link' = link
         \/ link' = "none" /\ pc' = "closed"
  BY DEF AgentReads, FirstRead, ReadsRest, ReadsEnd, FirstBytes, HandshakeReads,
         HandshakeRejects, HandshakeCut, IdleEnds, Close, Holds, Goto
<1>3. ~Coming /\ ~Coming' /\ (Usable' => Usable)
  BY <1>2 DEF Coming, Usable
<1> QED BY <1>1, <1>3, AnswersKept

LEMMA AgentAsksAnswers ==
    ASSUME ControlInv, IntactInv, AnswersInv, AgentAsks PROVE AnswersInv'
<1>1. UNCHANGED <<produced, got, reply, requests, chunk>>
  BY DEF AgentAsks, Unparsable, DialServer, Ask, RequestFails, KeepHistory, host_vars,
         client_vars
<1>2. spc \in Serving => (pc = "waiting" /\ link = "open") \/ pc = "closed"
  BY DEF ControlInv, AgentInv
<1>3. CASE DialServer /\ link = "none" /\ pc' # "closed"
  <2>1. /\ pc = "handling" /\ pc' = "asking" /\ target.state = "none"
        /\ owed' = <<>> /\ inbox' = <<>>
    BY <1>3 DEF DialServer, Drop, Goto, Close, IntactInv
  <2>2. inbox = <<>> /\ Usable /\ ~Coming /\ ~Coming'
    BY <1>3, <2>1 DEF AnswersInv, Usable, Coming
  <2>3. <<>> \in Seq(Answer)
    OBVIOUS
  <2> QED BY <1>1, <2>1, <2>2, <2>3 DEF AnswersInv
<1>4. CASE (Ask /\ link = "open") \/ (DialServer /\ link # "none")
  <2>1. /\ pc \in {"handling", "asking"} /\ pc' \in {"asking", "waiting"}
        /\ UNCHANGED <<link, target, inbox, owed>>
        /\ spc' = "asked" \/ pc' = "asking"
    BY <1>4 DEF Ask, DialServer, Goto, host_vars
  <2>2. ~Coming /\ ~Coming' /\ (Usable' => Usable)
    BY <2>1 DEF Coming, Usable
  <2> QED BY <1>1, <2>1, <2>2, AnswersKept
<1>5. CASE pc' = "closed"
  <2>1. UNCHANGED <<target, inbox, owed>>
    BY <1>5 DEF AgentAsks, Unparsable, DialServer, Ask, RequestFails, Goto, host_vars
  <2>2. ~Coming' /\ ~Usable'
    BY <1>5 DEF Coming, Usable
  <2> QED BY <1>1, <2>1, <2>2, AnswersKept
<1>6. Unparsable \/ RequestFails \/ (Ask /\ link # "open") => pc' = "closed"
  BY DEF Unparsable, RequestFails, Ask, Close, Goto
<1> QED BY <1>3, <1>4, <1>5, <1>6 DEF AgentAsks

LEMMA AgentWritesAnswers == ASSUME ControlInv, AnswersInv, AgentWrites PROVE AnswersInv'
<1>1. UNCHANGED <<produced, reply, inbox, owed, target, spc>>
  BY DEF AgentWrites, host_vars
<1>2. pc = "writing" /\ spc # "replying"
  BY DEF AgentWrites, WriteDone, WriteFails, ControlInv, AgentInv, Serving
<1>3. CASE pc' \in {"tunnel", "closed"}
  <2>1. got' = got
    BY <1>3 DEF AgentWrites, WriteDone, WriteFails, Goto
  <2>2. ~Coming' /\ ~Usable'
    BY <1>3 DEF Coming, Usable
  <2> QED BY <1>1, <2>1, <2>2, AnswersKept
<1>4. CASE pc' = "idle"
  <2>1. ~IsConnect /\ got' = got \o reply /\ link' = link
    BY <1>4 DEF AgentWrites, WriteDone, WriteFails, Close, Goto
  <2>2. Coming /\ ~Coming' /\ (Usable' => Usable)
    BY <1>1, <1>2, <1>4, <2>1 DEF Coming, Usable
  <2>3. /\ got \o reply \in Seq(Answer) /\ Len(got \o reply) = Len(got) + Len(reply)
        /\ Piece(got \o reply, 0, produced)
    BY <2>2, PieceJoin DEF AnswersInv
  <2>4. got' \in Seq(Answer) /\ Len(got') = Len(got) + Len(reply) /\ Piece(got', 0, produced)
    BY <2>1, <2>3
  <2> QED BY <1>1, <2>2, <2>4 DEF AnswersInv
<1> QED BY <1>3, <1>4 DEF AgentWrites, WriteDone, WriteFails, Close, Goto

LEMMA ServerAnswers == ASSUME ControlInv, OrderInv, AnswersInv, Server PROVE AnswersInv'
<1>1. /\ UNCHANGED <<pc, chunk, link, requests, got, produced>>
      /\ IsConnect' = IsConnect
  BY DEF Server, agent_vars, client_vars, IsConnect, Current, RequestOf, DialHost, DialFails,
         DialedBefore, PassOn, ReadAnswer, AnswerMissing, KeepHistory, host_vars
<1>2. /\ (pc = "waiting" /\ link = "open") \/ pc = "closed"
      /\ spc \in Serving
  BY DEF ControlInv, AgentInv, Serving, Server, DialHost, DialFails, DialedBefore, PassOn,
         ReadAnswer, AnswerMissing
<1>3. <<>> \in Seq(Answer) /\ <<Granted>> \in Seq(Answer) /\ <<Refusal>> \in Seq(Answer)
  BY DEF Granted, Refusal, Answer
<1>4. Piece(<<>>, Len(got), produced)
  BY PieceNone DEF AnswersInv, Piece
<1>5. CASE DialHost
  <2>1. /\ spc = "asked" /\ owed' = <<>> /\ inbox' = <<>> /\ target'.state = "open"
    BY <1>5 DEF DialHost
  <2>2. CASE IsConnect
    <3>1. reply' = <<Granted>>
      BY <1>5, <2>2 DEF DialHost, Replies
    <3>2. ~Coming' /\ ~Usable'
      BY <1>1, <1>2, <2>2 DEF Coming, Usable
    <3> QED BY <1>1, <1>3, <2>1, <3>1, <3>2 DEF AnswersInv
  <2>3. CASE ~IsConnect
    <3>1. reply' = reply /\ spc' = "dialled" /\ target.state = "none"
      BY <1>5, <2>3 DEF DialHost, MustDial
    <3>2. ~Coming /\ ~Coming' /\ (Usable' => Usable) /\ inbox = <<>>
      BY <1>1, <1>2, <2>1, <3>1 DEF Coming, Usable, AnswersInv
    <3> QED BY <1>1, <1>3, <2>1, <3>1, <3>2 DEF AnswersInv
  <2> QED BY <2>2, <2>3
<1>6. CASE DialFails
  <2>1. /\ spc' = "replying" /\ UNCHANGED <<target, inbox, owed>>
        /\ \/ IsConnect /\ reply' = <<Refusal>>
           \/ reply' = <<>>
    BY <1>6 DEF DialFails, Replies, host_vars
  <2>2. ~Usable' /\ (Coming' => reply' = <<>>)
    BY <1>1, <1>2, <2>1 DEF Coming, Usable
  <2> QED BY <1>1, <1>3, <1>4, <2>1, <2>2 DEF AnswersInv
<1>7. CASE DialedBefore
  <2>1. spc = "asked" /\ UNCHANGED <<target, inbox, owed>>
    BY <1>7 DEF DialedBefore
  <2>2. CASE IsConnect
    <3>1. reply' = <<Granted>>
      BY <1>7, <2>2 DEF DialedBefore, Replies
    <3>2. ~Coming' /\ ~Usable'
      BY <1>1, <1>2, <2>2 DEF Coming, Usable
    <3> QED BY <1>1, <1>3, <2>1, <3>1, <3>2 DEF AnswersInv
  <2>3. CASE ~IsConnect
    <3>1. reply' = reply /\ spc' = "dialled"
      BY <1>7, <2>3 DEF DialedBefore
    <3>2. ~Coming /\ ~Coming' /\ (Usable' => Usable)
      BY <1>1, <1>2, <2>1, <3>1 DEF Coming, Usable
    <3> QED BY <1>1, <2>1, <3>1, <3>2, AnswersKept
  <2> QED BY <2>2, <2>3
<1>8. CASE PassOn
  <2>1. /\ spc = "dialled" /\ spc' = "waiting" /\ UNCHANGED <<target, inbox, reply>>
        /\ owed' = owed \/ owed' = owed \o Owes
    BY <1>8 DEF PassOn
  <2>2. owed' \in Seq(Answer)
    <3>1. Owes \in Seq(Answer)
      BY <1>2, OwesAre DEF OrderInv, ControlInv, AgentInv
    <3>2. owed \in Seq(Answer)
      BY DEF AnswersInv
    <3>3. \A more \in Seq(Answer) : owed \o more \in Seq(Answer)
      BY <3>2
    <3> QED BY <2>1, <3>1, <3>2, <3>3
  <2>3. ~Coming /\ ~Coming' /\ (Usable' => Usable)
    BY <1>1, <1>2, <2>1 DEF Coming, Usable
  <2> QED BY <1>1, <2>1, <2>2, <2>3 DEF AnswersInv
<1>9. CASE ReadAnswer
  <2> PICK n \in 1..Len(inbox) :
          /\ spc = "waiting" /\ spc' = "replying"
          /\ reply' = SubSeq(inbox, 1, n) /\ inbox' = SubSeq(inbox, n + 1, Len(inbox))
          /\ UNCHANGED <<target, owed>>
    BY <1>9 DEF ReadAnswer, Replies
  <2>1. /\ reply' \in Seq(Answer) /\ Len(reply') = n /\ inbox' \in Seq(Answer)
        /\ target.state # "none"
    <3>1. inbox \in Seq(Answer) /\ Len(inbox) \in Nat /\ inbox # <<>>
      BY DEF AnswersInv
    <3>2. /\ SubSeq(inbox, 1, n) \in Seq(Answer) /\ Len(SubSeq(inbox, 1, n)) = n
          /\ SubSeq(inbox, n + 1, Len(inbox)) \in Seq(Answer)
      BY <3>1
    <3> QED BY <3>1, <3>2 DEF AnswersInv
  <2>2. CASE pc = "closed" \/ IsConnect
    <3>1. ~Coming' /\ ~Usable'
      BY <1>1, <1>2, <2>2 DEF Coming, Usable
    <3> QED BY <1>1, <2>1, <3>1 DEF AnswersInv
  <2>3. CASE pc = "waiting" /\ link = "open" /\ ~IsConnect
    <3>1. ~Coming /\ Usable /\ Coming'
      BY <1>1, <2>3 DEF Coming, Usable
    <3>2. /\ Piece(inbox, Len(got), produced) /\ Len(got) + Len(inbox) = Len(produced)
          /\ inbox \in Seq(Answer) /\ produced \in Seq(Answer)
          /\ Len(got) \in Nat /\ Len(inbox) \in Nat
      BY <3>1 DEF AnswersInv
    <3>3. /\ Piece(reply', Len(got), produced) /\ Piece(inbox', Len(got) + n, produced)
          /\ Len(inbox') = Len(inbox) - n
      BY <3>2, PieceSplit
    <3>4. Len(got) + Len(reply') + Len(inbox') = Len(produced)
      <4>1. \A g, i \in Nat : g + n + (i - n) = g + i
        OBVIOUS
      <4>2. Len(got) + n + (Len(inbox) - n) = Len(got) + Len(inbox)
        BY <3>2, <4>1
      <4> QED BY <2>1, <3>2, <3>3, <4>2
    <3> QED BY <1>1, <2>1, <3>1, <3>3, <3>4 DEF AnswersInv
  <2> QED BY <1>2, <2>2, <2>3
<1>10. CASE AnswerMissing
  <2>1. spc' = "replying" /\ reply' = <<>> /\ inbox' = <<>> /\ owed' = <<>>
    BY <1>10 DEF AnswerMissing, Replies, Drop
  <2>2. ~Usable'
    BY <1>1, <1>2, <2>1 DEF Usable
  <2> QED BY <1>1, <1>3, <1>4, <2>1, <2>2 DEF AnswersInv
<1> QED BY <1>5, <1>6, <1>7, <1>8, <1>9, <1>10 DEF Server

LEMMA ExchangeAnswers ==
    ASSUME ControlInv, IntactInv, AnswersInv, Exchange PROVE AnswersInv'
<1>1. /\ UNCHANGED <<chunk, reply, requests, produced, got>>
      /\ IsConnect' = IsConnect
  BY DEF Exchange, Respond, ServerEnds, KeepHistory, client_vars, IsConnect, Current, RequestOf
<1>2. /\ spc \in Serving => (pc = "waiting" /\ link = "open") \/ pc = "closed"
      /\ pc = "closed" => link = "none"
  BY DEF ControlInv, AgentInv
<1>3. \/ UNCHANGED <<target, owed, inbox>>
      \/ owed' = <<>> /\ inbox' = <<>>
  BY DEF Exchange, Respond, ServerEnds, Drop
<1>4. <<>> \in Seq(Answer)
  OBVIOUS
<1>5. CASE ~Usable' /\ (Coming' => Coming)
  BY <1>1, <1>3, <1>4, <1>5 DEF AnswersInv
<1>6. CASE Respond
  <2>1. spc = "replying" /\ spc' \in {"idle", "tunnel", "closed"}
    BY <1>6 DEF Respond
  <2>2. CASE pc' = "closed"
    <3>1. ~Usable' /\ ~Coming'
      BY <2>2 DEF Usable, Coming
    <3> QED BY <1>5, <3>1
  <2>3. CASE pc' # "closed"
    <3>1. pc = "waiting" /\ link = "open" /\ reply # <<>> /\ pc' = "writing"
      BY <1>2, <1>6, <2>1, <2>3 DEF Respond, AgentTakes, Close, Goto, Serving
    <3>2. Coming' = Coming /\ (~IsConnect => Usable)
      BY <1>1, <2>1, <3>1 DEF Coming, Usable
    <3>3. CASE spc' = "closed"
      <4>1. link' = "stale"
        BY <1>6, <3>1, <3>3 DEF Respond, AgentTakes, Close, Goto
      <4> QED BY <1>5, <3>2, <4>1 DEF Usable
    <3>4. CASE spc' # "closed"
      <4>1. UNCHANGED <<target, owed, inbox>>
        BY <1>6, <3>4 DEF Respond
      <4>2. Usable' => Usable
        BY <1>1, <3>1, <3>2 DEF Usable
      <4> QED BY <1>1, <3>2, <4>1, <4>2, AnswersKept
    <3> QED BY <3>3, <3>4
  <2> QED BY <2>2, <2>3
<1>7. CASE ServerEnds
  <2>1. /\ spc = "idle" /\ spc' = "closed" /\ pc' = pc
        /\ link' = IF link = "open" THEN "stale" ELSE link
    BY <1>7 DEF ServerEnds
  <2>2. Coming' => Coming
    BY <1>1, <2>1 DEF Coming
  <2>3. ~Usable'
    BY <2>1 DEF Usable, IntactInv
  <2> QED BY <1>5, <2>2, <2>3
<1> QED BY <1>6, <1>7 DEF Exchange

LEMMA HostAnswersOK == ASSUME ControlInv, AnswersInv, Host PROVE AnswersInv'
<1>1. /\ UNCHANGED <<chunk, reply, requests, got, pc, spc, link>>
      /\ IsConnect' = IsConnect
  BY DEF Host, agent_vars, client_vars, IsConnect, Current, RequestOf
<1>2. Coming' = Coming /\ Usable' = Usable
  BY <1>1 DEF Coming, Usable
<1>3. CASE HostAnswers
  <2> DEFINE x == Head(owed)
  <2>1. /\ inbox' = Append(inbox, x) /\ produced' = Append(produced, x) /\ x \in Answer
        /\ owed' \in Seq(Answer) /\ target' = target /\ target.state = "open"
    BY <1>3 DEF HostAnswers, AnswersInv
  <2> HIDE DEF x
  <2>2. produced' \in Seq(Answer) /\ inbox' \in Seq(Answer)
    BY <2>1 DEF AnswersInv
  <2>3. /\ Piece(got, 0, produced')
        /\ Coming => Piece(reply, Len(got), produced')
    BY <2>1, PieceKept DEF AnswersInv
  <2>4. ASSUME NEW n \in Nat, Piece(inbox, n, produced), n + Len(inbox) = Len(produced)
        PROVE  Piece(inbox', n, produced') /\ n + Len(inbox') = Len(produced')
    BY <2>1, <2>4, PieceGrows DEF AnswersInv
  <2>5. Len(got) \in Nat /\ Len(got) + Len(reply) \in Nat
    BY DEF AnswersInv
  <2>6. Usable /\ ~Coming => /\ Piece(inbox', Len(got), produced')
                            /\ Len(got) + Len(inbox') = Len(produced')
    BY <2>4, <2>5 DEF AnswersInv
  <2>7. Usable /\ Coming => /\ Piece(inbox', Len(got) + Len(reply), produced')
                           /\ Len(got) + Len(reply) + Len(inbox') = Len(produced')
    BY <2>4, <2>5 DEF AnswersInv
  <2> QED BY <1>1, <1>2, <2>1, <2>2, <2>3, <2>6, <2>7 DEF AnswersInv
<1>4. CASE HostEnds
  <2>1. /\ UNCHANGED <<inbox, produced>> /\ owed' = <<>> /\ target'.state = "ended"
    BY <1>4 DEF HostEnds, ControlInv, AgentInv
  <2>2. <<>> \in Seq(Answer)
    OBVIOUS
  <2> QED BY <1>1, <1>2, <2>1, <2>2 DEF AnswersInv
<1> QED BY <1>3, <1>4 DEF Host

LEMMA AnswersStepOK ==
    ASSUME ControlInv, OrderInv, ~late => IntactInv, ~late => AnswersInv, [Next]_vars
    PROVE  ~late' => AnswersInv'
<1>1. CASE UNCHANGED vars
  <2>1. UNCHANGED <<produced, got, reply, inbox, owed, target, pc, spc, chunk, link, requests,
                    late>>
    BY <1>1 DEF vars, agent_vars, host_vars, client_vars
  <2>2. IsConnect' = IsConnect
    BY <2>1 DEF IsConnect, Current, RequestOf
  <2>3. Coming' = Coming /\ Usable' = Usable
    BY <2>1, <2>2 DEF Coming, Usable
  <2> QED BY <2>1, <2>3, AnswersKept
<1>2. CASE LateTimer
  BY <1>2 DEF LateTimer
<1>3. CASE Client \/ AgentReads \/ AgentAsks \/ AgentWrites \/ Server \/ Exchange \/ Host
  <2>1. late' = late
    BY <1>3 DEF Client, AgentReads, AgentAsks, AgentWrites, Server, Exchange, Host
  <2> QED BY <1>3, <2>1, ClientAnswers, AgentReadsAnswers, AgentAsksAnswers,
             AgentWritesAnswers, ServerAnswers, ExchangeAnswers, HostAnswersOK
<1> QED BY <1>1, <1>2, <1>3 DEF Next

\* While no timer handler is late, the client gets what hosts have sent from the
\* first part on without a gap: ServerHandler reads an answer once and leaves
\* the rest to the next request, and behind a loss the connection ends.
THEOREM AnswersAlwaysInOrder == Spec => []AnswersInOrder
<1> DEFINE Inv == OrderInv /\ (~late => IntactInv) /\ (~late => AnswersInv)
<1>1. Init => Inv
  BY OrderInitOK, IntactInitOK, AnswersInitOK
<1>2. ControlInv /\ TargetInv /\ Inv /\ [Next]_vars => Inv'
  BY OrderStepOK, IntactStepOK, AnswersStepOK
<1>3. Inv => AnswersInOrder
  <2> SUFFICES ASSUME AnswersInv
               PROVE  Len(got) <= Len(produced) /\ \A k \in DOMAIN got : got[k] = produced[k]
    BY DEF AnswersInOrder
  <2>1. got \in Seq(Answer) /\ Len(got) \in Nat /\ Piece(got, 0, produced)
        /\ Len(produced) \in Nat
    BY DEF AnswersInv
  <2> QED BY <2>1 DEF Piece
<1>4. Spec => []TargetInv
  BY TargetInitOK, TargetStepOK, ControlInvariant, PTL DEF Spec
<1> HIDE DEF Inv
<1> QED BY <1>1, <1>2, <1>3, <1>4, ControlInvariant, PTL DEF Spec
===============================================================================
