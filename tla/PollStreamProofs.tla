--------------------------- MODULE PollStreamProofs ---------------------------
(***************************************************************************)
(* What a polled tunnel carries.                                           *)
(*                                                                         *)
(* While nothing but idle connections is cut (Quiet), one handler at most  *)
(* works for the tunnel and the strand waits for it (RelayInv).  Every     *)
(* step is then one of a short list (TunnelSteps), over which the two      *)
(* directions are proved intact, a closed tunnel is shown to leave no      *)
(* session, and the tunnel to implement the pipes of TunnelStream.  The    *)
(* last two parts are about every fault: the order of what the client      *)
(* receives, and how often a chunk can reach the target.                   *)
(***************************************************************************)
EXTENDS PollGrantProofs, FiniteSetTheorems, SequenceTheorems

-----------------------------------------------------------------------------
(* What a handler and its connection look like, whatever fails.            *)

\* A handler's step goes with the request it holds.
StepActs ==
    \A c \in Conns :
        /\ step[c] = "connect" => held[c].act = "open"
        /\ step[c] \in {"write", "torn"} => held[c].act = "send"
        /\ step[c] = "read" => held[c].act = "recv"

\* A socket to the target is used only while the session has it.
SessionHeld == target \in {"open", "hungup"} => session

\* The server closes a connection only when nothing is left to handle on it.
ClosedIdle == \A c \in Conns \ srvOpen : reqs[c] = <<>> /\ ~Serving(c)

HandlerInv == StepActs /\ SessionHeld /\ ClosedIdle

LEMMA LenOne ==
    ASSUME NEW S, NEW q \in Seq(S), q # <<>>, Len(q) <= 1
    PROVE  Tail(q) = <<>> /\ q[1] = Head(q) /\ DOMAIN q = {1}
<1>1. Len(q) \in Nat /\ Len(q) # 0
  BY EmptySeq, LenProperties
<1>2. Len(q) = 1
  BY <1>1
<1>3. Tail(q) \in Seq(S) /\ Len(Tail(q)) = 0 /\ Head(q) = q[1]
  BY <1>2, HeadTailProperties
<1>4. Tail(q) = <<>>
  BY <1>3, EmptySeq
<1>5. DOMAIN q = 1..1
  BY <1>2, LenProperties
<1> QED BY <1>3, <1>4, <1>5

\* A connection is in one place: it has a request, a handler at work, a
\* response, or nothing.
LEMMA OnePlace ==
    ASSUME TypeInv, ExchangeInv, NEW c \in Conns
    PROVE  /\ reqs[c] # <<>> => /\ resps[c] = <<>> /\ ~Serving(c) /\ Tail(reqs[c]) = <<>>
                                /\ reqs[c][1] = Head(reqs[c]) /\ 1 \in DOMAIN reqs[c]
           /\ Serving(c) => reqs[c] = <<>> /\ resps[c] = <<>>
           /\ resps[c] # <<>> => /\ reqs[c] = <<>> /\ ~Serving(c) /\ Tail(resps[c]) = <<>>
                                 /\ resps[c][1] = Head(resps[c]) /\ 1 \in DOMAIN resps[c]
<1>1. InFlight(c) <= 1
  BY DEF ExchangeInv, OneExchange
<1>2. reqs[c] \in Seq(Request) /\ resps[c] \in Seq(Response)
  BY DEF TypeInv, TypeOK, ServerTypeOK
<1> DEFINE m == Len(reqs[c])
           n == Len(resps[c])
<1>3. m \in Nat /\ n \in Nat
  BY <1>2, LenProperties
<1>4. (m = 0 => reqs[c] = <<>>) /\ (n = 0 => resps[c] = <<>>)
  BY <1>2, EmptySeq
<1>5. (Serving(c) => m + n + 1 <= 1) /\ (~Serving(c) => m + n + 0 <= 1)
  BY <1>1, InFlightParts
<1>6. (reqs[c] = <<>> => m = 0) /\ (resps[c] = <<>> => n = 0)
  OBVIOUS
<1> HIDE DEF m, n
<1>7. (Serving(c) => m = 0 /\ n = 0) /\ (m # 0 => n = 0 /\ m <= 1) /\ (n # 0 => m = 0 /\ n <= 1)
  BY <1>3, <1>5
<1>8. reqs[c] # <<>> => Tail(reqs[c]) = <<>> /\ reqs[c][1] = Head(reqs[c]) /\ DOMAIN reqs[c] = {1}
  BY <1>2, <1>4, <1>7, LenOne DEF m
<1>9. resps[c] # <<>> =>
        Tail(resps[c]) = <<>> /\ resps[c][1] = Head(resps[c]) /\ DOMAIN resps[c] = {1}
  BY <1>2, <1>4, <1>7, LenOne DEF n
<1> QED BY <1>4, <1>6, <1>7, <1>8, <1>9

\* What each group of handlers does with its connection.
Takes(c, s) ==
    /\ step'[c] = s /\ s # "idle" /\ held'[c] = Head(reqs[c])
    /\ reqs[c] # <<>> /\ step[c] = "idle" /\ c \in srvOpen
    /\ \A d \in Conns \ {c} : held'[d] = held[d] /\ reqs'[d] = reqs[d]
    /\ UNCHANGED <<srvOpen, resps, session, target, produced, taken, targetGot>>

Ends(c, q) ==
    /\ step'[c] = "idle" /\ reqs'[c] = <<>>
    /\ \A d \in Conns \ {c} : step'[d] = step[d] /\ held'[d] = held[d] /\ reqs'[d] = reqs[d]
    /\ \E ok, data : Respond(c, q, ok, data)

LEMMA BeginTakes ==
    ASSUME TypeInv, NEW c \in Conns, NEW act, Asked(c, act), NEW s \in Steps \ {"idle"},
           Begin(c, s), UNCHANGED session_vars
    PROVE  Takes(c, s) /\ \A d \in Conns \ {c} : step'[d] = step[d]
BY DEF Begin, Asked, Takes, TypeInv, TypeOK, ServerTypeOK, session_vars

LEMMA FinishEnds ==
    ASSUME TypeInv, ExchangeInv, NEW c \in Conns, Serving(c), NEW ok, NEW data, Finish(c, ok, data)
    PROVE  Ends(c, held[c])
<1>1. reqs[c] = <<>>
  BY OnePlace
<1> QED BY <1>1 DEF Finish, Ends, TypeInv, TypeOK, ServerTypeOK

LEMMA NowEnds ==
    ASSUME TypeInv, ExchangeInv, NEW c \in Conns, NEW act, Asked(c, act),
           NEW data, RespondNow(c, data)
    PROVE  Ends(c, Head(reqs[c])) /\ UNCHANGED <<step, held>>
<1>1. Tail(reqs[c]) = <<>> /\ step[c] = "idle"
  BY OnePlace DEF Asked
<1> QED BY <1>1 DEF RespondNow, Ends, TypeInv, TypeOK, ServerTypeOK

\* The server's steps by what they do: a handler takes its request on, ends,
\* or the target does something.
LEMMA HandlerDoes ==
    ASSUME TypeInv, ExchangeInv, NEW c \in Conns, Handler(c)
    PROVE  \/ HandleOpen(c) /\ Takes(c, "connect") /\ \A d \in Conns \ {c} : step'[d] = step[d]
           \/ HandleRecv(c) /\ Takes(c, "read") /\ \A d \in Conns \ {c} : step'[d] = step[d]
           \/ /\ HandleSend(c) /\ Takes(c, IF Writers = {} THEN "write" ELSE "torn")
              /\ \A d \in Conns \ {c} :
                    \/ step'[d] = step[d]
                    \/ d \in Writers /\ step'[d] = "torn"
           \/ /\ OpenTarget(c) \/ RefuseTarget(c) \/ WriteTarget(c) \/ ReadTarget(c)
              /\ Serving(c) /\ Ends(c, held[c])
           \/ /\ DropSend(c) \/ NothingToRead(c) \/ HandleClose(c)
              /\ Ends(c, Head(reqs[c])) /\ reqs[c] # <<>>
<1>1. CASE HandleOpen(c)
  BY <1>1, BeginTakes DEF HandleOpen, Steps
<1>2. CASE HandleRecv(c)
  BY <1>2, BeginTakes DEF HandleRecv, Steps
<1>3. CASE HandleSend(c)
  BY <1>3 DEF HandleSend, Asked, Takes, TypeInv, TypeOK, ServerTypeOK, Writers
<1>4. CASE OpenTarget(c) \/ RefuseTarget(c) \/ WriteTarget(c) \/ ReadTarget(c)
  <2>1. Serving(c)
    BY <1>4 DEF OpenTarget, RefuseTarget, WriteTarget, ReadTarget, Writers, Serving
  <2>2. \E ok, data : Finish(c, ok, data)
    BY <1>4 DEF OpenTarget, RefuseTarget, WriteTarget, ReadTarget
  <2> QED BY <1>4, <2>1, <2>2, FinishEnds
<1>5. CASE DropSend(c) \/ NothingToRead(c) \/ HandleClose(c)
  <2>1. (\E act : Asked(c, act)) /\ \E data : RespondNow(c, data)
    BY <1>5 DEF DropSend, NothingToRead, HandleClose
  <2> QED BY <1>5, <2>1, NowEnds DEF Asked
<1> QED BY <1>1, <1>2, <1>3, <1>4, <1>5 DEF Handler

\* The steps that leave the handlers and what they hold alone.
LEMMA OthersKeep ==
    ASSUME AgentStep \/ ConnStep \/ TargetSends \/ TargetHangsUp \/ UNCHANGED vars
    PROVE  UNCHANGED <<step, held, session>>
BY DEF AgentStep, PostStep, Connect, ConnectRefused, WriteRequest, ReadEof,
       ReadTimeout, ReadResponse, ReplyWritten, ReplyBroken, ReadClient,
       ClientLeaves, PollFires, WriteDone, WriteBroken, vars, server_vars, conn_vars,
       session_vars, ConnStep, IdleTimeout, LoseResponse, Reap, TargetSends, TargetHangsUp

LEMMA OthersUnmixed ==
    ASSUME AgentStep \/ ConnStep \/ UNCHANGED vars PROVE UNCHANGED mixed
BY DEF AgentStep, PostStep, Connect, ConnectRefused, WriteRequest, ReadEof,
       ReadTimeout, ReadResponse, ReplyWritten, ReplyBroken, ReadClient,
       ClientLeaves, PollFires, WriteDone, WriteBroken, vars, server_vars,
       session_vars, ConnStep, IdleTimeout, LoseResponse, Reap

LEMMA StepActsNext ==
    ASSUME TypeInv, ExchangeInv, StepActs, [Next]_vars PROVE StepActs'
<1>1. CASE AgentStep \/ ConnStep \/ TargetSends \/ TargetHangsUp \/ UNCHANGED vars
  BY <1>1, OthersKeep DEF StepActs
<1>2. ASSUME NEW c \in Conns, Handler(c) PROVE StepActs'
  <2>1. CASE HandleOpen(c) /\ Takes(c, "connect") /\ \A d \in Conns \ {c} : step'[d] = step[d]
    BY <2>1 DEF HandleOpen, Asked, Takes, StepActs
  <2>2. CASE HandleRecv(c) /\ Takes(c, "read") /\ \A d \in Conns \ {c} : step'[d] = step[d]
    BY <2>2 DEF HandleRecv, Asked, Takes, StepActs
  <2>3. CASE /\ HandleSend(c) /\ Takes(c, IF Writers = {} THEN "write" ELSE "torn")
             /\ \A d \in Conns \ {c} :
                   \/ step'[d] = step[d]
                   \/ d \in Writers /\ step'[d] = "torn"
    <3>1. held'[c].act = "send" /\ step'[c] \in {"write", "torn"}
      BY <2>3 DEF HandleSend, Asked, Takes
    <3>2. \A d \in Conns \ {c} : held'[d] = held[d] /\ (d \in Writers => held[d].act = "send")
      BY <2>3 DEF Takes, StepActs, Writers
    <3> QED BY <2>3, <3>1, <3>2 DEF StepActs
  <2>4. CASE Ends(c, held[c]) \/ Ends(c, Head(reqs[c]))
    BY <2>4 DEF Ends, StepActs
  <2> QED BY <1>2, <2>1, <2>2, <2>3, <2>4, HandlerDoes
<1> QED BY <1>1, <1>2 DEF Next, ServerStep, ServerNext

LEMMA SessionHeldNext ==
    ASSUME TypeInv, SessionHeld, [Next]_vars PROVE SessionHeld'
<1>1. CASE UNCHANGED <<session, target>>
  BY <1>1 DEF SessionHeld
<1>2. CASE AgentStep \/ ConnStep \/ UNCHANGED vars
  BY <1>1, <1>2 DEF AgentStep, PostStep, Connect, ConnectRefused, WriteRequest, ReadEof,
       ReadTimeout, ReadResponse, ReplyWritten, ReplyBroken, ReadClient,
       ClientLeaves, PollFires, WriteDone, WriteBroken, vars, server_vars,
       session_vars, ConnStep, IdleTimeout, LoseResponse, Reap
<1>3. CASE TargetSends \/ TargetHangsUp
  BY <1>3 DEF TargetSends, TargetHangsUp, SessionHeld
<1>4. ASSUME NEW c \in Conns, Handler(c) PROVE SessionHeld'
  <2>1. CASE OpenTarget(c) \/ WriteTarget(c) \/ ReadTarget(c)
    BY <2>1 DEF OpenTarget, WriteTarget, ReadTarget, SessionHeld
  <2>2. CASE HandleClose(c)
    BY <2>2 DEF HandleClose, SessionHeld
  <2> QED BY <1>1, <1>4, <2>1, <2>2 DEF Handler, HandleOpen, RefuseTarget, DropSend,
                HandleSend, NothingToRead, HandleRecv, session_vars
<1> QED BY <1>2, <1>3, <1>4 DEF Next, ServerStep, ServerNext

LEMMA ClosedIdleNext ==
    ASSUME TypeInv, ExchangeInv, ClosedIdle, [Next]_vars PROVE ClosedIdle'
<1>0. /\ reqs \in [Conns -> Seq(Request)] /\ srvOpen \subseteq Conns
      /\ step \in [Conns -> Steps] /\ link \in Conns \cup {NoLink}
  BY DEF TypeInv, TypeOK, ServerTypeOK, AgentTypeOK
<1>1. CASE UNCHANGED <<srvOpen, reqs, step>>
  BY <1>1 DEF ClosedIdle, Serving
<1>2. CASE Connect
  BY <1>2 DEF Connect, ClosedIdle, Serving
<1>3. CASE WriteRequest
  BY <1>0, <1>3 DEF WriteRequest, ClosedIdle, Serving
<1>4. CASE AgentStep \/ TargetSends \/ TargetHangsUp \/ UNCHANGED vars
  BY <1>1, <1>2, <1>3, <1>4
     DEF AgentStep, PostStep, ConnectRefused, ReadEof,
         ReadTimeout, ReadResponse, ReplyWritten, ReplyBroken, ReadClient,
         ClientLeaves, PollFires, WriteDone, WriteBroken, vars, server_vars, conn_vars,
         TargetSends, TargetHangsUp
<1>5. ASSUME NEW c \in Conns, IdleTimeout(c) \/ Reap(c) PROVE ClosedIdle'
  BY <1>0, <1>5 DEF IdleTimeout, Reap, ClosedIdle, Serving
<1>6. ASSUME NEW c \in Conns, LoseResponse(c) PROVE ClosedIdle'
  <2>1. reqs[c] = <<>> /\ ~Serving(c)
    BY <1>6, OnePlace DEF LoseResponse
  <2> QED BY <1>6, <2>1 DEF LoseResponse, ClosedIdle, Serving
<1>7. ASSUME NEW c \in Conns, Handler(c) PROVE ClosedIdle'
  <2>1. ASSUME NEW s, Takes(c, s), \A d \in Conns \ srvOpen : d # c => step'[d] = step[d]
        PROVE  ClosedIdle'
    BY <2>1 DEF Takes, ClosedIdle, Serving
  <2>2. CASE HandleOpen(c) \/ HandleRecv(c)
    BY <1>7, <2>1, <2>2, BeginTakes DEF HandleOpen, HandleRecv, Steps
  <2>3. CASE HandleSend(c)
    <3>1. Takes(c, IF Writers = {} THEN "write" ELSE "torn")
      BY <2>3 DEF HandleSend, Asked, Takes, TypeInv, TypeOK, ServerTypeOK, Writers
    <3>2. \A d \in Conns \ srvOpen : d \notin Writers
      BY DEF ClosedIdle, Serving, Writers
    <3>3. \A d \in Conns \ srvOpen : d # c => step'[d] = step[d]
      BY <2>3, <3>2 DEF HandleSend
    <3> QED BY <2>1, <3>1, <3>3
  <2>4. ASSUME NEW q, Ends(c, q) PROVE ClosedIdle'
    <3>1. srvOpen' = srvOpen \/ srvOpen' = srvOpen \ {c}
      BY <2>4 DEF Ends, Respond
    <3> QED BY <2>4, <3>1 DEF Ends, ClosedIdle, Serving
  <2> QED BY <1>7, <2>2, <2>3, <2>4, HandlerDoes
<1> QED BY <1>4, <1>5, <1>6, <1>7 DEF Next, ServerStep, ServerNext, ConnStep

LEMMA HandlerStart == Init => HandlerInv
BY DEF Init, ServerInit, HandlerInv, StepActs, SessionHeld, ClosedIdle, Serving

LEMMA HandlerNext ==
    ASSUME TypeInv, ExchangeInv, HandlerInv, [Next]_vars PROVE HandlerInv'
BY StepActsNext, SessionHeldNext, ClosedIdleNext DEF HandlerInv

-----------------------------------------------------------------------------
(* While nothing but idle connections was cut.                             *)
Quiet == faults \subseteq {"idle"}

\* The response the strand waits for has arrived.
Answered == pc = "wait" /\ resps[link] # <<>>

Still(c) == reqs[c] = <<>> /\ resps[c] = <<>> /\ ~Serving(c)

\* Nothing goes on but what the strand waits for.
Alone ==
    Quiet => \A c \in Conns :
                /\ (c = link /\ pc = "wait") \/ Still(c)
                /\ step[c] # "torn"

\* A connection that has not been cut is open, save for one that was not to
\* be used again; and where nothing may be repeated it is a new one.
StillOpen ==
    Quiet =>
        /\ link # NoLink /\ (fresh \/ faults = {}) =>
              link \in srvOpen \/ (~Reuse /\ (Answered \/ ~Posting))
        /\ Posting /\ link # NoLink /\ (cur.act = "open" \/ cur.attempt = 2 \/ ~Reuse) => fresh

LEMMA FaultsGrow == [Next]_vars => faults \subseteq faults'
BY DEF Next, AgentStep, PostStep, Connect, ConnectRefused, WriteRequest, ReadEof,
       ReadTimeout, ReadResponse, ReplyWritten, ReplyBroken, ReadClient,
       ClientLeaves, PollFires, WriteDone, WriteBroken, ServerStep, vars,
       ConnStep, IdleTimeout, LoseResponse, Reap, Fault

\* Of the steps in which a try fails only the end of a connection is quiet.
LEMMA QuietSteps ==
    ASSUME [Next]_vars, Quiet'
    PROVE  /\ Quiet /\ faults \subseteq faults'
           /\ ~ConnectRefused /\ ~ReadTimeout /\ \A c \in Conns : ~LoseResponse(c)
BY FaultsGrow DEF Quiet, ConnectRefused, ReadTimeout, LoseResponse, Fault

\* While it waits for an answer the strand's request is on its connection, in
\* one of the three places.
LEMMA OnlyTheStrands ==
    ASSUME TypeInv, ExchangeInv, Alone, Quiet, NEW c \in Conns, ~Still(c)
    PROVE  /\ c = link /\ pc = "wait" /\ Writers \subseteq {c}
           /\ reqs[c] # <<>> => Head(reqs[c]) = cur
           /\ Serving(c) => held[c] = cur
<1>1. c = link /\ pc = "wait"
  BY DEF Alone
<1>2. Writers \subseteq {c}
  BY <1>1 DEF Alone, Still, Serving, Writers
<1>3. reqs[c] # <<>> => Head(reqs[c]) = cur
  BY <1>1, OnePlace DEF ExchangeInv, Carries
<1>4. Serving(c) => held[c] = cur
  BY <1>1 DEF ExchangeInv, Carries
<1> QED BY <1>1, <1>2, <1>3, <1>4

LEMMA HandlerNotStill ==
    ASSUME TypeInv, ExchangeInv, NEW c \in Conns, Handler(c)
    PROVE  ~Still(c) /\ resps[c] = <<>>
<1>1. Serving(c) \/ reqs[c] # <<>>
  BY DEF Handler, HandleOpen, OpenTarget, RefuseTarget, DropSend, HandleSend, WriteTarget,
         NothingToRead, HandleRecv, ReadTarget, HandleClose, Asked, Writers, Serving
<1> QED BY <1>1, OnePlace DEF Still

\* What the agent does, as far as the connections are concerned.
LEMMA AgentSteps ==
    ASSUME TypeInv, AgentStep, ~ConnectRefused, ~ReadTimeout
    PROVE  \/ Connect \/ WriteRequest \/ ReadEof \/ ReadResponse
           \/ /\ pc # "wait" /\ pc' # "wait" /\ UNCHANGED server_vars /\ link' \in {link, NoLink}
BY DEF AgentStep, PostStep, ReplyWritten, ReplyBroken, ReadClient,
       ClientLeaves, PollFires, WriteDone, WriteBroken, Post, CloseTunnel

LEMMA AloneNext ==
    ASSUME TypeInv, TypeInv', ExchangeInv, HandlerInv, Alone, [Next]_vars PROVE Alone'
<1> SUFFICES ASSUME Quiet' PROVE \A c \in Conns :
                /\ (c = link' /\ pc' = "wait") \/ Still(c)'
                /\ step'[c] # "torn"
  BY DEF Alone
<1>0. /\ Quiet
      /\ ~ConnectRefused /\ ~ReadTimeout /\ \A c \in Conns : ~LoseResponse(c)
  BY QuietSteps
<1>a. /\ \A c \in Conns : (c = link /\ pc = "wait") \/ Still(c)
      /\ \A c \in Conns : step[c] # "torn"
  BY <1>0 DEF Alone
<1>t. /\ reqs \in [Conns -> Seq(Request)] /\ resps \in [Conns -> Seq(Response)]
      /\ step \in [Conns -> Steps] /\ link \in Conns \cup {NoLink}
      /\ (pc = "wait" => link \in Conns)
  BY DEF TypeInv, TypeOK, ServerTypeOK, AgentTypeOK
<1>1. CASE UNCHANGED vars
  BY <1>a, <1>1 DEF vars, agent_vars, server_vars, conn_vars, Still, Serving
<1>2. CASE AgentStep
  <2>1. CASE Connect
    BY <1>a, <1>t, <2>1 DEF Connect, Still, Serving
  <2>2. CASE WriteRequest
    BY <1>a, <1>t, <2>2 DEF WriteRequest, Still, Serving
  <2>3. CASE ReadEof
    <3>1. Still(link)
      BY <1>t, <2>3 DEF ReadEof, HandlerInv, ClosedIdle, Still
    <3>2. \A c \in Conns : Still(c)
      BY <1>a, <3>1
    <3> QED BY <1>a, <2>3, <3>2 DEF ReadEof, server_vars, conn_vars, Still, Serving
  <2>4. CASE ReadResponse
    <3>1. /\ UNCHANGED <<reqs, step>> /\ resps' = [resps EXCEPT ![link] = Unread(link)]
          /\ resps[link] # <<>> /\ pc = "wait"
      BY <2>4 DEF ReadResponse
    <3>2. reqs[link] = <<>> /\ ~Serving(link) /\ Tail(resps[link]) = <<>>
      BY <1>t, <3>1, OnePlace
    <3>3. resps'[link] = <<>> /\ \A c \in Conns \ {link} : resps'[c] = resps[c]
      BY <1>t, <3>1, <3>2 DEF Unread
    <3>4. \A c \in Conns : Still(c)'
      BY <1>a, <1>t, <3>1, <3>2, <3>3 DEF Still, Serving
    <3> QED BY <1>a, <3>1, <3>4
  <2>5. CASE pc # "wait" /\ UNCHANGED server_vars
    BY <1>a, <2>5 DEF server_vars, conn_vars, Still, Serving
  <2> QED BY <1>0, <1>2, <2>1, <2>2, <2>3, <2>4, <2>5, AgentSteps
<1>3. CASE (TargetSends \/ TargetHangsUp) /\ UNCHANGED agent_vars
  BY <1>a, <1>3 DEF TargetSends, TargetHangsUp, conn_vars, agent_vars, Still, Serving
<1>4. CASE ConnStep
  BY <1>0, <1>a, <1>t, <1>4 DEF ConnStep, IdleTimeout, Reap, agent_vars, Still, Serving
<1>5. ASSUME NEW c \in Conns, Handler(c), UNCHANGED agent_vars
      PROVE  \A d \in Conns : /\ (d = link' /\ pc' = "wait") \/ Still(d)'
                              /\ step'[d] # "torn"
  <2>1. ~Still(c) /\ ~(step[c] = "torn")
    BY <1>a, <1>5, HandlerNotStill
  <2>2. c = link /\ pc = "wait" /\ Writers \subseteq {c}
    BY <1>0, <2>1, OnlyTheStrands
  <2>3. ASSUME NEW s, s # "torn", Takes(c, s), \A d \in Conns \ {c} : step'[d] = step[d]
        PROVE  \A d \in Conns : ((d = link' /\ pc' = "wait") \/ Still(d)') /\ step'[d] # "torn"
    BY <1>5, <1>a, <2>2, <2>3 DEF Takes, Still, Serving, agent_vars
  <2>4. CASE HandleSend(c) /\ Takes(c, IF Writers = {} THEN "write" ELSE "torn")
    <3>1. Writers = {}
      BY <2>2, <2>4 DEF Takes, Writers
    <3>2. \A d \in Conns \ {c} : step'[d] = step[d]
      BY <2>4, <3>1 DEF HandleSend
    <3> QED BY <2>3, <2>4, <3>1, <3>2
  <2>5. ASSUME NEW q, Ends(c, q)
        PROVE  \A d \in Conns : ((d = link' /\ pc' = "wait") \/ Still(d)') /\ step'[d] # "torn"
    <3>1. \A d \in Conns \ {c} : resps'[d] = resps[d]
      BY <2>5, RespondMove DEF Ends
    <3>2. \A d \in Conns \ {c} : Still(d)' /\ step'[d] # "torn"
      BY <1>a, <2>2, <2>5, <3>1 DEF Ends, Still, Serving
    <3>3. pc' = pc /\ link' = link /\ step'[c] # "torn"
      BY <1>5, <2>5 DEF Ends, agent_vars
    <3> QED BY <2>2, <3>2, <3>3
  <2> QED BY <1>5, <2>3, <2>4, <2>5, HandlerDoes
<1>6. CASE ServerStep
  BY <1>3, <1>5, <1>6 DEF ServerStep, ServerNext
<1> QED BY <1>1, <1>2, <1>4, <1>6 DEF Next

\* StillOpen where it holds: its two parts.
OpenLink ==
    link # NoLink /\ (fresh \/ faults = {}) =>
        link \in srvOpen \/ (~Reuse /\ (Answered \/ ~Posting))
FreshTry ==
    Posting /\ link # NoLink /\ (cur.act = "open" \/ cur.attempt = 2 \/ ~Reuse) => fresh

\* The answer on a connection that had none.
LEMMA FirstAnswer ==
    ASSUME TypeInv, NEW c \in Conns, resps[c] = <<>>,
           NEW q, NEW ok, NEW data, Respond(c, q, ok, data)
    PROVE  resps'[c] # <<>> /\ Head(resps'[c]).data = data
<1> DEFINE r == [req |-> q, ok |-> ok, data |-> data]
<1>1. resps'[c] = Append(<<>>, r)
  BY DEF Respond, TypeInv, TypeOK, ServerTypeOK
<1>2. r.data = data
  OBVIOUS
<1> HIDE DEF r
<1>3. Append(<<>>, r) # <<>> /\ Head(Append(<<>>, r)) = r
  OBVIOUS
<1> QED BY <1>1, <1>2, <1>3

LEMMA StillOpenNext ==
    ASSUME TypeInv, TypeInv', ExchangeInv, HandlerInv, Alone, OwnInv, StillOpen, [Next]_vars
    PROVE  StillOpen'
<1> SUFFICES ASSUME Quiet' PROVE OpenLink' /\ FreshTry'
  BY DEF StillOpen, OpenLink, FreshTry
<1>0. /\ Quiet /\ faults \subseteq faults'
      /\ ~ConnectRefused /\ ~ReadTimeout /\ \A c \in Conns : ~LoseResponse(c)
  BY QuietSteps
<1>a. OpenLink /\ FreshTry
  BY <1>0 DEF StillOpen, OpenLink, FreshTry
<1>t. /\ reqs \in [Conns -> Seq(Request)] /\ resps \in [Conns -> Seq(Response)]
      /\ link \in Conns \cup {NoLink} /\ (pc = "wait" => link \in Conns)
  BY DEF TypeInv, TypeOK, ServerTypeOK, AgentTypeOK
<1>b. faults' = {} => faults = {}
  BY <1>0
<1> HIDE DEF Quiet
<1>1. CASE UNCHANGED vars
  BY <1>a, <1>1 DEF vars, agent_vars, server_vars, conn_vars, OpenLink, FreshTry, Answered, Posting
<1>2. CASE AgentStep
  <2>1. CASE Connect
    BY <2>1 DEF Connect, OpenLink, FreshTry
  <2>2. CASE WriteRequest
    BY <1>a, <2>2 DEF WriteRequest, OpenLink, FreshTry, Answered, Posting
  <2>3. CASE link' = NoLink
    BY <2>3 DEF OpenLink, FreshTry
  <2>4. CASE ReadResponse
    <3>1. /\ pc = "wait" /\ ~(pc' \in {"attempt", "wait"}) /\ ~fresh'
          /\ link' \in {link, NoLink} /\ UNCHANGED <<srvOpen, faults>>
      BY <2>4 DEF ReadResponse, AfterPost
    <3> QED BY <1>a, <3>1 DEF OpenLink, FreshTry, Posting, Answered
  <2>5. CASE ReplyWritten
    BY <1>a, <2>5 DEF ReplyWritten, OpenLink, FreshTry, Posting, Answered, server_vars, conn_vars
  <2>6. CASE ReadClient \/ ClientLeaves \/ PollFires \/ WriteBroken
    <3>1. /\ UNCHANGED <<link, fresh, faults, srvOpen, resps>>
          /\ \/ pc = "idle" /\ pc' = "attempt" /\ cur'.attempt = 1 /\ cur'.act # "open"
             \/ UNCHANGED <<pc, cur>>
      BY <2>6 DEF ReadClient, ClientLeaves, PollFires, WriteBroken, Post, CloseTunnel, TunnelLive,
                  server_vars, conn_vars
    <3>2. CASE UNCHANGED <<pc, cur>>
      BY <1>a, <3>1, <3>2 DEF OpenLink, FreshTry, Posting, Answered
    <3>3. CASE pc = "idle" /\ pc' = "attempt" /\ cur'.attempt = 1 /\ cur'.act # "open"
      <4>1. ~Reuse => link = NoLink
        BY <3>3 DEF OwnInv
      <4> QED BY <1>a, <3>1, <3>3, <4>1 DEF OpenLink, FreshTry, Posting, Answered
    <3> QED BY <3>1, <3>2, <3>3
  <2>7. CASE WriteDone
    BY <1>a, <2>7 DEF WriteDone, OpenLink, FreshTry, Posting, Answered, server_vars, conn_vars
  <2> QED BY <1>0, <1>2, <2>1, <2>2, <2>3, <2>4, <2>5, <2>6, <2>7
          DEF AgentStep, PostStep, ReadEof, FailAttempt, Shutdown, ReplyBroken
<1>3. CASE ConnStep
  <2>1. PICK c \in Conns : IdleTimeout(c) \/ Reap(c)
    BY <1>0, <1>3 DEF ConnStep
  <2>2. UNCHANGED agent_vars
    BY <2>1 DEF IdleTimeout, Reap
  <2>3. CASE IdleTimeout(c)
    <3>1. ~fresh /\ faults' # {}
      BY <2>3 DEF IdleTimeout, Fault
    <3> QED BY <1>a, <2>2, <3>1 DEF agent_vars, OpenLink, FreshTry, Posting
  <2>4. CASE Reap(c)
    BY <1>a, <1>t, <2>2, <2>4 DEF Reap, agent_vars, OpenLink, FreshTry, Posting, Answered
  <2> QED BY <2>1, <2>3, <2>4
<1>4. ASSUME UNCHANGED <<agent_vars, faults>>, NEW c \in Conns, Handler(c)
      PROVE  OpenLink' /\ FreshTry'
  <2>1. c = link /\ pc = "wait" /\ resps[link] = <<>>
    BY <1>0, <1>4, HandlerNotStill, OnlyTheStrands
  <2>2. UNCHANGED <<pc, cur, link, fresh, faults>>
    BY <1>4 DEF agent_vars
  <2>3. FreshTry'
    BY <1>a, <2>2 DEF FreshTry, Posting
  <2>4. srvOpen' = srvOpen \/ (~Reuse /\ resps'[link] # <<>>)
    <3>1. ASSUME NEW q, Ends(c, q) PROVE srvOpen' = srvOpen \/ (~Reuse /\ resps'[link] # <<>>)
      <4>1. PICK ok, data : Respond(c, q, ok, data)
        BY <3>1 DEF Ends
      <4>2. resps'[link] # <<>>
        BY <2>1, <4>1, FirstAnswer
      <4> QED BY <4>1, <4>2 DEF Respond
    <3>2. ASSUME NEW s, Takes(c, s) PROVE srvOpen' = srvOpen
      BY <3>2 DEF Takes
    <3> QED BY <1>4, <3>1, <3>2, HandlerDoes
  <2>5. OpenLink'
    BY <1>a, <2>1, <2>2, <2>4 DEF OpenLink, Answered, Posting
  <2> QED BY <2>3, <2>5
<1>5. CASE ServerStep /\ (TargetSends \/ TargetHangsUp)
  BY <1>a, <1>5 DEF ServerStep, TargetSends, TargetHangsUp, conn_vars, agent_vars,
                    OpenLink, FreshTry, Posting, Answered
<1>6. CASE ServerStep
  BY <1>4, <1>5, <1>6 DEF ServerStep, ServerNext
<1> QED BY <1>1, <1>2, <1>3, <1>6 DEF Next

-----------------------------------------------------------------------------
(* The invariant so far, and what every quiet step does.                   *)

RelayInv ==
    /\ TypeInv /\ ExchangeInv /\ CloseInv /\ OwnInv /\ GrantInv
    /\ HandlerInv /\ Alone /\ StillOpen

LEMMA RelayStart == Init => RelayInv
<1>1. Init => TypeInv /\ ExchangeInv /\ GrantInv /\ HandlerInv
  BY TypeInit, ExchangeInit, GrantInit, HandlerStart
<1>2. Init => CloseInv /\ OwnInv /\ Alone /\ StillOpen
  BY DEF Init, ServerInit, CloseInv, OwnInv, Alone, StillOpen, Still, Serving
<1> QED BY <1>1, <1>2 DEF RelayInv

LEMMA RelayNext == RelayInv /\ [Next]_vars => RelayInv'
<1> SUFFICES ASSUME RelayInv, [Next]_vars PROVE RelayInv'
  OBVIOUS
<1>1. TypeInv' /\ ExchangeInv' /\ CloseInv' /\ OwnInv' /\ GrantInv'
  BY TypeNext, ExchangeNext, CloseNext, OwnNext, GrantNext DEF RelayInv
<1>2. HandlerInv' /\ Alone' /\ StillOpen'
  BY <1>1, HandlerNext, AloneNext, StillOpenNext DEF RelayInv
<1> QED BY <1>1, <1>2 DEF RelayInv

LEMMA RelayAlways == Spec => []RelayInv
BY RelayStart, RelayNext, PTL DEF Spec

\* While nothing but an idle connection was cut, no two handlers are at work
\* for one tunnel, so none finds another one in its TCPClient.
THEOREM OneHandlerAlways == Spec => []OneHandler
<1>1. RelayInv => OneHandler
  BY DEF RelayInv, Alone, Still, Quiet, OneHandler
<1> QED BY <1>1, RelayAlways, PTL

\* What a step of the server or of the network does while all is quiet:
\* nothing that can be seen from the tunnel's ends, ...
Unseen ==
    /\ UNCHANGED <<agent_vars, session, taken, targetGot>>
    /\ pc = "wait" => resps'[link] = resps[link]
    /\ target' = target \/ (target = "open" /\ target' = "hungup")

\* ... or it answers the strand's request with d and does as the request says.
Answers(act, d) ==
    /\ cur.act = act /\ pc = "wait" /\ resps[link] = <<>>
    /\ resps'[link] # <<>> /\ Head(resps'[link]).data = d
    /\ UNCHANGED <<agent_vars, faults>>

AnswersOpen ==
    /\ Answers("open", NoData) /\ UNCHANGED taken
    /\ \/ UNCHANGED <<session, target, targetGot>>
       \/ target' = "open" /\ targetGot' = IF cur.chunk = NoData THEN targetGot
                                           ELSE Append(targetGot, cur.chunk)
       \/ target' = "shut" /\ UNCHANGED targetGot

AnswersSend ==
    /\ Answers("send", NoData) /\ UNCHANGED <<session, taken>>
    /\ \/ target = "open" /\ UNCHANGED target /\ targetGot' = Append(targetGot, cur.chunk)
       \/ target # "open" /\ UNCHANGED <<target, targetGot>>
       \/ target' = "shut" /\ UNCHANGED targetGot

AnswersRecv ==
    /\ UNCHANGED <<session, target, targetGot>>
    /\ \/ Answers("recv", NoData) /\ UNCHANGED taken
       \/ Answers("recv", taken + 1) /\ taken' = taken + 1

AnswersClose ==
    /\ Answers("close", NoData) /\ UNCHANGED <<taken, targetGot>>
    /\ ~session' /\ (target' = target \/ target' = "shut")

ServerDoes == Unseen \/ AnswersOpen \/ AnswersSend \/ AnswersRecv \/ AnswersClose

\* A handler that ends gives its answer to the strand's request.
LEMMA EndsAnswers ==
    ASSUME RelayInv, Quiet, NEW c \in Conns, Handler(c), UNCHANGED <<agent_vars, faults>>,
           NEW ok, NEW data, Respond(c, IF Serving(c) THEN held[c] ELSE Head(reqs[c]), ok, data)
    PROVE  Answers(cur.act, data)
<1>1. TypeInv /\ c = link /\ pc = "wait" /\ resps[c] = <<>>
  BY HandlerNotStill, OnlyTheStrands DEF RelayInv
<1> QED BY <1>1, FirstAnswer DEF Answers

LEMMA ServerSteps ==
    ASSUME RelayInv, Quiet, ServerStep
    PROVE  ServerDoes
<1>0. UNCHANGED <<agent_vars, faults>>
  BY DEF ServerStep
<1>1. CASE TargetSends \/ TargetHangsUp
  BY <1>0, <1>1 DEF TargetSends, TargetHangsUp, conn_vars, ServerDoes, Unseen
<1>2. ASSUME NEW c \in Conns, Handler(c) PROVE ServerDoes
  <2>0. /\ c = link /\ pc = "wait" /\ (Serving(c) => held[c] = cur)
        /\ reqs[c] # <<>> => Head(reqs[c]) = cur /\ ~Serving(c)
        /\ step[c] # "torn" /\ StepActs
    BY <1>2, HandlerNotStill, OnlyTheStrands, OnePlace DEF RelayInv, Alone, HandlerInv
  <2>1. CASE HandleOpen(c) \/ HandleRecv(c) \/ HandleSend(c)
    BY <1>0, <2>1 DEF HandleOpen, HandleRecv, HandleSend, Begin, session_vars, ServerDoes, Unseen
  <2>2. ASSUME Serving(c), NEW ok, NEW data, Finish(c, ok, data)
        PROVE  Answers(cur.act, data)
    <3>1. Respond(c, IF Serving(c) THEN held[c] ELSE Head(reqs[c]), ok, data)
      BY <2>2 DEF Finish
    <3> QED BY <1>0, <1>2, <3>1, EndsAnswers
  <2>3. ASSUME NEW act, Asked(c, act), NEW data, RespondNow(c, data)
        PROVE  Answers(cur.act, data) /\ cur.act = act
    <3>1. Respond(c, IF Serving(c) THEN held[c] ELSE Head(reqs[c]), TRUE, data)
      BY <2>0, <2>3 DEF RespondNow, Asked
    <3> QED BY <1>0, <1>2, <2>0, <2>3, <3>1, EndsAnswers DEF Asked
  <2>4. CASE OpenTarget(c)
    <3>1. Serving(c) /\ cur.act = "open" /\ held[c] = cur
      BY <2>0, <2>4 DEF OpenTarget, Serving, StepActs
    <3> QED BY <2>2, <2>4, <3>1 DEF OpenTarget, Deliver, ServerDoes, AnswersOpen
  <2>5. CASE RefuseTarget(c)
    <3>1. Serving(c) /\ cur.act = "open"
      BY <2>0, <2>5 DEF RefuseTarget, Serving, StepActs
    <3> QED BY <2>2, <2>5, <3>1 DEF RefuseTarget, session_vars, ServerDoes, AnswersOpen
  <2>6. CASE WriteTarget(c)
    <3>1. Serving(c) /\ cur.act = "send" /\ held[c] = cur
      BY <2>0, <2>6 DEF WriteTarget, Writers, Serving, StepActs
    <3> QED BY <2>0, <2>2, <2>6, <3>1 DEF WriteTarget, Deliver, ServerDoes, AnswersSend
  <2>7. CASE ReadTarget(c)
    <3>1. Serving(c) /\ cur.act = "recv"
      BY <2>0, <2>7 DEF ReadTarget, Serving, StepActs
    <3> QED BY <2>2, <2>7, <3>1 DEF ReadTarget, ServerDoes, AnswersRecv
  <2>8. CASE DropSend(c)
    <3>1. target # "open"
      BY <2>8 DEF DropSend, TargetIsOpen, RelayInv, HandlerInv, SessionHeld
    <3> QED BY <2>3, <2>8, <3>1 DEF DropSend, session_vars, ServerDoes, AnswersSend
  <2>9. CASE NothingToRead(c)
    BY <2>3, <2>9 DEF NothingToRead, session_vars, ServerDoes, AnswersRecv
  <2>10. CASE HandleClose(c)
    BY <2>3, <2>10 DEF HandleClose, ServerDoes, AnswersClose
  <2> QED BY <1>2, <2>1, <2>4, <2>5, <2>6, <2>7, <2>8, <2>9, <2>10 DEF Handler
<1> QED BY <1>1, <1>2 DEF ServerStep, ServerNext

LEMMA ConnSteps ==
    ASSUME RelayInv, ConnStep, \A c \in Conns : ~LoseResponse(c)
    PROVE  Unseen
<1>1. resps \in [Conns -> Seq(Response)] /\ (pc = "wait" => link \in Conns)
  BY DEF RelayInv, TypeInv, TypeOK, ServerTypeOK
<1> QED BY <1>1 DEF ConnStep, IdleTimeout, Reap, session_vars, Unseen

\* A post is repeated only if its request was not handled, and given up only
\* if it is the close.
Repeats ==
    /\ Posting /\ ~Answered /\ cur.act \in {"send", "recv"}
    /\ pc' = "attempt" /\ cur' = [cur EXCEPT !.attempt = 2]
    /\ UNCHANGED <<poll, tunnelClosed, upRead, sending, reply, clientGot, server_vars, faults>>

GivesUp ==
    /\ pc = "wait" /\ ~Answered /\ cur.act = "close"
    /\ pc' = "closed" /\ faults # {}
    /\ UNCHANGED <<cur, poll, tunnelClosed, upRead, sending, reply, clientGot, server_vars, faults>>

LEMMA EofSteps ==
    ASSUME RelayInv, Quiet, ReadEof
    PROVE  Repeats \/ GivesUp
<1>1. /\ pc = "wait" /\ ~Answered /\ link \notin srvOpen /\ FailAttempt
      /\ UNCHANGED <<server_vars, faults>>
  BY DEF ReadEof, Answered
<1>2. link \in Conns /\ link # NoLink /\ cur \in Request
  <2>1. link \in Conns /\ cur \in Request
    BY <1>1 DEF RelayInv, TypeInv, TypeOK, AgentTypeOK
  <2> QED BY <2>1, AgentAssumption
<1>3. OpenLink /\ FreshTry
  BY DEF RelayInv, StillOpen, OpenLink, FreshTry
<1>4. ~fresh /\ faults # {}
  BY <1>1, <1>2, <1>3 DEF OpenLink, Posting
<1>5. cur.act # "open" /\ cur.attempt # 2 /\ Reuse
  BY <1>1, <1>2, <1>3, <1>4 DEF FreshTry, Posting
<1>6. cur.attempt = 1 /\ cur.act \in {"send", "recv", "close"}
  BY <1>2, <1>5 DEF Request, Actions
<1>7. CASE cur.act \in {"send", "recv"}
  <2>1. CanRetry
    BY <1>5, <1>6, <1>7 DEF CanRetry
  <2> QED BY <1>1, <1>7, <2>1 DEF FailAttempt, Repeats, Posting
<1>8. CASE cur.act = "close"
  <2>1. ~CanRetry
    BY <1>8 DEF CanRetry
  <2> QED BY <1>1, <1>4, <1>8, <2>1 DEF FailAttempt, AfterPost, GivesUp
<1> QED BY <1>6, <1>7, <1>8

\* Every step that leaves the connections in peace.
LEMMA TunnelSteps ==
    ASSUME RelayInv, [Next]_vars, Quiet'
    PROVE  /\ Quiet /\ faults \subseteq faults'
           /\ \/ ServerDoes
              \/ Connect \/ WriteRequest \/ ReadResponse \/ Repeats \/ GivesUp
              \/ ReplyWritten \/ ReplyBroken
              \/ ReadClient \/ ClientLeaves \/ PollFires \/ WriteDone \/ WriteBroken
<1>0. /\ Quiet /\ faults \subseteq faults'
      /\ ~ConnectRefused /\ ~ReadTimeout /\ \A c \in Conns : ~LoseResponse(c)
  BY QuietSteps
<1>1. UNCHANGED vars => Unseen
  BY DEF vars, server_vars, session_vars, conn_vars, Unseen
<1>2. ConnStep => Unseen
  BY <1>0, ConnSteps
<1>3. ServerStep => ServerDoes
  BY <1>0, ServerSteps
<1>4. ReadEof => Repeats \/ GivesUp
  BY <1>0, EofSteps
<1> QED BY <1>0, <1>1, <1>2, <1>3, <1>4 DEF Next, AgentStep, PostStep, ServerDoes

-----------------------------------------------------------------------------
(* From the client to the target.                                          *)

InOrder(q) == \A i \in DOMAIN q : q[i] = i

\* The open has not been handled: it carries what the client sent with its
\* CONNECT, and there is no target yet.
Opening ==
    Posting /\ ~Answered /\ cur.act = "open" =>
        /\ target = "none" /\ targetGot = <<>>
        /\ cur.chunk = upRead /\ upRead \in 0..1

\* The send has not been handled: the chunk it carries is the one missing.
Sending ==
    Posting /\ ~Answered /\ cur.act = "send" =>
        cur.chunk = upRead /\ (target = "open" => Len(targetGot) + 1 = upRead)

\* Otherwise the target has all that was read from the client.
AtRest ==
    \/ pc \in {"idle", "reply"} \/ Answered
    \/ Posting /\ cur.act \notin {"open", "send"}
Settled == AtRest => (target = "open" => Len(targetGot) = upRead)

UpInv == Quiet => InOrder(targetGot) /\ Opening /\ Sending /\ Settled

LEMMA NextInOrder ==
    ASSUME NEW q \in Seq(Nat), InOrder(q), NEW k \in Nat, k = Len(q) + 1
    PROVE  InOrder(Append(q, k)) /\ Len(Append(q, k)) = k
BY DEF InOrder

LEMMA UpStart == Init => UpInv
<1> SUFFICES ASSUME Init PROVE UpInv
  OBVIOUS
<1>1. InOrder(targetGot)
  BY DEF InOrder, Init, ServerInit
<1>2. upRead \in 0..1 /\ cur.chunk = upRead /\ cur.act = "open" /\ pc = "attempt"
  BY DEF Init
<1>3. target = "none" /\ targetGot = <<>>
  BY DEF Init, ServerInit
<1> QED BY <1>1, <1>2, <1>3 DEF UpInv, Opening, Sending, Settled, AtRest, Answered, Posting

LEMMA UpNext == RelayInv /\ RelayInv' /\ UpInv /\ [Next]_vars => UpInv'
<1> SUFFICES ASSUME RelayInv, RelayInv', UpInv, [Next]_vars, Quiet'
             PROVE  InOrder(targetGot') /\ Opening' /\ Sending' /\ Settled'
  BY DEF UpInv
<1>0. Quiet /\ InOrder(targetGot) /\ Opening /\ Sending /\ Settled
  BY TunnelSteps DEF UpInv
<1>t. /\ targetGot \in Seq(Nat) /\ upRead \in Nat /\ Len(targetGot) \in Nat
      /\ link \in Conns \cup {NoLink} /\ cur.chunk \in Nat
  BY DEF RelayInv, TypeInv, TypeOK, ServerTypeOK, AgentTypeOK, Request
<1> USE DEF Posting, AtRest, Settled
<1>1. CASE ServerDoes
  <2>1. CASE Unseen
    <3>1. (Answered' <=> Answered) /\ UNCHANGED <<pc, cur, upRead, targetGot>>
      BY <2>1 DEF Unseen, agent_vars, Answered
    <3>2. target' = target \/ (target = "open" /\ target' = "hungup")
      BY <2>1 DEF Unseen
    <3> QED BY <1>0, <3>1, <3>2 DEF Opening, Sending
  <2>2. ASSUME NEW act, NEW d, Answers(act, d)
        PROVE  /\ pc = "wait" /\ cur.act = act /\ ~Answered /\ Answered'
               /\ UNCHANGED <<pc, cur, upRead>>
    BY <2>2 DEF Answers, Answered, agent_vars
  <2>3. CASE AnswersOpen
    <3>1. /\ pc = "wait" /\ cur.act = "open" /\ ~Answered /\ Answered'
          /\ UNCHANGED <<pc, cur, upRead>>
      BY <2>2, <2>3 DEF AnswersOpen
    <3>2. target = "none" /\ targetGot = <<>> /\ cur.chunk = upRead /\ upRead \in 0..1
      BY <1>0, <3>1 DEF Opening
    <3>3. InOrder(targetGot') /\ (target' = "open" => Len(targetGot') = upRead)
      <4>1. Len(targetGot) = 0
        BY <3>2
      <4>2. cur.chunk # NoData => cur.chunk = Len(targetGot) + 1
        BY <3>2, <4>1 DEF NoData
      <4>3. cur.chunk # NoData => InOrder(Append(targetGot, cur.chunk))
                                  /\ Len(Append(targetGot, cur.chunk)) = upRead
        BY <1>0, <1>t, <3>2, <4>2, NextInOrder
      <4> QED BY <1>0, <2>3, <3>2, <4>1, <4>3 DEF AnswersOpen, NoData
    <3> QED BY <3>1, <3>3 DEF Opening, Sending
  <2>4. CASE AnswersSend
    <3>1. /\ pc = "wait" /\ cur.act = "send" /\ ~Answered /\ Answered'
          /\ UNCHANGED <<pc, cur, upRead>>
      BY <2>2, <2>4 DEF AnswersSend
    <3>2. cur.chunk = upRead /\ (target = "open" => Len(targetGot) + 1 = upRead)
      BY <1>0, <3>1 DEF Sending
    <3>3. target = "open" => InOrder(Append(targetGot, cur.chunk))
                             /\ Len(Append(targetGot, cur.chunk)) = upRead
      BY <1>0, <1>t, <3>2, NextInOrder
    <3>4. InOrder(targetGot') /\ (target' = "open" => Len(targetGot') = upRead)
      BY <1>0, <2>4, <3>3 DEF AnswersSend
    <3> QED BY <3>1, <3>4 DEF Opening, Sending
  <2>5. CASE AnswersRecv \/ AnswersClose
    <3>1. /\ pc = "wait" /\ cur.act \in {"recv", "close"} /\ Answered'
          /\ UNCHANGED <<pc, cur, upRead, targetGot>>
      BY <2>2, <2>5 DEF AnswersRecv, AnswersClose
    <3>2. target' = target \/ target' = "shut"
      BY <2>5 DEF AnswersRecv, AnswersClose
    <3> QED BY <1>0, <3>1, <3>2 DEF Opening, Sending
  <2> QED BY <1>1, <2>1, <2>3, <2>4, <2>5 DEF ServerDoes
<1>2. CASE Connect
  <2>1. ~Answered /\ ~Answered' /\ UNCHANGED <<pc, cur, upRead, target, targetGot>>
    BY <1>2 DEF Connect, Answered, session_vars
  <2> QED BY <1>0, <2>1 DEF Opening, Sending
<1>3. CASE WriteRequest
  <2>1. resps[link] = <<>>
    BY <1>0, <1>3, <1>t DEF WriteRequest, RelayInv, Alone, Still
  <2>2. /\ ~Answered /\ ~Answered' /\ pc = "attempt" /\ pc' = "wait"
        /\ UNCHANGED <<cur, upRead, target, targetGot>>
    BY <1>3, <2>1 DEF WriteRequest, Answered, session_vars
  <2> QED BY <1>0, <2>2 DEF Opening, Sending
<1>4. CASE ReadResponse
  <2>1. Answered /\ pc' \in {"reply", "idle", "closed"} /\ UNCHANGED <<upRead, target, targetGot>>
    BY <1>4 DEF ReadResponse, AfterPost, Answered, session_vars
  <2> QED BY <1>0, <2>1 DEF Opening, Sending, Answered
<1>5. CASE Repeats
  <2>1. /\ Posting /\ ~Answered /\ ~Answered' /\ pc' = "attempt"
        /\ cur.act \in {"send", "recv"} /\ cur'.act = cur.act /\ cur'.chunk = cur.chunk
        /\ UNCHANGED <<upRead, target, targetGot>>
    BY <1>5 DEF Repeats, Answered, server_vars, session_vars, RelayInv, TypeInv, TypeOK,
                AgentTypeOK, Request
  <2> QED BY <1>0, <2>1 DEF Opening, Sending
<1>6. CASE GivesUp \/ ReplyBroken \/ ClientLeaves \/ WriteBroken
  <2>1. /\ pc' = "closed" \/ (pc = "idle" /\ pc' = "attempt" /\ cur'.act = "close")
        /\ ~Answered' /\ UNCHANGED <<upRead, target, targetGot>>
    BY <1>6 DEF GivesUp, ReplyBroken, ClientLeaves, WriteBroken, CloseTunnel, Post, Answered,
                server_vars, session_vars
  <2> QED BY <1>0, <2>1 DEF Opening, Sending
<1>7. CASE ReplyWritten \/ WriteDone
  <2>1. /\ pc' = "idle" /\ pc \in {"idle", "reply"}
        /\ ~Answered' /\ UNCHANGED <<upRead, target, targetGot>>
    BY <1>7 DEF ReplyWritten, WriteDone, Answered, server_vars, session_vars
  <2> QED BY <1>0, <2>1 DEF Opening, Sending
<1>8. CASE PollFires
  <2>1. /\ UNCHANGED <<upRead, target, targetGot>> /\ ~Answered' /\ ~Answered
        /\ \/ UNCHANGED <<pc, cur>>
           \/ pc = "idle" /\ pc' = "attempt" /\ cur'.act = "recv"
    BY <1>8 DEF PollFires, TunnelLive, Post, Answered, server_vars, session_vars
  <2> QED BY <1>0, <2>1 DEF Opening, Sending
<1>9. CASE ReadClient
  <2>1. /\ pc = "idle" /\ pc' = "attempt" /\ cur'.act = "send" /\ cur'.chunk = upRead + 1
        /\ upRead' = upRead + 1 /\ ~Answered' /\ UNCHANGED <<target, targetGot>>
    BY <1>9 DEF ReadClient, Post, Answered, server_vars, session_vars
  <2>2. target = "open" => Len(targetGot) + 1 = upRead + 1
    BY <1>0, <2>1
  <2> QED BY <1>0, <2>1, <2>2 DEF Opening, Sending
<1> QED BY <1>1, <1>2, <1>3, <1>4, <1>5, <1>6, <1>7, <1>8, <1>9, TunnelSteps

\* While nothing but an idle connection was cut, the target receives exactly
\* what the client sent: a post is repeated only when the first try of it was
\* not handled.
THEOREM UpstreamIntactAlways == Spec => []UpstreamIntact
<1>1. Spec => [](RelayInv /\ UpInv)
  <2>1. Init => RelayInv /\ UpInv
    BY RelayStart, UpStart
  <2>2. RelayInv /\ UpInv /\ [Next]_vars => (RelayInv /\ UpInv)'
    BY RelayNext, UpNext
  <2> QED BY <2>1, <2>2, PTL DEF Spec
<1>2. UpInv => UpstreamIntact
  BY DEF UpInv, UpstreamIntact, Quiet, InOrder, Settled, AtRest
<1> QED BY <1>1, <1>2, PTL

-----------------------------------------------------------------------------
(* From the target to the client, where every write is taken whole.        *)

Whole == ~PartialWrites => sending = NoData

LEMMA WholeNext == Whole /\ [Next]_vars => Whole'
<1> SUFFICES ASSUME ~PartialWrites, sending = NoData, [Next]_vars PROVE sending' = NoData
  BY DEF Whole
<1> QED BY DEF Next, AgentStep, PostStep, Connect, ConnectRefused, WriteRequest, ReadEof,
       ReadTimeout, FailAttempt, ReadResponse, ReplyWritten, ReplyBroken, ReadClient,
       ClientLeaves, PollFires, WriteDone, WriteBroken, vars, agent_vars,
       ServerStep, ConnStep, IdleTimeout, LoseResponse, Reap

\* The answer that waits for the strand brings data.
Incoming == Answered /\ Head(resps[link]).data # NoData

\* What the server has taken from the target is with the client, save for the
\* last of it while that is on its way.
Coming ==
    Incoming => /\ cur.act = "recv"
                /\ Head(resps[link]).data = taken /\ Len(clientGot) + 1 = taken
Arrived == ~Incoming => Len(clientGot) = taken

DownInv == Quiet /\ ~PartialWrites => InOrder(clientGot) /\ Coming /\ Arrived

LEMMA DownStart == Init => DownInv /\ Whole
<1> SUFFICES ASSUME Init PROVE DownInv /\ Whole
  OBVIOUS
<1>1. clientGot = <<>> /\ taken = 0 /\ pc = "attempt" /\ sending = NoData
  BY DEF Init, ServerInit
<1>2. Len(clientGot) = 0 /\ InOrder(clientGot)
  BY <1>1 DEF InOrder
<1> QED BY <1>1, <1>2 DEF DownInv, Coming, Arrived, Incoming, Answered, Whole

\* The steps that bring nothing to the client.
LEMMA NothingComes ==
    ASSUME Whole, ~PartialWrites, [Next]_vars,
           Connect \/ Repeats \/ GivesUp \/ ReplyWritten \/ ReplyBroken
           \/ ReadClient \/ ClientLeaves \/ PollFires \/ WriteDone \/ WriteBroken
    PROVE  UNCHANGED <<taken, clientGot, resps>> /\ ~Answered /\ ~Answered'
<1>1. CASE Connect
  BY <1>1 DEF Connect, session_vars, Answered
<1>2. CASE Repeats \/ GivesUp
  BY <1>2 DEF Repeats, GivesUp, server_vars, session_vars, conn_vars, Answered
<1>3. CASE WriteDone
  BY <1>3 DEF WriteDone, Whole, server_vars, session_vars, conn_vars, Answered
<1>4. CASE ReplyWritten \/ ReplyBroken \/ ReadClient \/ ClientLeaves \/ WriteBroken
  BY <1>4 DEF ReplyWritten, ReplyBroken, ReadClient, ClientLeaves, WriteBroken, CloseTunnel,
              Post, server_vars, session_vars, conn_vars, Answered
<1>5. CASE PollFires
  BY <1>5 DEF PollFires, Post, server_vars, session_vars, conn_vars, Answered
<1> QED BY <1>1, <1>2, <1>3, <1>4, <1>5

\* What the client is given when the strand reads a response.
LEMMA ReadGives ==
    ASSUME RelayInv, Whole, ~PartialWrites, ReadResponse, DownInv, Quiet
    PROVE  /\ Answered /\ ~Answered' /\ UNCHANGED taken
           /\ Incoming => clientGot' = Append(clientGot, taken)
           /\ ~Incoming => UNCHANGED clientGot
<1>1. Answered /\ ~Answered' /\ UNCHANGED taken
  BY DEF ReadResponse, AfterPost, Answered, session_vars
<1>2. Coming
  BY DEF DownInv
<1>3. cur.act = "recv" /\ Head(resps[link]).data # NoData =>
         clientGot' = Append(clientGot, Head(resps[link]).data)
  BY DEF ReadResponse
<1>4. ~(cur.act = "recv" /\ Head(resps[link]).data # NoData) => UNCHANGED clientGot
  BY DEF ReadResponse
<1> QED BY <1>1, <1>2, <1>3, <1>4 DEF Coming, Incoming

LEMMA DownNext == RelayInv /\ DownInv /\ Whole /\ [Next]_vars => DownInv'
<1> SUFFICES ASSUME RelayInv, DownInv, Whole, [Next]_vars, Quiet', ~PartialWrites
             PROVE  InOrder(clientGot') /\ Coming' /\ Arrived'
  BY DEF DownInv
<1>0. Quiet /\ InOrder(clientGot) /\ Coming /\ Arrived
  BY TunnelSteps DEF DownInv
<1>t. /\ clientGot \in Seq(Nat) /\ taken \in Nat /\ Len(clientGot) \in Nat
      /\ link \in Conns \cup {NoLink}
  BY DEF RelayInv, TypeInv, TypeOK, ServerTypeOK, AgentTypeOK
<1>1. CASE ServerDoes
  <2>1. CASE Unseen
    <3>1. (Answered' <=> Answered) /\ UNCHANGED <<cur, link, taken, clientGot>>
          /\ (Answered => UNCHANGED (resps[link]))
      BY <2>1 DEF Unseen, agent_vars, Answered
    <3>2. Incoming' <=> Incoming
      BY <3>1 DEF Incoming
    <3> QED BY <1>0, <3>1, <3>2 DEF Coming, Arrived, Incoming
  <2>2. ASSUME NEW act, NEW d, Answers(act, d)
        PROVE  /\ ~Answered /\ UNCHANGED <<cur, link, clientGot>> /\ cur.act = act
               /\ Head(resps'[link]).data = d /\ Answered'
               /\ Len(clientGot) = taken
    BY <1>0, <2>2 DEF Answers, Answered, agent_vars, Arrived, Incoming
  <2>3. CASE \E act : Answers(act, NoData) /\ UNCHANGED taken
    <3>1. ~Incoming' /\ UNCHANGED <<clientGot, taken>> /\ Len(clientGot) = taken
      BY <2>2, <2>3 DEF Incoming
    <3> QED BY <1>0, <3>1 DEF Coming, Arrived
  <2>4. CASE Answers("recv", taken + 1) /\ taken' = taken + 1
    <3>1. /\ Incoming' /\ UNCHANGED <<clientGot, link>> /\ cur'.act = "recv"
          /\ Len(clientGot) = taken /\ Head(resps'[link]).data = taken + 1
      BY <1>t, <2>2, <2>4 DEF Incoming, NoData
    <3> QED BY <1>0, <2>4, <3>1 DEF Coming, Arrived
  <2> QED BY <1>1, <2>1, <2>3, <2>4 DEF ServerDoes, AnswersOpen, AnswersSend, AnswersRecv,
                                             AnswersClose
<1>2. CASE WriteRequest
  <2>1. resps[link] = <<>>
    BY <1>0, <1>2, <1>t DEF WriteRequest, RelayInv, Alone, Still
  <2>2. ~Incoming /\ ~Incoming' /\ UNCHANGED <<taken, clientGot>>
    BY <1>2, <2>1 DEF WriteRequest, Incoming, Answered, session_vars
  <2> QED BY <1>0, <2>2 DEF Coming, Arrived
<1>3. CASE ReadResponse
  <2>1. ~Incoming' /\ UNCHANGED taken
    BY <1>0, <1>3, ReadGives DEF Incoming
  <2>2. CASE Incoming
    <3>1. clientGot' = Append(clientGot, taken) /\ taken = Len(clientGot) + 1
      BY <1>0, <1>3, <2>2, ReadGives DEF Coming
    <3>2. InOrder(clientGot') /\ Len(clientGot') = taken
      BY <1>0, <1>t, <3>1, NextInOrder
    <3> QED BY <2>1, <3>2 DEF Coming, Arrived
  <2>3. CASE ~Incoming
    BY <1>0, <1>3, <2>1, <2>3, ReadGives DEF Coming, Arrived
  <2> QED BY <2>2, <2>3
<1>4. CASE UNCHANGED <<taken, clientGot, resps>> /\ ~Answered /\ ~Answered'
  BY <1>0, <1>4 DEF Coming, Arrived, Incoming
<1> QED BY <1>1, <1>2, <1>3, <1>4, NothingComes, TunnelSteps

LEMMA DownAlways == Spec => [](RelayInv /\ Whole /\ DownInv)
<1>1. Init => RelayInv /\ Whole /\ DownInv
  BY RelayStart, DownStart
<1>2. RelayInv /\ Whole /\ DownInv /\ [Next]_vars => (RelayInv /\ Whole /\ DownInv)'
  BY RelayNext, WholeNext, DownNext
<1> QED BY <1>1, <1>2, PTL DEF Spec

\* While nothing but an idle connection was cut, and where the client's
\* socket takes whole writes, the client receives what the server took from
\* the target: nothing is lost between two polls, nothing comes twice.
THEOREM DownstreamIntactAlways == ~PartialWrites => (Spec => []DownstreamIntact)
<1> SUFFICES ASSUME ~PartialWrites PROVE Spec => []DownstreamIntact
  OBVIOUS
<1>1. DownInv => DownstreamIntact
  BY DEF DownInv, DownstreamIntact, Quiet, InOrder, Arrived, Incoming, Answered
<1> QED BY <1>1, DownAlways, PTL

-----------------------------------------------------------------------------
(* The close.                                                              *)

\* When the close was answered the session is gone.
Closing ==
    faults = {} /\ ((Answered /\ cur.act = "close") \/ (pc = "closed" /\ tunnelClosed)) => ~session

LEMMA ClosingNext == RelayInv /\ Closing /\ [Next]_vars => Closing'
<1> SUFFICES ASSUME RelayInv, Closing, [Next]_vars, faults' = {},
                    (Answered' /\ cur'.act = "close") \/ (pc' = "closed" /\ tunnelClosed')
             PROVE  ~session'
  BY DEF Closing
<1>0. Quiet /\ Quiet' /\ faults = {}
  BY FaultsGrow DEF Quiet
<1>1. CASE ServerDoes
  <2>1. CASE Unseen
    BY <1>0, <2>1 DEF Unseen, Closing, agent_vars, Answered
  <2>2. CASE AnswersClose
    BY <2>2 DEF AnswersClose
  <2>3. CASE \E act, d : act # "close" /\ Answers(act, d)
    BY <2>3 DEF Answers, agent_vars
  <2> QED BY <1>1, <2>1, <2>2, <2>3 DEF ServerDoes, AnswersOpen, AnswersSend, AnswersRecv
<1>2. CASE Connect
  BY <1>2 DEF Connect, Answered
<1>3. CASE WriteRequest
  <2>1. resps[link] = <<>>
    BY <1>0, <1>3 DEF WriteRequest, RelayInv, TypeInv, TypeOK, AgentTypeOK, Alone, Still
  <2> QED BY <1>3, <2>1 DEF WriteRequest, Answered
<1>4. CASE ReadResponse
  <2>1. Answered /\ pc' = "closed" /\ tunnelClosed /\ UNCHANGED session
    BY <1>4 DEF ReadResponse, AfterPost, Answered, session_vars
  <2>2. cur.act = "close"
    BY <2>1 DEF RelayInv, CloseInv, Answered
  <2> QED BY <1>0, <2>1, <2>2 DEF Closing
<1>5. CASE ReplyBroken
  BY <1>5 DEF ReplyBroken, RelayInv, CloseInv, Posting, Answered
<1>6. CASE Repeats \/ GivesUp
  BY <1>0, <1>6 DEF Repeats, GivesUp, Answered
<1>7. CASE ReplyWritten \/ ReadClient \/ ClientLeaves \/ WriteDone \/ WriteBroken
  BY <1>7 DEF ReplyWritten, ReadClient, ClientLeaves, WriteDone, WriteBroken, CloseTunnel,
              Post, Answered
<1>8. CASE PollFires
  BY <1>0, <1>8 DEF PollFires, Post, Closing, Answered, server_vars, session_vars
<1> QED BY <1>0, <1>1, <1>2, <1>3, <1>4, <1>5, <1>6, <1>7, <1>8, TunnelSteps

\* When no connection failed, a tunnel that was closed leaves no session.
THEOREM SessionRemoved == Spec => []CloseRemovesSession
<1>1. Init => Closing
  BY DEF Init, Closing, Answered
<1>2. Closing => CloseRemovesSession
  BY DEF Closing, CloseRemovesSession
<1> QED BY <1>1, <1>2, ClosingNext, RelayAlways, PTL DEF Spec

-----------------------------------------------------------------------------
(* The pair of pipes.                                                      *)

\* The mapping of PollTunnel!Stream, by name.
Peer == CASE target = "open" -> "there"
          [] target = "none" /\ Posting /\ cur.act = "open" -> "pending"
          [] OTHER -> "gone"
Ended == tunnelClosed \/ pc = "closed"

LEMMA PeerIs ==
    /\ Peer \in {"there", "pending", "gone"} /\ Peer' \in {"there", "pending", "gone"}
    /\ Peer = "there" <=> target = "open"
    /\ (Peer = "there")' <=> target' = "open"
    /\ Peer = "pending" <=> target = "none" /\ Posting /\ cur.act = "open"
    /\ (Peer = "pending")' <=> (target = "none" /\ Posting /\ cur.act = "open")'
BY DEF Peer

\* The abstract steps in terms of this module.
LEMMA AbstractSteps ==
    /\ Peer = "pending" /\ Peer' = "there" /\ UNCHANGED <<upRead, taken, clientGot, Ended>>
       /\ targetGot' = (IF upRead = 1 THEN <<1>> ELSE targetGot) => Stream!PeerJoins
    /\ Peer # "gone" /\ Peer' = "gone"
       /\ UNCHANGED <<upRead, targetGot, taken, clientGot, Ended>> => Stream!PeerLeaves
    /\ ~Ended /\ Peer # "pending" /\ (Peer = "there" => upRead = Len(targetGot))
       /\ upRead' = upRead + 1 /\ UNCHANGED <<targetGot, taken, clientGot, Peer, Ended>>
       => Stream!TakeUp
    /\ Peer = "there" /\ Len(targetGot) < upRead /\ targetGot' = Append(targetGot, upRead)
       /\ UNCHANGED <<upRead, taken, clientGot, Peer, Ended>> => Stream!GiveUp
    /\ Peer # "pending" /\ taken = Len(clientGot) /\ taken' = taken + 1
       /\ UNCHANGED <<upRead, targetGot, clientGot, Peer, Ended>> => Stream!TakeDown
    /\ Len(clientGot) < taken /\ clientGot' = Append(clientGot, taken)
       /\ UNCHANGED <<upRead, targetGot, taken, Peer, Ended>> => Stream!GiveDown
    /\ ~Ended /\ Ended' /\ UNCHANGED <<upRead, targetGot, taken, clientGot, Peer>> => Stream!End
    /\ UNCHANGED <<upRead, targetGot, taken, clientGot, Peer, Ended>>
       => UNCHANGED Stream!stream_vars
<1>1. ASSUME Ended' PROVE Ended' = TRUE
  BY <1>1 DEF Ended
<1> QED
  BY <1>1 DEF Stream!PeerJoins, Stream!PeerLeaves, Stream!TakeUp, Stream!GiveUp, Stream!TakeDown,
         Stream!GiveDown, Stream!End, Stream!stream_vars, Peer, Ended

PipesInv == RelayInv /\ UpInv /\ Whole /\ DownInv

LEMMA PipesAlways == Spec => []PipesInv
<1>1. Init => PipesInv
  BY RelayStart, UpStart, DownStart DEF PipesInv
<1>2. ASSUME PipesInv, [Next]_vars PROVE PipesInv'
  <2>1. TypeInv /\ RelayInv /\ RelayInv'
    BY <1>2, RelayNext DEF PipesInv, RelayInv
  <2>2. UpInv'
    BY <1>2, <2>1, UpNext DEF PipesInv
  <2>3. Whole' /\ DownInv'
    BY <1>2, <2>1, WholeNext, DownNext DEF PipesInv
  <2> QED BY <2>1, <2>2, <2>3 DEF PipesInv
<1> QED BY <1>1, <1>2, PTL DEF Spec

LEMMA PipesStart == Init => Stream!StreamInit
BY DEF Init, ServerInit, Stream!StreamInit, Posting

\* Each step of the server is a step of the pipes.
LEMMA ServerPipes ==
    ASSUME PipesInv, Quiet, ~PartialWrites, ServerDoes
    PROVE  [Stream!StreamNext]_(Stream!stream_vars)
<1>a. /\ Opening /\ Sending /\ Settled /\ Arrived
      /\ upRead \in Nat /\ Len(targetGot) \in Nat
  BY DEF PipesInv, UpInv, DownInv, RelayInv, TypeInv, TypeOK, AgentTypeOK, ServerTypeOK
<1>b. UNCHANGED <<upRead, clientGot, Ended, pc, cur>>
  BY DEF ServerDoes, Unseen, AnswersOpen, AnswersSend, AnswersRecv, AnswersClose, Answers,
         agent_vars, Ended
<1> USE DEF Stream!StreamNext
<1>1. CASE Unseen
  <2>1. UNCHANGED <<taken, targetGot>> /\ (Peer' = Peer \/ (Peer # "gone" /\ Peer' = "gone"))
    BY <1>1, <1>b DEF Unseen, Peer, Posting
  <2> QED BY <1>1, <1>b, <2>1, AbstractSteps DEF Unseen
<1>2. CASE AnswersOpen
  <2>1. Posting /\ cur.act = "open" /\ ~Answered /\ UNCHANGED taken
    BY <1>2 DEF AnswersOpen, Answers, Answered, Posting
  <2>2. target = "none" /\ targetGot = <<>> /\ cur.chunk = upRead /\ upRead \in 0..1
    BY <1>a, <2>1 DEF Opening
  <2>3. Peer = "pending"
    BY <2>1, <2>2, PeerIs
  <2>4. CASE UNCHANGED <<session, target, targetGot>>
    <3>1. UNCHANGED Peer
      BY <1>b, <2>4 DEF Peer, Posting
    <3> QED BY <1>b, <2>1, <2>4, <3>1, AbstractSteps
  <2>5. CASE target' = "open" /\ targetGot' = IF cur.chunk = NoData THEN targetGot
                                              ELSE Append(targetGot, cur.chunk)
    <3>1. targetGot' = IF upRead = 1 THEN <<1>> ELSE targetGot
      <4>1. Append(<<>>, 1) = <<1>>
        OBVIOUS
      <4>2. upRead = 0 \/ upRead = 1
        BY <2>2
      <4> QED BY <2>2, <2>5, <4>1, <4>2 DEF NoData
    <3>2. Peer' = "there"
      BY <2>5, PeerIs
    <3> QED BY <1>b, <2>1, <2>3, <3>1, <3>2, AbstractSteps
  <2>6. CASE target' = "shut" /\ UNCHANGED targetGot
    <3>1. Peer' = "gone"
      BY <2>6, PeerIs
    <3> QED BY <1>b, <2>1, <2>3, <2>6, <3>1, AbstractSteps
  <2> QED BY <1>2, <2>4, <2>5, <2>6 DEF AnswersOpen
<1>3. CASE AnswersSend
  <2>1. Posting /\ cur.act = "send" /\ ~Answered /\ UNCHANGED taken
    BY <1>3 DEF AnswersSend, Answers, Answered, Posting
  <2>2. cur.chunk = upRead /\ (target = "open" => Len(targetGot) + 1 = upRead)
    BY <1>a, <2>1 DEF Sending
  <2>3. CASE target = "open" /\ UNCHANGED target /\ targetGot' = Append(targetGot, cur.chunk)
    <3>1. Peer = "there" /\ Peer' = Peer /\ Len(targetGot) < upRead
      BY <1>a, <2>2, <2>3, PeerIs
    <3> QED BY <1>b, <2>1, <2>2, <2>3, <3>1, AbstractSteps
  <2>4. CASE UNCHANGED <<target, targetGot>> \/ (target' = "shut" /\ UNCHANGED targetGot)
    <3>1. Peer' = Peer \/ (Peer # "gone" /\ Peer' = "gone")
      BY <1>b, <2>1, <2>4 DEF Peer, Posting
    <3> QED BY <1>b, <2>1, <2>4, <3>1, AbstractSteps
  <2> QED BY <1>3, <2>3, <2>4 DEF AnswersSend
<1>4. CASE AnswersRecv
  <2>1. /\ cur.act = "recv" /\ ~Answered /\ UNCHANGED <<target, targetGot>>
        /\ UNCHANGED taken \/ taken' = taken + 1
    BY <1>4 DEF AnswersRecv, Answers, Answered
  <2>2. UNCHANGED Peer /\ Peer # "pending"
    BY <1>b, <2>1, PeerIs DEF Peer, Posting
  <2>3. taken = Len(clientGot)
    BY <1>a, <2>1 DEF Arrived, Incoming
  <2> QED BY <1>b, <2>1, <2>2, <2>3, AbstractSteps
<1>5. CASE AnswersClose
  <2>1. /\ cur.act = "close" /\ UNCHANGED <<taken, targetGot>>
        /\ target' = target \/ target' = "shut"
    BY <1>5 DEF AnswersClose, Answers
  <2>2. Peer' = Peer \/ (Peer # "gone" /\ Peer' = "gone")
    BY <1>b, <2>1 DEF Peer, Posting
  <2> QED BY <1>b, <2>1, <2>2, AbstractSteps
<1> QED BY <1>1, <1>2, <1>3, <1>4, <1>5 DEF ServerDoes

\* And each of the strand's.
LEMMA StrandPipes ==
    ASSUME PipesInv, Quiet, ~PartialWrites, [Next]_vars,
           \/ Connect \/ WriteRequest \/ ReadResponse \/ Repeats \/ GivesUp
           \/ ReplyWritten \/ ReplyBroken
           \/ ReadClient \/ ClientLeaves \/ PollFires \/ WriteDone \/ WriteBroken
    PROVE  [Stream!StreamNext]_(Stream!stream_vars)
<1>a. /\ Settled /\ Coming /\ ClosesLate /\ CloseInv /\ Whole
      /\ clientGot \in Seq(Nat) /\ Len(clientGot) \in Nat /\ taken \in Nat
      /\ cur \in Request
  BY DEF PipesInv, UpInv, DownInv, RelayInv, GrantInv, TypeInv, TypeOK, AgentTypeOK, ServerTypeOK
<1> USE DEF Stream!StreamNext
<1>1. CASE Connect \/ WriteRequest
  <2>1. /\ UNCHANGED <<upRead, targetGot, taken, clientGot, target, cur, tunnelClosed>>
        /\ pc = "attempt" /\ pc' \in {"attempt", "wait"}
    BY <1>1 DEF Connect, WriteRequest, session_vars
  <2>2. UNCHANGED <<Peer, Ended>>
    BY <2>1 DEF Peer, Ended, Posting
  <2> QED BY <2>1, <2>2, AbstractSteps
<1>2. CASE Repeats
  <2>1. /\ UNCHANGED <<upRead, targetGot, taken, clientGot, target, tunnelClosed>>
        /\ pc \in {"attempt", "wait"} /\ pc' = "attempt" /\ cur'.act = cur.act
    BY <1>2, <1>a DEF Repeats, server_vars, session_vars, Posting, Request
  <2>2. UNCHANGED <<Peer, Ended>>
    BY <2>1 DEF Peer, Ended, Posting
  <2> QED BY <2>1, <2>2, AbstractSteps
<1>3. CASE GivesUp
  <2>1. /\ UNCHANGED <<upRead, targetGot, taken, clientGot, target, tunnelClosed, cur>>
        /\ tunnelClosed /\ cur.act = "close"
    BY <1>3, <1>a DEF GivesUp, server_vars, session_vars, ClosesLate
  <2>2. UNCHANGED <<Peer, Ended>>
    BY <2>1 DEF Peer, Ended
  <2> QED BY <2>1, <2>2, AbstractSteps
<1>4. CASE ReadResponse
  <2>1. UNCHANGED <<upRead, targetGot, taken, target, tunnelClosed, cur>>
    BY <1>4 DEF ReadResponse, session_vars
  <2>2. Answered /\ pc = "wait" /\ pc' \in {"reply", "idle", "closed"}
    BY <1>4 DEF ReadResponse, Answered, AfterPost
  <2>3. pc' = "closed" => tunnelClosed
    <3>1. pc' = "closed" => cur.act = "close"
      BY <1>4, <1>a DEF ReadResponse, AfterPost, Request, Actions
    <3> QED BY <1>a, <3>1 DEF ClosesLate
  <2>4. UNCHANGED Ended
    BY <2>1, <2>2, <2>3 DEF Ended
  <2>5. CASE cur.act = "open"
    <3>1. UNCHANGED clientGot
      BY <1>4, <2>5 DEF ReadResponse
    <3>2. Peer' = Peer \/ (Peer # "gone" /\ Peer' = "gone")
      BY <2>1, <2>2 DEF Peer, Posting
    <3> QED BY <2>1, <2>4, <3>1, <3>2, AbstractSteps
  <2>6. CASE cur.act # "open"
    <3>1. UNCHANGED Peer
      BY <2>1, <2>6 DEF Peer
    <3>2. CASE Incoming
      <4>1. clientGot' = Append(clientGot, taken)
        BY <1>4, <3>2, ReadGives DEF PipesInv
      <4>2. Len(clientGot) < taken
        BY <1>a, <3>2 DEF Coming
      <4> QED BY <2>1, <2>4, <3>1, <4>1, <4>2, AbstractSteps
    <3>3. CASE ~Incoming
      <4>1. UNCHANGED clientGot
        BY <1>4, <3>3, ReadGives DEF PipesInv
      <4> QED BY <2>1, <2>4, <3>1, <4>1, AbstractSteps
    <3> QED BY <3>2, <3>3
  <2> QED BY <2>5, <2>6
<1>5. CASE ReplyWritten \/ WriteDone
  <2>1. /\ UNCHANGED <<upRead, targetGot, taken, clientGot, target, tunnelClosed, cur>>
        /\ pc \in {"reply", "idle"} /\ pc' = "idle"
    BY <1>5, <1>a DEF ReplyWritten, WriteDone, Whole, server_vars, session_vars
  <2>2. UNCHANGED <<Peer, Ended>>
    BY <2>1 DEF Peer, Ended, Posting
  <2> QED BY <2>1, <2>2, AbstractSteps
<1>6. CASE ReplyBroken \/ ClientLeaves \/ WriteBroken
  <2>1. /\ UNCHANGED <<upRead, targetGot, taken, clientGot, target>>
        /\ pc \in {"reply", "idle"} /\ (pc' = "closed" \/ tunnelClosed')
        /\ Posting' => cur'.act = "close"
    BY <1>6 DEF ReplyBroken, ClientLeaves, WriteBroken, CloseTunnel, Post, server_vars,
                session_vars, Posting
  <2>2. UNCHANGED Peer
    BY <2>1 DEF Peer, Posting
  <2>3. ~Ended /\ Ended'
    BY <1>a, <2>1 DEF Ended, CloseInv, Posting
  <2> QED BY <2>1, <2>2, <2>3, AbstractSteps
<1>7. CASE ReadClient
  <2>1. /\ UNCHANGED <<targetGot, taken, clientGot, target, tunnelClosed>>
        /\ upRead' = upRead + 1
        /\ pc = "idle" /\ pc' = "attempt" /\ cur'.act = "send"
    BY <1>7 DEF ReadClient, Post, server_vars, session_vars
  <2>2. UNCHANGED Peer /\ Peer # "pending"
    BY <2>1 DEF Peer, Posting
  <2>3. ~Ended /\ UNCHANGED Ended
    BY <1>a, <2>1 DEF Ended, CloseInv, Posting
  <2>4. Peer = "there" => upRead = Len(targetGot)
    BY <1>a, <2>1, PeerIs DEF Settled, AtRest
  <2> QED BY <2>1, <2>2, <2>3, <2>4, AbstractSteps
<1>8. CASE PollFires
  <2>1. /\ UNCHANGED <<upRead, targetGot, taken, clientGot, target, tunnelClosed>>
        /\ \/ UNCHANGED <<pc, cur>>
           \/ pc = "idle" /\ pc' = "attempt" /\ cur'.act = "recv"
    BY <1>8 DEF PollFires, Post, TunnelLive, server_vars, session_vars
  <2>2. UNCHANGED <<Peer, Ended>>
    BY <2>1 DEF Peer, Ended, Posting
  <2> QED BY <2>1, <2>2, AbstractSteps
<1> QED BY <1>1, <1>2, <1>3, <1>4, <1>5, <1>6, <1>7, <1>8

LEMMA PipesNext ==
    ASSUME PipesInv, PipesInv', ~PartialWrites, FaultKinds \subseteq {"idle"}, [Next]_vars
    PROVE  [Stream!StreamNext]_(Stream!stream_vars)
<1>1. Quiet /\ Quiet'
  BY DEF PipesInv, RelayInv, TypeInv, TypeOK, AgentTypeOK, Quiet
<1> QED BY <1>1, TunnelSteps, ServerPipes, StrandPipes DEF PipesInv

\* Where the only fault is the idle timer, and the client's socket takes whole
\* writes, a polled tunnel implements a pair of pipes that hold one chunk
\* each: nothing is lost, repeated or overtaken, and the client is read only
\* when its last chunk is with the target.
THEOREM TunnelImplementsStream ==
    ~PartialWrites /\ FaultKinds \subseteq {"idle"} => (Spec => StreamOK)
<1> SUFFICES ASSUME ~PartialWrites, FaultKinds \subseteq {"idle"} PROVE Spec => StreamOK
  OBVIOUS
<1>1. PipesInv /\ PipesInv' /\ [Next]_vars => [Stream!StreamNext]_(Stream!stream_vars)
  BY PipesNext
<1> QED BY <1>1, PipesStart, PipesAlways, PTL DEF Spec, StreamOK, Stream!StreamSpec

-----------------------------------------------------------------------------
(* What reaches the client, whatever fails.                                *)

\* A chunk the server has taken, and the client has not seen, nor a later one.
Later(d) == d <= taken /\ \A j \in DOMAIN clientGot : clientGot[j] < d

OnTheWay == pc = "wait" => \A i \in DOMAIN resps[link] :
                resps[link][i].data # NoData => Later(resps[link][i].data)

\* DownstreamOrder with what it takes to keep it: the answers on the strand's
\* connection carry nothing the client has, and it has nothing the server has
\* not read.
RiseInv ==
    ~PartialWrites =>
        /\ DownstreamOrder
        /\ \A i \in DOMAIN clientGot : clientGot[i] <= taken
        /\ OnTheWay

LEMMA RespondData ==
    ASSUME TypeInv, NEW c \in Conns, NEW q, NEW ok, NEW data, Respond(c, q, ok, data)
    PROVE  /\ \A i \in DOMAIN resps'[c] :
                 \/ resps'[c][i].data = data
                 \/ i \in DOMAIN resps[c] /\ resps'[c][i] = resps[c][i]
           /\ \A d \in Conns \ {c} : resps'[d] = resps[d]
<1>1. resps[c] \in Seq(Response) /\ resps \in [Conns -> Seq(Response)]
  BY DEF TypeInv, TypeOK, ServerTypeOK
<1> DEFINE r == [req |-> q, ok |-> ok, data |-> data]
<1>2. r.data = data
  OBVIOUS
<1>3. resps' = [resps EXCEPT ![c] = Append(resps[c], r)]
  BY DEF Respond
<1> HIDE DEF r
<1> QED BY <1>1, <1>2, <1>3

\* A handler answers with nothing, or with the chunk it has just taken.
LEMMA HandlerGives ==
    ASSUME TypeInv, NEW c \in Conns, Handler(c)
    PROVE  \/ UNCHANGED <<resps, taken>>
           \/ \E q, ok, data : /\ Respond(c, q, ok, data)
                               /\ \/ data = NoData /\ UNCHANGED taken
                                  \/ data = taken + 1 /\ taken' = taken + 1
<1>1. CASE HandleOpen(c) \/ HandleRecv(c) \/ HandleSend(c)
  BY <1>1 DEF HandleOpen, HandleRecv, HandleSend, Begin, session_vars
<1>2. CASE OpenTarget(c) \/ RefuseTarget(c) \/ WriteTarget(c)
  BY <1>2 DEF OpenTarget, RefuseTarget, WriteTarget, Finish, session_vars
<1>3. CASE ReadTarget(c)
  BY <1>3 DEF ReadTarget, Finish
<1>4. CASE DropSend(c) \/ NothingToRead(c) \/ HandleClose(c)
  BY <1>4 DEF DropSend, NothingToRead, HandleClose, RespondNow, session_vars
<1> QED BY <1>1, <1>2, <1>3, <1>4 DEF Handler

LEMMA RiseHandler ==
    ASSUME TypeInv, TypeInv', RiseInv, ~PartialWrites, NEW c \in Conns, Handler(c),
           UNCHANGED agent_vars
    PROVE  RiseInv'
<1>1. UNCHANGED <<pc, link, clientGot>>
  BY DEF agent_vars
<1>2. clientGot \in Seq(Nat) /\ taken \in Nat /\ (pc = "wait" => link \in Conns)
  BY DEF TypeInv, TypeOK, ServerTypeOK, AgentTypeOK
<1>3. \A j \in DOMAIN clientGot : clientGot[j] \in Nat
  BY <1>2
<1>4. DownstreamOrder' /\ OnTheWay /\ \A i \in DOMAIN clientGot : clientGot[i] <= taken
  BY <1>1 DEF RiseInv, DownstreamOrder
<1>5. CASE UNCHANGED <<resps, taken>>
  BY <1>1, <1>4, <1>5 DEF RiseInv, OnTheWay, Later
<1>6. ASSUME NEW q, NEW ok, NEW data, Respond(c, q, ok, data),
             \/ data = NoData /\ UNCHANGED taken
             \/ data = taken + 1 /\ taken' = taken + 1
      PROVE  RiseInv'
  <2>1. \A i \in DOMAIN clientGot' : clientGot'[i] <= taken'
    BY <1>1, <1>2, <1>3, <1>4, <1>6
  <2>2. data # NoData => Later(data)'
    BY <1>1, <1>2, <1>3, <1>4, <1>6 DEF Later
  <2>3. \A d \in Nat : Later(d) => Later(d)'
    BY <1>1, <1>2, <1>6 DEF Later
  <2>4. ASSUME pc = "wait", NEW i \in DOMAIN resps'[link], NEW d,
               d = resps'[link][i].data, d # NoData
        PROVE  Later(d)'
    <3>1. \/ resps'[link][i].data = data
          \/ i \in DOMAIN resps[link] /\ resps'[link][i] = resps[link][i]
      BY <1>2, <1>6, <2>4, RespondData
    <3>2. CASE i \in DOMAIN resps[link] /\ resps'[link][i] = resps[link][i]
      <4>1. resps[link] \in Seq(Response)
        BY <1>2, <2>4 DEF TypeInv, TypeOK, ServerTypeOK
      <4>2. resps[link][i] \in Response
        BY <3>2, <4>1
      <4>3. d \in Nat /\ d = resps[link][i].data
        BY <2>4, <3>2, <4>2 DEF Response
      <4>4. Later(d)
        BY <1>4, <2>4, <3>2, <4>3 DEF OnTheWay
      <4> QED BY <2>3, <4>3, <4>4
    <3>3. CASE resps'[link][i].data = data
      BY <2>2, <2>4, <3>3
    <3> QED BY <3>1, <3>2, <3>3
  <2>5. OnTheWay'
    BY <1>1, <2>4 DEF OnTheWay, Later
  <2> QED BY <1>4, <2>1, <2>5 DEF RiseInv
<1> QED BY <1>5, <1>6, HandlerGives

LEMMA RiseNext == TypeInv /\ TypeInv' /\ ExchangeInv /\ Whole /\ RiseInv /\ [Next]_vars => RiseInv'
<1> SUFFICES ASSUME TypeInv, TypeInv', ExchangeInv, Whole, RiseInv, [Next]_vars, ~PartialWrites
             PROVE  RiseInv'
  BY DEF RiseInv
<1>t. /\ clientGot \in Seq(Nat) /\ Len(clientGot) \in Nat
      /\ link \in Conns \cup {NoLink} /\ (pc = "wait" => link \in Conns)
  BY DEF TypeInv, TypeOK, AgentTypeOK
<1>a. DownstreamOrder /\ OnTheWay /\ \A i \in DOMAIN clientGot : clientGot[i] <= taken
  BY DEF RiseInv
\* Nothing new reaches the client, and the strand waits for nothing new.
<1>b. ASSUME UNCHANGED <<clientGot, taken>>,
             \/ pc' # "wait"
             \/ pc = "wait" /\ link' = link /\ (resps'[link] = resps[link] \/ resps'[link] = <<>>)
             \/ resps'[link'] = <<>>
      PROVE  RiseInv'
  <2>1. OnTheWay'
    BY <1>a, <1>b DEF OnTheWay, Later
  <2> QED BY <1>a, <1>b, <2>1 DEF RiseInv, DownstreamOrder
<1>1. CASE ServerStep
  <2>1. CASE TargetSends \/ TargetHangsUp
    BY <1>1, <1>b, <2>1 DEF ServerStep, agent_vars, TargetSends, TargetHangsUp, conn_vars
  <2> QED BY <1>1, <2>1, RiseHandler DEF ServerStep, ServerNext
<1>2. CASE UNCHANGED vars
  BY <1>2, <1>b DEF vars, agent_vars, server_vars, session_vars, conn_vars
<1>3. CASE ConnStep
  <2>1. UNCHANGED <<agent_vars, taken>>
    BY <1>3 DEF ConnStep, IdleTimeout, LoseResponse, Reap, session_vars
  <2>2. pc = "wait" => resps'[link] = resps[link] \/ resps'[link] = <<>>
    BY <1>3, <1>t DEF ConnStep, IdleTimeout, LoseResponse, Reap, TypeInv, TypeOK, ServerTypeOK
  <2> QED BY <1>b, <2>1, <2>2 DEF agent_vars
<1>4. CASE Connect \/ ConnectRefused \/ ReadEof \/ ReadTimeout
  BY <1>4, <1>b DEF Connect, ConnectRefused, ReadEof, ReadTimeout, FailAttempt, AfterPost,
                    server_vars, session_vars
<1>5. CASE WriteRequest
  <2>1. link \in Conns /\ pc # "wait"
    BY <1>5, <1>t DEF WriteRequest
  <2>2. InFlight(link) = 0
    BY <2>1 DEF ExchangeInv, OneExchange
  <2>3. resps[link] = <<>>
    BY <2>1, <2>2, EmptyConn
  <2> QED BY <1>5, <1>b, <2>3 DEF WriteRequest, session_vars
<1>6. CASE ReadResponse
  <2>1. pc = "wait" /\ pc' # "wait" /\ UNCHANGED taken /\ resps[link] # <<>>
    BY <1>6 DEF ReadResponse, AfterPost, session_vars
  <2>2. CASE UNCHANGED clientGot
    BY <1>b, <2>1, <2>2
  <2> DEFINE d == Head(resps[link]).data
  <2>3. CASE clientGot' = Append(clientGot, d) /\ d # NoData
    <3>1. resps[link] \in Seq(Response)
      BY <1>t, <2>1 DEF TypeInv, TypeOK, ServerTypeOK
    <3>2. /\ 1 \in DOMAIN resps[link] /\ resps[link][1] = Head(resps[link])
          /\ Head(resps[link]) \in Response
      BY <2>1, <3>1
    <3>3. d \in Nat /\ Later(d)
      BY <1>a, <2>1, <2>3, <3>2 DEF OnTheWay, Response
    <3> HIDE DEF d
    <3>4. \A i, j \in DOMAIN clientGot' : i < j => clientGot'[i] < clientGot'[j]
      BY <1>a, <1>t, <2>3, <3>3 DEF DownstreamOrder, Later
    <3>5. \A i \in DOMAIN clientGot' : clientGot'[i] <= taken'
      BY <1>a, <1>t, <2>1, <2>3, <3>3 DEF Later
    <3> QED BY <2>1, <3>4, <3>5 DEF RiseInv, DownstreamOrder, OnTheWay
  <2> QED BY <1>6, <2>2, <2>3 DEF ReadResponse
<1>7. CASE WriteDone
  BY <1>7, <1>b DEF WriteDone, Whole, server_vars, session_vars
<1>8. CASE ReplyWritten \/ ReplyBroken \/ ReadClient \/ ClientLeaves \/ WriteBroken
  BY <1>8, <1>b DEF ReplyWritten, ReplyBroken, ReadClient, ClientLeaves, WriteBroken,
                    CloseTunnel, Post, server_vars, session_vars
<1>9. CASE PollFires
  BY <1>9, <1>b DEF PollFires, Post, server_vars, session_vars
<1> QED BY <1>1, <1>2, <1>3, <1>4, <1>5, <1>6, <1>7, <1>8, <1>9 DEF Next, AgentStep, PostStep

\* Where the client's socket takes whole writes the client never receives a
\* chunk twice or after a later one, whatever happens to the connections.
THEOREM DownstreamOrderAlways == ~PartialWrites => (Spec => []DownstreamOrder)
<1> SUFFICES ASSUME ~PartialWrites PROVE Spec => []DownstreamOrder
  OBVIOUS
<1>1. Init => RelayInv /\ Whole /\ RiseInv
  <2>1. Init => RiseInv
    BY DEF Init, RiseInv, DownstreamOrder, OnTheWay
  <2> QED BY <2>1, RelayStart, DownStart
<1>2. RelayInv /\ Whole /\ RiseInv /\ [Next]_vars => (RelayInv /\ Whole /\ RiseInv)'
  BY RelayNext, WholeNext, RiseNext DEF RelayInv
<1>3. RiseInv => DownstreamOrder
  BY DEF RiseInv
<1> QED BY <1>1, <1>2, <1>3, PTL DEF Spec

-----------------------------------------------------------------------------
(* How often a chunk reaches the target.                                   *)

Tries == IF Reuse THEN 2 ELSE 1

\* Where chunk k has come to, and where it is on its way: ...
Copies(k) == {i \in DOMAIN targetGot : targetGot[i] = k}
Has(c, k) ==
    \/ \E i \in DOMAIN reqs[c] : reqs[c][i].chunk = k
    \/ Serving(c) /\ held[c].chunk = k
Under(k) == {c \in Conns : Has(c, k)}

\* ... and how many times the strand may still write it.
Left(k) ==
    IF k > upRead THEN Tries
    ELSE IF cur.chunk # k \/ ~Posting THEN 0
    ELSE IF pc = "attempt" THEN IF CanRetry THEN 2 ELSE 1
    ELSE IF CanRetry THEN 1 ELSE 0

Bound(k) ==
    /\ IsFiniteSet(Under(k))
    /\ Cardinality(Copies(k)) + Cardinality(Under(k)) + Left(k) <= Tries

\* BoundedCopies made inductive: the copies that have arrived, those under way
\* and the tries that are left are together no more than the tries.
CopiesInv == cur.chunk <= upRead /\ \A k \in 1..MaxUp : Bound(k)

Untorn == \A c \in Conns : step[c] # "torn"

LEMMA LeftType ==
    ASSUME NEW k \in Nat
    PROVE  Left(k) \in Nat /\ Left(k)' \in Nat /\ Tries \in Nat
BY ServerAssumption DEF Left, Tries, CanRetry

LEMMA CountType ==
    ASSUME NEW q \in Seq(Nat), NEW k
    PROVE  LET S == {i \in DOMAIN q : q[i] = k} IN IsFiniteSet(S) /\ Cardinality(S) \in Nat
<1>1. Len(q) \in Nat /\ DOMAIN q = 1..Len(q)
  BY LenProperties
<1>2. IsFiniteSet(1..Len(q))
  BY <1>1, FS_Interval
<1> DEFINE S == {i \in DOMAIN q : q[i] = k}
<1>3. S \in SUBSET (1..Len(q))
  BY <1>1
<1>4. IsFiniteSet(S)
  BY <1>2, <1>3, FS_Subset
<1> QED BY <1>4, FS_CardinalityType

\* The three numbers of Bound.
LEMMA BoundNumbers ==
    ASSUME TypeInv, TypeInv', NEW k \in 1..MaxUp, IsFiniteSet(Under(k)), IsFiniteSet(Under(k)')
    PROVE  /\ Cardinality(Copies(k)) \in Nat /\ Cardinality(Copies(k)') \in Nat
           /\ Cardinality(Under(k)) \in Nat /\ Cardinality(Under(k)') \in Nat
           /\ Left(k) \in Nat /\ Left(k)' \in Nat /\ Tries \in Nat
           /\ IsFiniteSet(Copies(k))
<1>1. targetGot \in Seq(Nat) /\ targetGot' \in Seq(Nat)
  BY DEF TypeInv, TypeOK, ServerTypeOK
<1>2. /\ IsFiniteSet(Copies(k)) /\ Cardinality(Copies(k)) \in Nat
      /\ Cardinality(Copies(k)') \in Nat
  BY <1>1, CountType DEF Copies
<1>3. k \in Nat
  BY AgentAssumption
<1> QED BY <1>2, <1>3, LeftType, FS_CardinalityType

LEMMA OneMore ==
    ASSUME NEW S, IsFiniteSet(S), NEW x, NEW T \in SUBSET (S \cup {x})
    PROVE  IsFiniteSet(T) /\ Cardinality(T) <= Cardinality(S) + 1
<1>1. /\ IsFiniteSet(S \cup {x}) /\ Cardinality(S) \in Nat
      /\ Cardinality(S \cup {x}) = IF x \in S THEN Cardinality(S) ELSE Cardinality(S) + 1
  BY FS_AddElement, FS_CardinalityType
<1>2. IsFiniteSet(T) /\ Cardinality(T) <= Cardinality(S \cup {x})
  BY <1>1, FS_Subset
<1>3. Cardinality(T) \in Nat
  BY <1>2, FS_CardinalityType
<1> QED BY <1>1, <1>2, <1>3

LEMMA OneLess ==
    ASSUME NEW S, IsFiniteSet(S), NEW x \in S, NEW T \in SUBSET (S \ {x})
    PROVE  IsFiniteSet(T) /\ Cardinality(T) + 1 <= Cardinality(S)
<1>1. /\ IsFiniteSet(S \ {x}) /\ Cardinality(S) \in Nat
      /\ Cardinality(S \ {x}) = Cardinality(S) - 1
  BY FS_RemoveElement, FS_CardinalityType
<1>2. IsFiniteSet(T) /\ Cardinality(T) <= Cardinality(S \ {x})
  BY <1>1, FS_Subset
<1>3. Cardinality(T) \in Nat
  BY <1>2, FS_CardinalityType
<1> QED BY <1>1, <1>2, <1>3

LEMMA Sums ==
    /\ \A a, u, l, v, m, t \in Nat :
          a + u + l <= t /\ v <= u /\ m <= l => a + v + m <= t
    /\ \A a, u, l, v, m, t \in Nat :
          a + u + l <= t /\ v <= u + 1 /\ m + 1 <= l => a + v + m <= t
    /\ \A a, u, l, b, v, t \in Nat :
          a + u + l <= t /\ b <= a + 1 /\ v + 1 <= u => b + v + l <= t
OBVIOUS

\* A step that adds no copy and no request keeps the bound, ...
LEMMA BoundKept ==
    ASSUME TypeInv, TypeInv', NEW k \in 1..MaxUp, Bound(k),
           Copies(k)' = Copies(k), Under(k)' \subseteq Under(k), Left(k)' <= Left(k)
    PROVE  Bound(k)'
<1>1. Copies(k)' = Copies(k) /\ Tries' = Tries
  BY DEF Tries
<1>2. IsFiniteSet(Under(k)) /\ Under(k)' \in SUBSET Under(k)
  BY DEF Bound
<1>3. IsFiniteSet(Under(k)') /\ Cardinality(Under(k)') <= Cardinality(Under(k))
  BY <1>2, FS_Subset
<1> DEFINE a == Cardinality(Copies(k))
           u == Cardinality(Under(k))
           v == Cardinality(Under(k)')
           l == Left(k)
           m == Left(k)'
           t == Tries
<1>4. a \in Nat /\ u \in Nat /\ v \in Nat /\ l \in Nat /\ m \in Nat /\ t \in Nat
  BY <1>2, <1>3, BoundNumbers
<1>5. a + u + l <= t /\ v <= u /\ m <= l
  BY <1>3 DEF Bound
<1> HIDE DEF a, u, v, l, m, t
<1>6. a + v + m <= t
  BY <1>4, <1>5, Sums
<1> QED BY <1>1, <1>3, <1>6 DEF Bound, a, u, v, l, m, t

\* ... and so does the write of a request, which uses up a try, ...
LEMMA BoundWritten ==
    ASSUME TypeInv, TypeInv', NEW k \in 1..MaxUp, Bound(k), NEW c,
           UNCHANGED targetGot, Under(k)' \subseteq Under(k) \cup {c}, Left(k)' + 1 <= Left(k)
    PROVE  Bound(k)'
<1>1. Copies(k)' = Copies(k) /\ Tries' = Tries
  BY DEF Copies, Tries
<1>2. IsFiniteSet(Under(k)) /\ Under(k)' \in SUBSET (Under(k) \cup {c})
  BY DEF Bound
<1>3. IsFiniteSet(Under(k)') /\ Cardinality(Under(k)') <= Cardinality(Under(k)) + 1
  BY <1>2, OneMore
<1> DEFINE a == Cardinality(Copies(k))
           u == Cardinality(Under(k))
           v == Cardinality(Under(k)')
           l == Left(k)
           m == Left(k)'
           t == Tries
<1>4. a \in Nat /\ u \in Nat /\ v \in Nat /\ l \in Nat /\ m \in Nat /\ t \in Nat
  BY <1>2, <1>3, BoundNumbers
<1>5. a + u + l <= t /\ v <= u + 1 /\ m + 1 <= l
  BY <1>3 DEF Bound
<1> HIDE DEF a, u, v, l, m, t
<1>6. a + v + m <= t
  BY <1>4, <1>5, Sums
<1> QED BY <1>1, <1>3, <1>6 DEF Bound, a, u, v, l, m, t

\* ... and a delivery, which uses up a request.
LEMMA BoundDelivered ==
    ASSUME TypeInv, TypeInv', NEW k \in 1..MaxUp, Bound(k), NEW c \in Under(k),
           Under(k)' \subseteq Under(k) \ {c}, Left(k)' = Left(k), Deliver(k)
    PROVE  Bound(k)'
<1>1. targetGot \in Seq(Nat) /\ Tries' = Tries
  BY DEF TypeInv, TypeOK, ServerTypeOK, Tries
<1>2. Copies(k)' \in SUBSET (Copies(k) \cup {Len(targetGot) + 1})
  BY <1>1 DEF Copies, Deliver
<1>3. IsFiniteSet(Under(k))
  BY DEF Bound
<1>4. IsFiniteSet(Under(k)') /\ Cardinality(Under(k)') + 1 <= Cardinality(Under(k))
  BY <1>3, OneLess
<1> DEFINE a == Cardinality(Copies(k))
           b == Cardinality(Copies(k)')
           u == Cardinality(Under(k))
           v == Cardinality(Under(k)')
           l == Left(k)
           t == Tries
<1>5. /\ a \in Nat /\ b \in Nat /\ u \in Nat /\ v \in Nat /\ l \in Nat /\ t \in Nat
      /\ IsFiniteSet(Copies(k))
  BY <1>3, <1>4, BoundNumbers
<1>6. b <= a + 1
  BY <1>2, <1>5, OneMore
<1>7. a + u + l <= t /\ v + 1 <= u
  BY <1>4 DEF Bound
<1> HIDE DEF a, b, u, v, l, t
<1>8. b + v + l <= t
  BY <1>5, <1>6, <1>7, Sums
<1> QED BY <1>1, <1>4, <1>8 DEF Bound, a, b, u, v, l, t

\* What the handlers' steps make of one chunk, torn writes apart.
LEMMA HandlerBound ==
    ASSUME TypeInv, TypeInv', ExchangeInv, ServerStep, NEW c \in Conns, Handler(c),
           step[c] # "torn", NEW k \in 1..MaxUp, Bound(k)
    PROVE  Bound(k)'
<1>1. ReqsKept /\ Left(k)' = Left(k)
  BY ServerReqsKept DEF ServerStep, agent_vars, Left, Posting, CanRetry, Tries
<1>2. \A d \in Conns : (\E i \in DOMAIN reqs'[d] : reqs'[d][i].chunk = k)
                          => \E i \in DOMAIN reqs[d] : reqs[d][i].chunk = k
  BY <1>1 DEF ReqsKept
<1>3. k \in Nat /\ k # 0 /\ targetGot \in Seq(Nat) /\ Left(k) \in Nat
  BY AgentAssumption, LeftType DEF TypeInv, TypeOK, ServerTypeOK
<1>4. ASSUME NEW s, Takes(c, s), \A d \in Conns \ {c} : step'[d] = step[d] \/ d \in Writers
      PROVE  Bound(k)'
  <2>1. \A d \in Conns \ {c} : (Serving(d)' => Serving(d)) /\ held'[d] = held[d]
    BY <1>4 DEF Takes, Serving, Writers
  <2>2. held'[c] = Head(reqs[c]) /\ Head(reqs[c]) = reqs[c][1] /\ 1 \in DOMAIN reqs[c]
    BY <1>4, OnePlace DEF Takes
  <2>3. Under(k)' \subseteq Under(k)
    BY <1>2, <2>1, <2>2 DEF Under, Has
  <2>4. Copies(k)' = Copies(k)
    BY <1>4 DEF Takes, session_vars, Copies
  <2> QED BY <1>1, <1>3, <2>3, <2>4, BoundKept
<1>5. ASSUME NEW q, Ends(c, q) PROVE Under(k)' \subseteq Under(k) \ {c}
  BY <1>5 DEF Ends, Under, Has, Serving
<1>6. ASSUME NEW q, Ends(c, q), UNCHANGED targetGot PROVE Bound(k)'
  <2>1. Copies(k)' = Copies(k)
    BY <1>6 DEF Copies
  <2> QED BY <1>1, <1>3, <1>5, <1>6, <2>1, BoundKept
<1>7. ASSUME NEW q, Ends(c, q), NEW x \in Nat, Deliver(x), x # k PROVE Bound(k)'
  <2>1. Copies(k)' = Copies(k)
    BY <1>3, <1>7 DEF Copies, Deliver
  <2> QED BY <1>1, <1>3, <1>5, <1>7, <2>1, BoundKept
<1>8. ASSUME Serving(c), Ends(c, held[c]), Deliver(held[c].chunk) PROVE Bound(k)'
  <2>1. held[c].chunk \in Nat
    BY <1>8 DEF TypeInv, Request
  <2>2. CASE held[c].chunk = k
    <3>1. c \in Under(k)
      BY <1>8, <2>2 DEF Under, Has
    <3> QED BY <1>1, <1>5, <1>8, <2>2, <3>1, BoundDelivered
  <2>3. CASE held[c].chunk # k
    BY <1>7, <1>8, <2>1, <2>3
  <2> QED BY <2>2, <2>3
<1>9. OpenTarget(c) \/ WriteTarget(c) => UNCHANGED targetGot \/ Deliver(held[c].chunk)
  BY DEF OpenTarget, WriteTarget
<1>10. RefuseTarget(c) \/ ReadTarget(c) \/ DropSend(c) \/ NothingToRead(c) \/ HandleClose(c) =>
         UNCHANGED targetGot
  BY DEF RefuseTarget, ReadTarget, DropSend, NothingToRead, HandleClose, session_vars
<1> QED BY <1>4, <1>6, <1>8, <1>9, <1>10, HandlerDoes

LEMMA ConnBound ==
    ASSUME TypeInv, TypeInv', ConnStep, NEW k \in 1..MaxUp, Bound(k)
    PROVE  Bound(k)'
<1>1. ReqsKept /\ UNCHANGED <<agent_vars, session_vars, step, held>>
  BY ConnReqsKept DEF ConnStep, IdleTimeout, LoseResponse, Reap
<1>2. Left(k)' = Left(k) /\ Left(k) \in Nat
  BY <1>1, AgentAssumption, LeftType DEF agent_vars, Left, Posting, CanRetry, Tries
<1>3. Copies(k)' = Copies(k)
  BY <1>1 DEF session_vars, Copies
<1>4. Under(k)' \subseteq Under(k)
  BY <1>1 DEF ReqsKept, Under, Has, Serving
<1> QED BY <1>2, <1>3, <1>4, BoundKept

\* The strand's steps, the write of a request apart, neither add a copy nor a
\* request, and leave no more tries than before.
LEMMA AgentKeeps ==
    ASSUME TypeInv, NEW k, AgentStep, ~WriteRequest
    PROVE  Copies(k)' = Copies(k) /\ Under(k)' = Under(k)
<1>1. UNCHANGED <<targetGot, step, held, reqs>>
  BY DEF AgentStep, PostStep, Connect, ConnectRefused, WriteRequest, ReadEof, ReadTimeout,
         ReadResponse,
         ReplyWritten, ReplyBroken, ReadClient, ClientLeaves, PollFires, WriteDone, WriteBroken,
         server_vars, session_vars, conn_vars
<1> QED BY <1>1 DEF Copies, Under, Has, Serving

LEMMA LeftOff ==
    ASSUME NEW k \in Nat, upRead' = upRead,
           ~Posting' \/ cur'.chunk # k \/ (Posting /\ cur.chunk = k /\ pc' = pc /\ UNCHANGED cur)
    PROVE  Left(k)' <= Left(k)
BY ServerAssumption DEF Left, Tries, CanRetry, Posting

\* A try that fails is used up, whether or not it had been written.
LEMMA LeftFails ==
    ASSUME TypeInv, NEW k \in Nat, Posting, FailAttempt
    PROVE  Left(k)' <= Left(k)
<1>1. cur \in Request /\ UNCHANGED upRead
  BY DEF FailAttempt, TypeInv, TypeOK, AgentTypeOK
<1>2. CASE CanRetry
  <2>1. /\ pc' = "attempt" /\ cur'.chunk = cur.chunk /\ cur'.act = cur.act /\ cur'.attempt = 2
    BY <1>1, <1>2 DEF FailAttempt, Request
  <2>2. ~CanRetry'
    BY <2>1 DEF CanRetry
  <2>3. Left(k)' = IF k > upRead THEN Tries ELSE IF cur.chunk # k THEN 0 ELSE 1
    BY <1>1, <2>1, <2>2 DEF Left, Posting, Tries
  <2>4. Left(k) = IF k > upRead THEN Tries ELSE IF cur.chunk # k THEN 0
                  ELSE IF pc = "attempt" THEN 2 ELSE 1
    BY <1>2 DEF Left, Posting
  <2> QED BY <2>3, <2>4, LeftType
<1>3. CASE ~CanRetry
  <2>1. ~Posting'
    BY <1>3 DEF FailAttempt, AfterPost, Posting
  <2> QED BY <1>1, <2>1, LeftOff
<1> QED BY <1>2, <1>3

LEMMA AgentBound ==
    ASSUME TypeInv, TypeInv', ExchangeInv, CopiesInv, AgentStep
    PROVE  CopiesInv'
<1>t. /\ cur \in Request /\ upRead \in Nat /\ cur.chunk <= upRead /\ cur.chunk \in Nat
      /\ \A k \in 1..MaxUp : k \in Nat /\ Bound(k)
  <2>1. cur \in Request /\ upRead \in 0..MaxUp
    BY DEF TypeInv, TypeOK, AgentTypeOK
  <2>2. cur.chunk \in Nat
    BY <2>1 DEF Request
  <2> QED BY <2>1, <2>2, AgentAssumption DEF CopiesInv
<1>1. CASE WriteRequest
  <2>1. /\ pc = "attempt" /\ pc' = "wait" /\ UNCHANGED <<cur, upRead, targetGot, step, held>>
    BY <1>1 DEF WriteRequest, session_vars
  <2>2. CASE ~(link \in srvOpen)
    <3>1. UNCHANGED reqs
      BY <1>1, <2>2 DEF WriteRequest
    <3>2. ASSUME NEW k \in 1..MaxUp PROVE Bound(k)'
      <4>1. Left(k)' <= Left(k)
        BY <1>t, <2>1, ServerAssumption DEF Left, Tries, CanRetry, Posting
      <4>2. Under(k)' = Under(k) /\ Copies(k)' = Copies(k)
        BY <2>1, <3>1 DEF Under, Has, Serving, Copies
      <4> QED BY <1>t, <4>1, <4>2, BoundKept
    <3> QED BY <1>t, <2>1, <3>2 DEF CopiesInv
  <2>3. CASE link \in srvOpen
    <3>1. /\ link \in Conns /\ reqs' = [reqs EXCEPT ![link] = Append(@, cur)]
          /\ reqs \in [Conns -> Seq(Request)]
      BY <1>1, <2>3 DEF WriteRequest, TypeInv, TypeOK, ServerTypeOK
    <3>2. /\ \A i \in DOMAIN reqs'[link] : 
                \/ reqs'[link][i] = cur
                \/ i \in DOMAIN reqs[link] /\ reqs'[link][i] = reqs[link][i]
          /\ \A d \in Conns \ {link} : reqs'[d] = reqs[d]
      BY <1>t, <3>1
    <3>3. ASSUME NEW k \in 1..MaxUp PROVE Bound(k)'
      <4>1. CASE k = cur.chunk
        <5>1. Left(k)' + 1 <= Left(k)
          BY <1>t, <2>1, <4>1, ServerAssumption DEF Left, Tries, CanRetry, Posting
        <5>2. Under(k)' \subseteq Under(k) \cup {link}
          BY <2>1, <3>2 DEF Under, Has, Serving
        <5> QED BY <1>t, <2>1, <5>1, <5>2, BoundWritten
      <4>2. CASE k # cur.chunk
        <5>1. Left(k)' <= Left(k)
          BY <1>t, <2>1, <4>2, LeftOff
        <5>2. Under(k)' \subseteq Under(k) /\ Copies(k)' = Copies(k)
          BY <2>1, <3>1, <3>2, <4>2 DEF Under, Has, Serving, Copies
        <5> QED BY <1>t, <5>1, <5>2, BoundKept
      <4> QED BY <4>1, <4>2
    <3> QED BY <1>t, <2>1, <3>3 DEF CopiesInv
  <2> QED BY <2>2, <2>3
<1>2. ASSUME ~WriteRequest, cur'.chunk <= upRead', \A k \in 1..MaxUp : Left(k)' <= Left(k)
      PROVE  CopiesInv'
  BY <1>t, <1>2, AgentKeeps, BoundKept DEF CopiesInv
<1>3. CASE ConnectRefused \/ ReadEof \/ ReadTimeout
  <2>1. Posting /\ FailAttempt /\ ~WriteRequest
    BY <1>3 DEF ConnectRefused, ReadEof, ReadTimeout, WriteRequest, FailAttempt, AfterPost, Posting
  <2>2. cur'.chunk = cur.chunk /\ upRead' = upRead
    BY <1>t, <2>1 DEF FailAttempt, Request
  <2> QED BY <1>t, <1>2, <2>1, <2>2, LeftFails
<1>4. CASE Connect
  <2>1. UNCHANGED <<pc, cur, upRead>> /\ ~WriteRequest
    BY <1>4 DEF Connect, WriteRequest
  <2>2. \A k : Left(k)' = Left(k)
    BY <2>1 DEF Left, Tries, Posting, CanRetry
  <2> QED BY <1>t, <1>2, <2>1, <2>2, LeftType
<1>5. CASE ReadResponse \/ ReplyWritten \/ ReplyBroken \/ WriteDone
  <2>1. UNCHANGED <<cur, upRead>> /\ ~Posting' /\ ~WriteRequest
    BY <1>5 DEF ReadResponse, ReplyWritten, ReplyBroken, WriteDone, AfterPost, Posting, WriteRequest
  <2> QED BY <1>t, <1>2, <2>1, LeftOff
<1>6. CASE ClientLeaves \/ PollFires \/ WriteBroken
  <2>1. /\ UNCHANGED upRead /\ ~WriteRequest
        /\ (~Posting' /\ UNCHANGED cur) \/ cur'.chunk = 0
    BY <1>6 DEF ClientLeaves, PollFires, WriteBroken, CloseTunnel, Post, Posting,
                    WriteRequest, NoData
  <2>2. \A k \in 1..MaxUp : k # 0
    OBVIOUS
  <2> QED BY <1>t, <1>2, <2>1, <2>2, LeftOff
<1>7. CASE ReadClient
  <2>1. /\ upRead' = upRead + 1 /\ pc = "idle" /\ pc' = "attempt" /\ ~WriteRequest
        /\ cur' = [act |-> "send", chunk |-> upRead + 1, attempt |-> 1]
    BY <1>7 DEF ReadClient, Post, WriteRequest
  <2>2. cur'.chunk = upRead + 1 /\ (CanRetry' <=> Reuse)
    BY <2>1 DEF CanRetry
  <2>3. ASSUME NEW k \in Nat PROVE Left(k)' <= Left(k)
    BY <1>t, <2>1, <2>2, ServerAssumption DEF Left, Tries, Posting
  <2> QED BY <1>t, <1>2, <2>1, <2>2, <2>3
<1> QED BY <1>1, <1>3, <1>4, <1>5, <1>6, <1>7 DEF AgentStep, PostStep

LEMMA CopiesStart == Init => CopiesInv
<1> SUFFICES ASSUME Init PROVE CopiesInv
  OBVIOUS
<1>1. /\ targetGot = <<>> /\ reqs = [c \in Conns |-> <<>>] /\ step = [c \in Conns |-> "idle"]
      /\ cur = [act |-> "open", chunk |-> upRead, attempt |-> 1] /\ upRead \in 0..1
      /\ pc = "attempt"
  BY DEF Init, ServerInit
<1>2. ASSUME NEW k \in 1..MaxUp PROVE Bound(k)
  <2>1. Copies(k) = {} /\ Under(k) = {}
    BY <1>1 DEF Copies, Under, Has, Serving
  <2>2. IsFiniteSet({}) /\ Cardinality({}) = 0
    BY FS_EmptySet
  <2>3. Left(k) \in Nat /\ Tries \in Nat /\ Left(k) <= Tries
    BY <1>1, AgentAssumption, ServerAssumption DEF Left, Tries, CanRetry, Posting
  <2> QED BY <2>1, <2>2, <2>3 DEF Bound
<1> QED BY <1>1, <1>2 DEF CopiesInv

LEMMA CopiesNext ==
    ASSUME TypeInv, TypeInv', ExchangeInv, CopiesInv, Untorn, [Next]_vars
    PROVE  CopiesInv'
<1>1. CASE UNCHANGED <<agent_vars, targetGot, reqs, step, held>>
  BY <1>1 DEF agent_vars, CopiesInv, Bound, Copies, Under, Has, Serving, Left, Tries,
                Posting, CanRetry
<1>2. CASE ServerStep
  <2>1. UNCHANGED <<cur, upRead>>
    BY <1>2 DEF ServerStep, agent_vars
  <2>2. CASE TargetSends \/ TargetHangsUp
    BY <1>1, <1>2, <2>2 DEF ServerStep, TargetSends, TargetHangsUp, conn_vars
  <2>3. ASSUME NEW c \in Conns, Handler(c) PROVE CopiesInv'
    BY <1>2, <2>1, <2>3, HandlerBound DEF CopiesInv, Untorn
  <2> QED BY <1>2, <2>2, <2>3 DEF ServerStep, ServerNext
<1>3. CASE ConnStep
  <2>1. UNCHANGED <<cur, upRead>>
    BY <1>3 DEF ConnStep, IdleTimeout, LoseResponse, Reap, agent_vars
  <2> QED BY <1>3, <2>1, ConnBound DEF CopiesInv
<1>4. CASE UNCHANGED vars
  BY <1>1, <1>4 DEF vars, server_vars, session_vars, conn_vars
<1> QED BY <1>2, <1>3, <1>4, AgentBound DEF Next

\* An overlap is remembered, ...
LEMMA MixedStays == mixed /\ [Next]_vars => mixed'
<1> SUFFICES ASSUME mixed, [Next]_vars PROVE mixed'
  OBVIOUS
<1>1. CASE AgentStep \/ ConnStep \/ UNCHANGED vars
  BY <1>1, OthersUnmixed
<1>2. CASE TargetSends \/ TargetHangsUp
  BY <1>2 DEF TargetSends, TargetHangsUp
<1>3. ASSUME NEW c \in Conns, Handler(c) PROVE mixed'
  BY <1>3 DEF Handler, HandleOpen, OpenTarget, RefuseTarget, DropSend, HandleSend, WriteTarget,
              NothingToRead, HandleRecv, ReadTarget, HandleClose, session_vars
<1> QED BY <1>1, <1>2, <1>3 DEF Next, ServerStep, ServerNext

\* ... and only an overlap tears a write.
LEMMA UntornNext ==
    ASSUME TypeInv, ExchangeInv, Untorn, ~mixed', [Next]_vars
    PROVE  Untorn'
<1>1. CASE AgentStep \/ ConnStep \/ TargetSends \/ TargetHangsUp \/ UNCHANGED vars
  BY <1>1, OthersKeep DEF Untorn
<1>2. ASSUME NEW c \in Conns, Handler(c) PROVE Untorn'
  <2>1. ASSUME NEW s, s # "torn", Takes(c, s), \A d \in Conns \ {c} : step'[d] = step[d]
        PROVE  Untorn'
    BY <2>1 DEF Takes, Untorn
  <2>2. HandleSend(c) => Writers = {}
    BY DEF HandleSend
  <2>3. ASSUME NEW q, Ends(c, q) PROVE Untorn'
    BY <2>3 DEF Ends, Untorn
  <2> QED BY <1>2, <2>1, <2>2, <2>3, HandlerDoes
<1> QED BY <1>1, <1>2 DEF Next, ServerStep, ServerNext

\* As long as no two writes to the target overlapped, no chunk reaches it more
\* often than its post is tried: twice where connections are reused, once
\* elsewhere, whatever fails.
THEOREM BoundedCopiesAlways == Spec => []BoundedCopies
<1> DEFINE Inv == RelayInv /\ (mixed \/ (CopiesInv /\ Untorn))
<1>1. Init => Inv
  BY RelayStart, CopiesStart DEF Init, ServerInit, Untorn
<1>2. Inv /\ [Next]_vars => Inv'
  <2> SUFFICES ASSUME Inv, [Next]_vars PROVE Inv'
    OBVIOUS
  <2>1. RelayInv' /\ TypeInv /\ TypeInv' /\ ExchangeInv
    BY RelayNext DEF RelayInv
  <2>2. CASE mixed
    BY <2>1, <2>2, MixedStays
  <2>3. CASE ~mixed' /\ ~mixed
    BY <2>1, <2>3, CopiesNext, UntornNext
  <2> QED BY <2>1, <2>2, <2>3
<1>3. Inv => BoundedCopies
  <2> SUFFICES ASSUME TypeInv, CopiesInv, NEW k \in 1..MaxUp PROVE Cardinality(Copies(k)) <= Tries
    BY DEF RelayInv, BoundedCopies, Copies, Tries
  <2>1. Bound(k) /\ k \in Nat /\ targetGot \in Seq(Nat)
    BY AgentAssumption DEF CopiesInv, TypeInv, TypeOK, ServerTypeOK
  <2> DEFINE a == Cardinality(Copies(k))
             u == Cardinality(Under(k))
             l == Left(k)
             t == Tries
  <2>2. a \in Nat /\ u \in Nat /\ l \in Nat /\ t \in Nat
    BY <2>1, CountType, LeftType, FS_CardinalityType DEF Bound, Copies
  <2>3. a + u + l <= t
    BY <2>1 DEF Bound
  <2> HIDE DEF a, u, l, t
  <2>4. a <= t
    BY <2>2, <2>3
  <2> QED BY <2>4 DEF a, t
<1> QED BY <1>1, <1>2, <1>3, PTL DEF Spec
====
