---------------------------- MODULE PollGrantProofs ----------------------------
(***************************************************************************)
(* Two more theorems about PollTunnel: a post that may not share its       *)
(* connection does not, and an HTTP client that was told its tunnel is     *)
(* established has one.                                                    *)
(***************************************************************************)
EXTENDS PollTunnelProofs

-----------------------------------------------------------------------------
(* A connection for each post.                                             *)

\* Where connections are not reused, the strand gives its connection up
\* before it can take the next post on.
OwnInv ==
    ~Reuse => /\ pc = "wait" => fresh
              /\ pc = "attempt" /\ link # NoLink => fresh
              /\ pc = "idle" => link = NoLink

LEMMA OwnNext == OwnInv /\ [Next]_vars => OwnInv'
<1> SUFFICES ASSUME OwnInv, [Next]_vars PROVE OwnInv'
  OBVIOUS
<1> USE DEF OwnInv
<1>1. CASE ConnectRefused \/ ReadEof \/ ReadTimeout
  <2>1. link' = NoLink /\ pc' # "wait"
    BY <1>1 DEF ConnectRefused, ReadEof, ReadTimeout, FailAttempt, Shutdown, AfterPost
  <2>2. QED
    BY <2>1
<1>2. CASE Connect \/ WriteRequest
  BY <1>2 DEF Connect, WriteRequest
<1>3. CASE ReadResponse
  <2>1. CASE cur.act = "open"
    BY <1>3, <2>1 DEF ReadResponse
  <2>2. CASE cur.act # "open"
    <3>1. ~Reuse => link' = NoLink
      BY <1>3, <2>2 DEF ReadResponse, KeepAlive
    <3>2. pc' # "wait"
      BY <1>3, <2>2 DEF ReadResponse, AfterPost
    <3>3. QED
      BY <3>1, <3>2
  <2>3. QED
    BY <2>1, <2>2
<1>4. CASE ReplyWritten \/ ReplyBroken \/ WriteDone
  BY <1>4 DEF ReplyWritten, ReplyBroken, WriteDone
<1>5. CASE ReadClient \/ ClientLeaves \/ PollFires \/ WriteBroken
  BY <1>5 DEF ReadClient, ClientLeaves, PollFires, WriteBroken, CloseTunnel, Post, TunnelLive
<1>6. CASE ServerStep \/ ConnStep \/ UNCHANGED vars
  <2>1. UNCHANGED agent_vars
    BY <1>6 DEF ServerStep, ConnStep, IdleTimeout, LoseResponse, Reap, vars
  <2>2. QED
    BY <2>1 DEF agent_vars
<1>7. QED
  BY <1>1, <1>2, <1>3, <1>4, <1>5, <1>6 DEF Next, AgentStep, PostStep

\* Where connectionReuse is off, no post waits on a connection that has
\* carried another one, whatever failed and whenever the client or the poll
\* timer asked for the post.
THEOREM OwnConnectionCorrect == Spec => []OwnConnection
<1>1. Init => OwnInv
  BY DEF Init, OwnInv
<1>2. OwnInv => OwnConnection
  BY DEF OwnInv, OwnConnection
<1>3. QED
  BY <1>1, <1>2, OwnNext, PTL DEF Spec

-----------------------------------------------------------------------------
(* What an "established" rests on.                                         *)

\* The server has connected to the target, and only the tunnel's own close
\* takes the session away again.
Granted == target # "none" /\ (session \/ tunnelClosed)

\* A close is on its way only once the strand has closed the tunnel.
ClosesLate ==
    /\ cur.act = "close" => tunnelClosed
    /\ \A c \in Conns : \A i \in DOMAIN reqs[c] :
          reqs[c][i].act = "close" => tunnelClosed

\* A handler that is not connecting to the target works on no open...
OpensConnect ==
    \A c \in Conns : Serving(c) /\ step[c] # "connect" => held[c].act # "open"

\* ... so a positive answer to an open is given by OpenTarget alone.
OpenAnswers ==
    \A c \in Conns : \A i \in DOMAIN resps[c] :
        resps[c][i].ok /\ resps[c][i].req.act = "open" => Granted

GrantInv ==
    /\ ClosesLate /\ OpensConnect /\ OpenAnswers
    /\ Protocol = "http" /\ reply = "established" => Granted

\* The requests that a step of the server leaves on their way were there.
ReqsKept ==
    \A d \in Conns : \A i \in DOMAIN reqs'[d] :
        \E j \in DOMAIN reqs[d] : reqs'[d][i] = reqs[d][j]

LEMMA TailKept ==
    ASSUME TypeInv, NEW c \in Conns, NEW act, Asked(c, act),
           reqs' = [reqs EXCEPT ![c] = Tail(@)]
    PROVE  ReqsKept
<1>1. \A i \in DOMAIN Tail(reqs[c]) :
         i + 1 \in DOMAIN reqs[c] /\ Tail(reqs[c])[i] = reqs[c][i + 1]
  BY AskedMove
<1>2. reqs'[c] = Tail(reqs[c]) /\ \A d \in Conns \ {c} : reqs'[d] = reqs[d]
  BY DEF TypeInv, TypeOK, ServerTypeOK
<1>3. QED
  BY <1>1, <1>2 DEF ReqsKept

LEMMA ServerReqsKept ==
    ASSUME TypeInv, ServerStep
    PROVE  ReqsKept
<1>1. ASSUME NEW c \in Conns, HandleOpen(c) \/ HandleRecv(c) \/ HandleSend(c)
      PROVE  ReqsKept
  <2>1. \E act : Asked(c, act)
    BY <1>1 DEF HandleOpen, HandleRecv, HandleSend
  <2>2. reqs' = [reqs EXCEPT ![c] = Tail(@)]
    BY <1>1 DEF HandleOpen, HandleRecv, HandleSend, Begin
  <2>3. QED
    BY <1>1, <2>1, <2>2, TailKept
<1>2. ASSUME NEW c \in Conns, DropSend(c) \/ NothingToRead(c) \/ HandleClose(c)
      PROVE  ReqsKept
  <2>1. \E act : Asked(c, act)
    BY <1>2 DEF DropSend, NothingToRead, HandleClose
  <2>2. reqs' = [reqs EXCEPT ![c] = Tail(@)]
    BY <1>2 DEF DropSend, NothingToRead, HandleClose, RespondNow
  <2>3. QED
    BY <1>2, <2>1, <2>2, TailKept
<1>3. ASSUME NEW c \in Conns,
             OpenTarget(c) \/ RefuseTarget(c) \/ WriteTarget(c) \/ ReadTarget(c)
      PROVE  ReqsKept
  <2>1. UNCHANGED reqs
    BY <1>3 DEF OpenTarget, RefuseTarget, WriteTarget, ReadTarget, Finish
  <2>2. QED
    BY <2>1 DEF ReqsKept
<1>4. CASE TargetSends \/ TargetHangsUp
  BY <1>4 DEF TargetSends, TargetHangsUp, conn_vars, ReqsKept
<1>5. QED
  BY <1>1, <1>2, <1>3, <1>4 DEF ServerStep, ServerNext, Handler

LEMMA ConnReqsKept ==
    ASSUME TypeInv, ConnStep
    PROVE  ReqsKept
<1>1. \A d \in Conns : reqs'[d] = reqs[d] \/ reqs'[d] = <<>>
  BY DEF ConnStep, IdleTimeout, LoseResponse, Reap, TypeInv, TypeOK, ServerTypeOK
<1>2. DOMAIN <<>> = {}
  OBVIOUS
<1>3. QED
  BY <1>1, <1>2 DEF ReqsKept

LEMMA KeptClosesLate ==
    ASSUME ClosesLate, ReqsKept, UNCHANGED <<cur, tunnelClosed>>
    PROVE  ClosesLate'
  BY DEF ClosesLate, ReqsKept

LEMMA ClosesLateNext == TypeInv /\ ClosesLate /\ [Next]_vars => ClosesLate'
<1> SUFFICES ASSUME TypeInv, ClosesLate, [Next]_vars PROVE ClosesLate'
  OBVIOUS
<1>1. CASE ServerStep \/ ConnStep
  <2>1. UNCHANGED <<cur, tunnelClosed>>
    BY <1>1 DEF ServerStep, ConnStep, IdleTimeout, LoseResponse, Reap, agent_vars
  <2>2. QED
    BY <1>1, <2>1, ServerReqsKept, ConnReqsKept, KeptClosesLate
<1>2. CASE WriteRequest
  <2>1. link \in Conns /\ reqs[link] \in Seq(Request) /\ cur \in Request
    BY <1>2 DEF WriteRequest, TypeInv, TypeOK, ServerTypeOK, AgentTypeOK
  <2>2. \A i \in DOMAIN Append(reqs[link], cur) :
           \/ Append(reqs[link], cur)[i] = cur
           \/ i \in DOMAIN reqs[link] /\ Append(reqs[link], cur)[i] = reqs[link][i]
    BY <2>1
  <2>3. /\ \A d \in Conns \ {link} : reqs'[d] = reqs[d]
        /\ reqs'[link] = reqs[link] \/ reqs'[link] = Append(reqs[link], cur)
        /\ UNCHANGED <<cur, tunnelClosed>>
    BY <1>2, <2>1 DEF WriteRequest, TypeInv, TypeOK, ServerTypeOK
  <2>4. QED
    BY <2>1, <2>2, <2>3 DEF ClosesLate
<1>3. CASE ConnectRefused \/ ReadEof \/ ReadTimeout
  <2>1. FailAttempt /\ UNCHANGED <<reqs, tunnelClosed>>
    BY <1>3 DEF ConnectRefused, ReadEof, ReadTimeout, server_vars, conn_vars, FailAttempt
  <2>2. cur'.act = cur.act
    BY <2>1 DEF FailAttempt, AfterPost, TypeInv, TypeOK, AgentTypeOK, Request
  <2>3. QED
    BY <2>1, <2>2 DEF ClosesLate
<1>4. CASE Connect \/ ReadResponse \/ ReplyWritten \/ ReplyBroken \/ WriteDone \/ UNCHANGED vars
  <2>1. UNCHANGED <<cur, tunnelClosed, reqs>>
    BY <1>4 DEF Connect, ReadResponse, ReplyWritten, ReplyBroken, WriteDone,
                vars, server_vars, conn_vars, agent_vars
  <2>2. QED
    BY <2>1 DEF ClosesLate
<1>5. CASE ReadClient \/ PollFires
  <2>1. /\ UNCHANGED <<tunnelClosed, reqs>>
        /\ cur' = cur \/ cur'.act # "close"
    BY <1>5 DEF ReadClient, PollFires, Post, server_vars, conn_vars
  <2>2. QED
    BY <2>1 DEF ClosesLate
<1>6. CASE ClientLeaves \/ WriteBroken
  BY <1>6 DEF ClientLeaves, WriteBroken, CloseTunnel, ClosesLate
<1>7. QED
  BY <1>1, <1>2, <1>3, <1>4, <1>5, <1>6 DEF Next, AgentStep, PostStep

LEMMA OpensConnectNext == TypeInv /\ OpensConnect /\ [Next]_vars => OpensConnect'
<1> SUFFICES ASSUME TypeInv, OpensConnect, [Next]_vars PROVE OpensConnect'
  OBVIOUS
<1> USE DEF OpensConnect, Serving
<1>0. step \in [Conns -> Steps] /\ held \in [Conns -> Request \cup {NoRequest}]
  BY DEF TypeInv, TypeOK, ServerTypeOK
<1>1. ASSUME NEW c \in Conns, HandleOpen(c) \/ HandleRecv(c) PROVE OpensConnect'
  BY <1>0, <1>1 DEF HandleOpen, HandleRecv, Begin, Asked
<1>2. ASSUME NEW c \in Conns, HandleSend(c) PROVE OpensConnect'
  BY <1>0, <1>2 DEF HandleSend, Asked, Writers
<1>3. ASSUME NEW c \in Conns, DropSend(c) \/ NothingToRead(c) \/ HandleClose(c)
      PROVE OpensConnect'
  BY <1>3 DEF DropSend, NothingToRead, HandleClose, RespondNow
<1>4. ASSUME NEW c \in Conns,
             OpenTarget(c) \/ RefuseTarget(c) \/ WriteTarget(c) \/ ReadTarget(c)
      PROVE  OpensConnect'
  <2>1. \E ok, data : Finish(c, ok, data)
    BY <1>4 DEF OpenTarget, RefuseTarget, WriteTarget, ReadTarget
  <2>2. QED
    BY <1>0, <1>4, <2>1 DEF Finish
<1>5. CASE TargetSends \/ TargetHangsUp \/ ConnStep
  BY <1>5 DEF TargetSends, TargetHangsUp, conn_vars, ConnStep, IdleTimeout, LoseResponse, Reap
<1>6. CASE AgentStep \/ UNCHANGED vars
  <2>1. UNCHANGED <<step, held>>
    BY <1>6 DEF AgentStep, PostStep, Connect, ConnectRefused, WriteRequest, ReadEof,
                ReadTimeout, ReadResponse, ReplyWritten, ReplyBroken, ReadClient,
                ClientLeaves, PollFires, WriteDone, WriteBroken, vars, server_vars, conn_vars
  <2>2. QED
    BY <2>1
<1>7. QED
  BY <1>1, <1>2, <1>3, <1>4, <1>5, <1>6 DEF Next, ServerStep, ServerNext, Handler

\* A grant outlives every step: the only handler that erases the session has
\* a close to answer.
LEMMA GrantedStays ==
    ASSUME TypeInv, ClosesLate, Granted, [Next]_vars
    PROVE  Granted'
<1> USE DEF Granted
<1>1. tunnelClosed => tunnelClosed'
  BY DEF Next, AgentStep, PostStep, Connect, ConnectRefused, WriteRequest, ReadEof,
         ReadTimeout, ReadResponse, FailAttempt, ReplyWritten, ReplyBroken, ReadClient,
         ClientLeaves, CloseTunnel, PollFires, WriteDone, WriteBroken, ServerStep,
         ConnStep, IdleTimeout, LoseResponse, Reap, vars, agent_vars
<1>2. CASE UNCHANGED <<session, target>>
  BY <1>1, <1>2
<1>3. ASSUME NEW c \in Conns, HandleClose(c) PROVE Granted'
  <2>1. tunnelClosed
    <3>1. 1 \in DOMAIN reqs[c] /\ reqs[c][1].act = "close"
      BY <1>3, AskedMove DEF HandleClose, Asked
    <3>2. QED
      BY <1>3, <3>1 DEF ClosesLate
  <2>2. target' # "none"
    BY <1>3 DEF HandleClose
  <2>3. QED
    BY <1>1, <2>1, <2>2
<1>4. ASSUME NEW c \in Conns, OpenTarget(c) \/ WriteTarget(c) \/ ReadTarget(c)
      PROVE  Granted'
  BY <1>1, <1>4 DEF OpenTarget, WriteTarget, ReadTarget
<1>5. CASE TargetSends \/ TargetHangsUp
  BY <1>1, <1>5 DEF TargetSends, TargetHangsUp
<1>6. CASE AgentStep \/ ConnStep \/ UNCHANGED vars
  <2>1. UNCHANGED <<session, target>>
    BY <1>6 DEF AgentStep, session_vars, PostStep, Connect, ConnectRefused, WriteRequest, ReadEof,
                ReadTimeout, ReadResponse, ReplyWritten, ReplyBroken, ReadClient,
                ClientLeaves, PollFires, WriteDone, WriteBroken, ConnStep, IdleTimeout,
                LoseResponse, Reap, vars, server_vars
  <2>2. QED
    BY <1>2, <2>1
<1>7. ASSUME NEW c \in Conns, Handler(c) PROVE Granted'
  BY <1>2, <1>3, <1>4, <1>7
     DEF Handler, HandleOpen, RefuseTarget, DropSend, HandleSend, NothingToRead, HandleRecv,
         session_vars
<1>8. QED
  BY <1>5, <1>6, <1>7 DEF Next, ServerStep, ServerNext

\* Respond adds the response it says, and keeps the others.
LEMMA RespondAdds ==
    ASSUME TypeInv, NEW c \in Conns, NEW q, NEW ok, NEW data, Respond(c, q, ok, data)
    PROVE  /\ \A i \in DOMAIN resps'[c] :
                 \/ resps'[c][i] = [req |-> q, ok |-> ok, data |-> data]
                 \/ i \in DOMAIN resps[c] /\ resps'[c][i] = resps[c][i]
           /\ \A d \in Conns \ {c} : resps'[d] = resps[d]
<1>1. resps \in [Conns -> Seq(Response)]
  BY DEF TypeInv, TypeOK, ServerTypeOK
<1>2. /\ resps'[c] = Append(resps[c], [req |-> q, ok |-> ok, data |-> data])
      /\ \A d \in Conns \ {c} : resps'[d] = resps[d]
  BY <1>1 DEF Respond
<1>3. QED
  BY <1>1, <1>2

LEMMA RespondKeepsAnswers ==
    ASSUME TypeInv, OpenAnswers, Granted => Granted',
           NEW c \in Conns, NEW q, NEW ok, NEW data, Respond(c, q, ok, data),
           ok /\ q.act = "open" => Granted'
    PROVE  OpenAnswers'
<1>1. ASSUME NEW d \in Conns, NEW i \in DOMAIN resps'[d],
             resps'[d][i].ok, resps'[d][i].req.act = "open"
      PROVE  Granted'
  <2>1. CASE i \in DOMAIN resps[d] /\ resps'[d][i] = resps[d][i]
    BY <1>1, <2>1 DEF OpenAnswers
  <2>2. CASE d = c /\ resps'[d][i] = [req |-> q, ok |-> ok, data |-> data]
    BY <1>1, <2>2
  <2>3. QED
    BY <1>1, <2>1, <2>2, RespondAdds
<1>2. QED
  BY <1>1 DEF OpenAnswers

LEMMA OpenAnswersNext ==
    TypeInv /\ ClosesLate /\ OpensConnect /\ OpenAnswers /\ [Next]_vars => OpenAnswers'
<1> SUFFICES ASSUME TypeInv, ClosesLate, OpensConnect, OpenAnswers, [Next]_vars
             PROVE  OpenAnswers'
  OBVIOUS
<1>0. Granted => Granted'
  BY GrantedStays
<1>1. CASE UNCHANGED resps
  BY <1>0, <1>1 DEF OpenAnswers
<1>2. ASSUME NEW c \in Conns, OpenTarget(c) PROVE OpenAnswers'
  <2>1. Respond(c, held[c], TRUE, NoData)
    BY <1>2 DEF OpenTarget, Finish
  <2>2. Granted'
    BY <1>2 DEF OpenTarget, Granted
  <2>3. QED
    BY <1>0, <1>2, <2>1, <2>2, RespondKeepsAnswers
<1>3. ASSUME NEW c \in Conns, RefuseTarget(c) PROVE OpenAnswers'
  <2>1. Respond(c, held[c], FALSE, NoData)
    BY <1>3 DEF RefuseTarget, Finish
  <2>2. QED
    BY <1>0, <1>3, <2>1, RespondKeepsAnswers
<1>4. ASSUME NEW c \in Conns, WriteTarget(c) \/ ReadTarget(c) PROVE OpenAnswers'
  <2>1. held[c].act # "open"
    BY <1>4 DEF WriteTarget, ReadTarget, Writers, OpensConnect, Serving
  <2>2. \E data : Respond(c, held[c], TRUE, data)
    BY <1>4 DEF WriteTarget, ReadTarget, Finish
  <2>3. QED
    BY <1>0, <1>4, <2>1, <2>2, RespondKeepsAnswers
<1>5. ASSUME NEW c \in Conns, DropSend(c) \/ NothingToRead(c) \/ HandleClose(c)
      PROVE  OpenAnswers'
  <2>1. Head(reqs[c]).act # "open"
    BY <1>5 DEF DropSend, NothingToRead, HandleClose, Asked
  <2>2. Respond(c, Head(reqs[c]), TRUE, NoData)
    BY <1>5 DEF DropSend, NothingToRead, HandleClose, RespondNow
  <2>3. QED
    BY <1>0, <1>5, <2>1, <2>2, RespondKeepsAnswers
<1>6. ASSUME NEW c \in Conns, Handler(c) PROVE OpenAnswers'
  BY <1>1, <1>2, <1>3, <1>4, <1>5, <1>6 DEF Handler, HandleOpen, HandleSend, HandleRecv, Begin
<1>7. CASE ConnStep
  <2>1. \A d \in Conns : resps'[d] = resps[d] \/ resps'[d] = <<>>
    BY <1>7 DEF ConnStep, IdleTimeout, LoseResponse, Reap, TypeInv, TypeOK, ServerTypeOK
  <2>2. DOMAIN <<>> = {}
    OBVIOUS
  <2>3. QED
    BY <1>0, <2>1, <2>2 DEF OpenAnswers
<1>8. CASE ReadResponse
  <2>1. link \in Conns /\ resps[link] \in Seq(Response) /\ resps[link] # <<>>
    BY <1>8 DEF ReadResponse, TypeInv, TypeOK, ServerTypeOK
  <2>2. /\ resps'[link] = Tail(resps[link])
        /\ \A d \in Conns \ {link} : resps'[d] = resps[d]
    BY <1>8, <2>1 DEF ReadResponse, Unread, TypeInv, TypeOK, ServerTypeOK
  <2>3. \A i \in DOMAIN Tail(resps[link]) :
           i + 1 \in DOMAIN resps[link] /\ Tail(resps[link])[i] = resps[link][i + 1]
    BY <2>1
  <2>4. \A d \in Conns : \A i \in DOMAIN resps'[d] :
           \E j \in DOMAIN resps[d] : resps'[d][i] = resps[d][j]
    BY <2>2, <2>3
  <2>5. QED
    BY <1>0, <2>4 DEF OpenAnswers
<1>9. CASE AgentStep \/ UNCHANGED vars
  BY <1>1, <1>8, <1>9
     DEF AgentStep, PostStep, Connect, ConnectRefused, WriteRequest, ReadEof,
         ReadTimeout, ReplyWritten, ReplyBroken, ReadClient,
         ClientLeaves, PollFires, WriteDone, WriteBroken, vars, server_vars, conn_vars
<1>10. CASE TargetSends \/ TargetHangsUp
  BY <1>1, <1>10 DEF TargetSends, TargetHangsUp, conn_vars
<1>11. QED
  BY <1>6, <1>7, <1>9, <1>10 DEF Next, ServerStep, ServerNext

LEMMA ReplyNext ==
    ASSUME TypeInv, ExchangeInv, GrantInv, [Next]_vars,
           Protocol = "http", reply' = "established"
    PROVE  Granted'
<1>0. Granted => Granted'
  BY GrantedStays DEF GrantInv
<1>1. CASE UNCHANGED reply
  BY <1>0, <1>1 DEF GrantInv
<1>2. CASE ReadResponse /\ cur.act = "open"
  <2>1. /\ link \in Conns /\ 1 \in DOMAIN resps[link]
        /\ Head(resps[link]) = resps[link][1]
    BY <1>2 DEF ReadResponse, TypeInv, TypeOK, ServerTypeOK
  <2>2. resps[link][1].req = cur
    BY <1>2, <2>1 DEF ReadResponse, ExchangeInv, Carries
  <2>3. resps[link][1].ok
    BY <1>2, <2>1 DEF ReadResponse, ReplyTo
  <2>4. QED
    BY <1>0, <1>2, <2>1, <2>2, <2>3 DEF GrantInv, OpenAnswers
<1>3. CASE AgentStep
  BY <1>1, <1>2, <1>3
     DEF AgentStep, PostStep, Connect, ConnectRefused, WriteRequest, ReadEof,
         ReadTimeout, ReadResponse, FailAttempt, ReplyWritten, ReplyBroken, ReadClient,
         ClientLeaves, PollFires, WriteDone, WriteBroken
<1>4. CASE ServerStep \/ ConnStep \/ UNCHANGED vars
  <2>1. UNCHANGED agent_vars
    BY <1>4 DEF ServerStep, ConnStep, IdleTimeout, LoseResponse, Reap, vars
  <2>2. QED
    BY <1>1, <2>1 DEF agent_vars
<1>5. QED
  BY <1>3, <1>4 DEF Next

LEMMA GrantNext == TypeInv /\ ExchangeInv /\ GrantInv /\ [Next]_vars => GrantInv'
  BY ClosesLateNext, OpensConnectNext, OpenAnswersNext, ReplyNext DEF GrantInv

LEMMA GrantInit == Init => GrantInv
<1> SUFFICES ASSUME Init PROVE GrantInv
  OBVIOUS
<1>1. cur.act = "open" /\ reply = "none"
  BY DEF Init
<1>2. DOMAIN <<>> = {}
  OBVIOUS
<1>3. \A c \in Conns : reqs[c] = <<>> /\ resps[c] = <<>> /\ ~Serving(c)
  BY DEF Init, ServerInit, Serving
<1>4. QED
  BY <1>1, <1>2, <1>3 DEF GrantInv, ClosesLate, OpensConnect, OpenAnswers

THEOREM GrantInvCorrect == Spec => []GrantInv
  BY GrantInit, GrantNext, TypeInvCorrect, ExchangeCorrect, PTL DEF Spec

\* An HTTP client that got its 200 has a tunnel: the server connected to the
\* target, and no other post, retry or late handler takes the session away
\* before the strand has closed the tunnel.
THEOREM HttpGrantIsReal == Protocol = "http" => (Spec => []GrantIsReal)
<1> SUFFICES ASSUME Protocol = "http" PROVE Spec => []GrantIsReal
  OBVIOUS
<1>1. GrantInv => GrantIsReal
  BY DEF GrantInv, GrantIsReal, Granted, TunnelLive
<1>2. QED
  BY <1>1, GrantInvCorrect, PTL
=============================================================================
