--------------------------- MODULE PollTunnelProofs ---------------------------
(***************************************************************************)
(* Proofs about PollTunnel, for any set of connections and any bounds.     *)
(***************************************************************************)
EXTENDS PollTunnel, TLAPS

USE ServerAssumption, AgentAssumption

\* The type invariant, with what it rests on: a handler at work holds a
\* request, and a strand that waits for a response has a connection.
TypeInv ==
    /\ TypeOK
    /\ \A c \in Conns : Serving(c) => held[c] \in Request
    /\ pc = "wait" => link \in Conns

-----------------------------------------------------------------------------
(* The server keeps the types.                                             *)

LEMMA RespondType ==
    ASSUME TypeInv, NEW c \in Conns, NEW q \in Request, NEW ok \in BOOLEAN,
           NEW data \in Nat, Respond(c, q, ok, data)
    PROVE  resps' \in [Conns -> Seq(Response)] /\ srvOpen' \subseteq Conns
<1>1. [req |-> q, ok |-> ok, data |-> data] \in Response
  BY DEF Response
<1>2. resps[c] \in Seq(Response)
  BY DEF TypeInv, TypeOK, ServerTypeOK
<1>3. Append(resps[c], [req |-> q, ok |-> ok, data |-> data]) \in Seq(Response)
  BY <1>1, <1>2
<1>4. QED
  BY <1>3 DEF Respond, TypeInv, TypeOK, ServerTypeOK

LEMMA AskedType ==
    ASSUME TypeInv, NEW c \in Conns, NEW act, Asked(c, act)
    PROVE  Head(reqs[c]) \in Request /\ Tail(reqs[c]) \in Seq(Request)
<1>1. reqs[c] \in Seq(Request) /\ reqs[c] # <<>>
  BY DEF TypeInv, TypeOK, ServerTypeOK, Asked
<1>2. QED
  BY <1>1

LEMMA RespondNowType ==
    ASSUME TypeInv, NEW c \in Conns, NEW act, Asked(c, act), RespondNow(c, NoData)
    PROVE  /\ resps' \in [Conns -> Seq(Response)] /\ srvOpen' \subseteq Conns
           /\ reqs' \in [Conns -> Seq(Request)]
           /\ UNCHANGED <<step, held>>
<1>1. Head(reqs[c]) \in Request /\ Tail(reqs[c]) \in Seq(Request)
  BY AskedType
<1>2. Respond(c, Head(reqs[c]), TRUE, NoData)
  BY DEF RespondNow
<1>3. resps' \in [Conns -> Seq(Response)] /\ srvOpen' \subseteq Conns
  BY <1>1, <1>2, RespondType DEF NoData
<1>4. QED
  BY <1>1, <1>3 DEF RespondNow, TypeInv, TypeOK, ServerTypeOK

LEMMA BeginType ==
    ASSUME TypeInv, NEW c \in Conns, NEW act, Asked(c, act), NEW s \in Steps, Begin(c, s)
    PROVE  /\ reqs' \in [Conns -> Seq(Request)]
           /\ step' \in [Conns -> Steps]
           /\ held' \in [Conns -> Request \cup {NoRequest}]
           /\ \A d \in Conns : Serving(d)' => held'[d] \in Request
           /\ UNCHANGED <<srvOpen, resps>>
<1>1. Head(reqs[c]) \in Request /\ Tail(reqs[c]) \in Seq(Request)
  BY AskedType
<1>2. QED
  BY <1>1 DEF Begin, TypeInv, TypeOK, ServerTypeOK, Serving

LEMMA FinishType ==
    ASSUME TypeInv, NEW c \in Conns, Serving(c), NEW ok \in BOOLEAN, NEW data \in Nat,
           Finish(c, ok, data)
    PROVE  /\ resps' \in [Conns -> Seq(Response)] /\ srvOpen' \subseteq Conns
           /\ step' \in [Conns -> Steps]
           /\ held' \in [Conns -> Request \cup {NoRequest}]
           /\ \A d \in Conns : Serving(d)' => held'[d] \in Request
           /\ UNCHANGED reqs
<1>1. held[c] \in Request /\ Respond(c, held[c], ok, data)
  BY DEF TypeInv, Finish
<1>2. resps' \in [Conns -> Seq(Response)] /\ srvOpen' \subseteq Conns
  BY <1>1, RespondType
<1>3. QED
  BY <1>2 DEF Finish, TypeInv, TypeOK, ServerTypeOK, Serving, Steps

LEMMA DeliverType ==
    ASSUME TypeInv, NEW k \in Nat, Deliver(k)
    PROVE  targetGot' \in Seq(Nat)
  BY DEF Deliver, TypeInv, TypeOK, ServerTypeOK

LEMMA HandlerType ==
    ASSUME TypeInv, NEW c \in Conns, Handler(c)
    PROVE  ServerTypeOK' /\ \A d \in Conns : Serving(d)' => held'[d] \in Request
<1> USE DEF ServerTypeOK
<1>0. ServerTypeOK
  BY DEF TypeInv, TypeOK
<1>h. Serving(c) => held[c] \in Request /\ held[c].chunk \in Nat
  BY DEF TypeInv, Request
<1>1. CASE HandleOpen(c)
  <2>1. Asked(c, "open") /\ Begin(c, "connect") /\ UNCHANGED session_vars
    BY <1>1 DEF HandleOpen
  <2>2. QED
    BY <2>1, <1>0, BeginType DEF Steps, session_vars
<1>2. CASE OpenTarget(c)
  <2>1. Serving(c) /\ Finish(c, TRUE, NoData) /\ held[c].chunk \in Nat
    BY <1>2, <1>h DEF OpenTarget, Serving
  <2>2. targetGot' \in Seq(Nat)
    BY <1>2, <1>0, <2>1, DeliverType DEF OpenTarget
  <2>3. /\ target' \in Targets /\ session' \in BOOLEAN
        /\ UNCHANGED <<produced, taken, buffer, mixed>>
    BY <1>2 DEF OpenTarget, Targets
  <2>4. QED
    BY <2>1, <2>2, <2>3, <1>0, FinishType DEF NoData
<1>3. CASE RefuseTarget(c)
  <2>1. Serving(c) /\ Finish(c, FALSE, NoData) /\ UNCHANGED session_vars
    BY <1>3 DEF RefuseTarget, Serving
  <2>2. QED
    BY <2>1, <1>0, FinishType DEF NoData, session_vars
<1>4. CASE DropSend(c)
  <2>1. Asked(c, "send") /\ RespondNow(c, NoData) /\ UNCHANGED session_vars
    BY <1>4 DEF DropSend
  <2>2. QED
    BY <2>1, <1>0, RespondNowType DEF session_vars, TypeInv, Serving
<1>5. CASE HandleSend(c)
  <2>1. Head(reqs[c]) \in Request /\ Tail(reqs[c]) \in Seq(Request)
    BY <1>5, AskedType DEF HandleSend
  <2>2. /\ UNCHANGED <<session, target, produced, taken, targetGot, srvOpen, resps>>
        /\ buffer' \subseteq Nat /\ mixed' \in BOOLEAN
    BY <1>5, <1>0, <2>1 DEF HandleSend, Request
  <2>3. reqs' \in [Conns -> Seq(Request)] /\ held' \in [Conns -> Request \cup {NoRequest}]
    BY <1>5, <1>0, <2>1 DEF HandleSend
  <2>4. step' \in [Conns -> Steps]
    BY <1>5, <1>0 DEF HandleSend, Steps
  <2>5. \A d \in Conns : Serving(d)' => held'[d] \in Request
    BY <1>5, <1>0, <2>1 DEF HandleSend, TypeInv, Serving, Writers
  <2>6. QED
    BY <2>2, <2>3, <2>4, <2>5, <1>0
<1>6. CASE WriteTarget(c)
  <2>1. Serving(c) /\ Finish(c, TRUE, NoData) /\ held[c].chunk \in Nat
    BY <1>6, <1>h DEF WriteTarget, Writers, Serving
  <2>2. targetGot' \in Seq(Nat)
    <3>1. \A k \in buffer \cup {Garbage} : k \in Nat
      BY <1>0 DEF Garbage
    <3>2. DeliverTorn => targetGot' \in Seq(Nat)
      BY <1>0, <3>1, DeliverType DEF DeliverTorn
    <3>3. QED
      BY <1>6, <1>0, <2>1, <3>2, DeliverType DEF WriteTarget
  <2>3. /\ target' \in Targets /\ buffer' \subseteq Nat
        /\ UNCHANGED <<session, produced, taken, mixed>>
    BY <1>6, <1>0 DEF WriteTarget, Targets
  <2>4. QED
    BY <2>1, <2>2, <2>3, <1>0, FinishType DEF NoData
<1>7. CASE NothingToRead(c)
  <2>1. Asked(c, "recv") /\ RespondNow(c, NoData) /\ UNCHANGED session_vars
    BY <1>7 DEF NothingToRead
  <2>2. QED
    BY <2>1, <1>0, RespondNowType DEF session_vars, TypeInv, Serving
<1>8. CASE HandleRecv(c)
  <2>1. Asked(c, "recv") /\ Begin(c, "read") /\ UNCHANGED session_vars
    BY <1>8 DEF HandleRecv
  <2>2. QED
    BY <2>1, <1>0, BeginType DEF Steps, session_vars
<1>9. CASE ReadTarget(c)
  <2>1. Serving(c) /\ UNCHANGED <<session, target, produced, targetGot, buffer, mixed>>
    BY <1>9 DEF ReadTarget, Serving
  <2>2. CASE taken < produced /\ taken' = taken + 1 /\ Finish(c, TRUE, taken + 1)
    <3>1. taken + 1 \in Nat /\ taken' \in 0..produced'
      BY <2>1, <2>2, <1>0
    <3>2. QED
      BY <2>1, <2>2, <3>1, <1>0, FinishType
  <2>3. CASE Finish(c, TRUE, NoData) /\ UNCHANGED taken
    BY <2>1, <2>3, <1>0, FinishType DEF NoData
  <2>4. QED
    BY <1>9, <2>2, <2>3 DEF ReadTarget
<1>10. CASE HandleClose(c)
  <2>1. /\ Asked(c, "close") /\ RespondNow(c, NoData)
        /\ UNCHANGED <<produced, taken, targetGot, buffer, mixed>>
    BY <1>10 DEF HandleClose
  <2>2. session' \in BOOLEAN /\ target' \in Targets
    BY <1>10, <1>0 DEF HandleClose, Targets
  <2>3. QED
    BY <2>1, <2>2, <1>0, RespondNowType DEF TypeInv, Serving
<1>11. QED
  BY <1>1, <1>2, <1>3, <1>4, <1>5, <1>6, <1>7, <1>8, <1>9, <1>10 DEF Handler

LEMMA ServerStepType ==
    ASSUME TypeInv, ServerStep
    PROVE  TypeInv'
<1> USE DEF ServerTypeOK
<1>1. UNCHANGED <<agent_vars, faults>>
  BY DEF ServerStep
<1>2. AgentTypeOK' /\ (pc' = "wait" => link' \in Conns)
  BY <1>1 DEF TypeInv, TypeOK, AgentTypeOK, agent_vars
<1>3. ASSUME NEW c \in Conns, Handler(c)
      PROVE  ServerTypeOK' /\ \A d \in Conns : Serving(d)' => held'[d] \in Request
  BY <1>3, HandlerType
<1>4. CASE TargetSends \/ TargetHangsUp
  <2>1. UNCHANGED <<session, taken, targetGot, buffer, mixed, conn_vars>>
    BY <1>4 DEF TargetSends, TargetHangsUp
  <2>2. target' \in Targets /\ produced' \in 0..MaxDown /\ taken' \in 0..produced'
    BY <1>4 DEF TargetSends, TargetHangsUp, TypeInv, TypeOK, Targets
  <2>3. ServerTypeOK' /\ \A d \in Conns : Serving(d)' => held'[d] \in Request
    BY <2>1, <2>2 DEF conn_vars, TypeInv, TypeOK, Serving
  <2>4. QED
    BY <1>2, <2>3 DEF TypeInv, TypeOK
<1>5. QED
  BY <1>2, <1>3, <1>4 DEF ServerStep, ServerNext, TypeInv, TypeOK

-----------------------------------------------------------------------------
(* The agent and the connections keep the types.                           *)

LEMMA FailAttemptType ==
    ASSUME TypeInv, FailAttempt, faults' \subseteq FaultKinds, UNCHANGED server_vars
    PROVE  TypeInv'
<1>1. cur' \in Request /\ pc' \in PCs \ {"wait"} /\ poll' \in Polls
  BY DEF FailAttempt, AfterPost, TypeInv, TypeOK, AgentTypeOK, PCs, Polls, Request
<1>2. link' \in Conns \cup {NoLink} /\ fresh' \in BOOLEAN
  BY DEF FailAttempt, Shutdown
<1>3. UNCHANGED <<tunnelClosed, upRead, sending, reply, clientGot>>
  BY DEF FailAttempt
<1>4. AgentTypeOK'
  BY <1>1, <1>2, <1>3 DEF AgentTypeOK, TypeInv, TypeOK
<1>5. QED
  BY <1>1, <1>4 DEF TypeInv, TypeOK, ServerTypeOK, server_vars, session_vars,
                    conn_vars, Serving

LEMMA PostStepType ==
    ASSUME TypeInv, PostStep
    PROVE  TypeInv'
<1> USE DEF AgentTypeOK, ServerTypeOK, server_vars, session_vars, conn_vars, Serving
<1>1. CASE Connect
  BY <1>1 DEF Connect, TypeInv, TypeOK
<1>2. CASE ConnectRefused
  <2>1. FailAttempt /\ faults' \subseteq FaultKinds /\ UNCHANGED server_vars
    BY <1>2 DEF ConnectRefused, Fault, TypeInv, TypeOK
  <2>2. QED
    BY <2>1, FailAttemptType
<1>3. CASE WriteRequest
  <2>1. pc' = "wait" /\ link \in Conns /\ cur \in Request
    BY <1>3 DEF WriteRequest, TypeInv, TypeOK
  <2>2. Append(reqs[link], cur) \in Seq(Request)
    BY <2>1 DEF TypeInv, TypeOK
  <2>3. reqs' \in [Conns -> Seq(Request)]
    BY <1>3, <2>2 DEF WriteRequest, TypeInv, TypeOK
  <2>4. QED
    BY <1>3, <2>1, <2>3 DEF WriteRequest, TypeInv, TypeOK, PCs
<1>4. CASE ReadEof
  <2>1. FailAttempt /\ faults' \subseteq FaultKinds /\ UNCHANGED server_vars
    BY <1>4 DEF ReadEof, TypeInv, TypeOK
  <2>2. QED
    BY <2>1, FailAttemptType
<1>5. CASE ReadTimeout
  <2>1. FailAttempt /\ faults' \subseteq FaultKinds /\ UNCHANGED server_vars
    BY <1>5 DEF ReadTimeout, Fault, TypeInv, TypeOK
  <2>2. QED
    BY <2>1, FailAttemptType
<1>6. CASE ReadResponse
  <2> DEFINE resp == Head(resps[link])
  <2>1. link \in Conns /\ resps[link] \in Seq(Response) /\ resps[link] # <<>>
    BY <1>6 DEF ReadResponse, TypeInv, TypeOK
  <2>2. resp \in Response /\ Unread(link) \in Seq(Response)
    BY <2>1 DEF Unread
  <2>3. resp.data \in Nat
    BY <2>2 DEF Response
  <2>4. resps' \in [Conns -> Seq(Response)]
    BY <1>6, <2>2 DEF ReadResponse, TypeInv, TypeOK
  <2>5. pc' \in PCs \ {"wait"} /\ poll' \in Polls
    BY <1>6 DEF ReadResponse, AfterPost, TypeInv, TypeOK, PCs, Polls
  <2>6. reply' \in {"none", "established", "refused"}
    BY <1>6 DEF ReadResponse, ReplyTo, TypeInv, TypeOK
  <2>7. sending' \in Nat /\ clientGot' \in Seq(Nat)
    <3>1. Append(clientGot, resp.data) \in Seq(Nat)
      BY <2>3 DEF TypeInv, TypeOK
    <3>2. QED
      BY <1>6, <2>3, <3>1 DEF ReadResponse, TypeInv, TypeOK
  <2>8. link' \in Conns \cup {NoLink} /\ fresh' \in BOOLEAN
    BY <1>6, <2>1 DEF ReadResponse
  <2>9. UNCHANGED <<cur, tunnelClosed, upRead, faults, session_vars,
                    srvOpen, reqs, step, held>>
    BY <1>6 DEF ReadResponse
  <2>10. QED
    BY <2>4, <2>5, <2>6, <2>7, <2>8, <2>9 DEF TypeInv, TypeOK
<1>7. QED
  BY <1>1, <1>2, <1>3, <1>4, <1>5, <1>6 DEF PostStep

LEMMA AgentStepType ==
    ASSUME TypeInv, AgentStep
    PROVE  TypeInv'
<1> USE DEF AgentTypeOK, ServerTypeOK, server_vars, session_vars, conn_vars, Serving,
            PCs, Polls
<1>0. [act |-> "recv", chunk |-> NoData, attempt |-> 1] \in Request
      /\ [act |-> "close", chunk |-> NoData, attempt |-> 1] \in Request
  BY DEF Request, Actions, NoData
<1>1. CASE PostStep
  BY <1>1, PostStepType
<1>2. CASE ReplyWritten
  BY <1>2 DEF ReplyWritten, TypeInv, TypeOK
<1>3. CASE ReplyBroken
  BY <1>3 DEF ReplyBroken, TypeInv, TypeOK
<1>4. CASE ReadClient
  <2>1. upRead' \in 0..MaxUp /\ upRead + 1 \in Nat
    BY <1>4 DEF ReadClient, TypeInv, TypeOK
  <2>2. [act |-> "send", chunk |-> upRead + 1, attempt |-> 1] \in Request
    BY <2>1 DEF Request, Actions
  <2>3. QED
    BY <1>4, <2>1, <2>2 DEF ReadClient, Post, TypeInv, TypeOK
<1>5. CASE ClientLeaves
  BY <1>0, <1>5 DEF ClientLeaves, CloseTunnel, Post, TypeInv, TypeOK
<1>6. CASE PollFires
  BY <1>0, <1>6 DEF PollFires, Post, TypeInv, TypeOK
<1>7. CASE WriteDone
  <2>1. sending' \in Nat /\ clientGot' \in Seq(Nat)
    <3>1. \A bytes \in {sending, Garbage} : Append(clientGot, bytes) \in Seq(Nat)
      BY DEF TypeInv, TypeOK, Garbage
    <3>2. CASE sending = NoData
      BY <1>7, <3>2 DEF WriteDone, TypeInv, TypeOK
    <3>3. CASE sending # NoData
      <4>1. PICK bytes \in {sending, Garbage} : clientGot' = Append(clientGot, bytes)
        BY <1>7, <3>3 DEF WriteDone
      <4>2. sending' = NoData
        BY <1>7, <3>3 DEF WriteDone
      <4>3. QED
        BY <3>1, <4>1, <4>2 DEF NoData
    <3>4. QED
      BY <3>2, <3>3
  <2>2. QED
    BY <1>7, <2>1 DEF WriteDone, TypeInv, TypeOK
<1>8. CASE WriteBroken
  BY <1>0, <1>8 DEF WriteBroken, CloseTunnel, Post, TypeInv, TypeOK, NoData
<1>9. QED
  BY <1>1, <1>2, <1>3, <1>4, <1>5, <1>6, <1>7, <1>8 DEF AgentStep

LEMMA ConnStepType ==
    ASSUME TypeInv, ConnStep
    PROVE  TypeInv'
<1>1. UNCHANGED <<step, held, session_vars, agent_vars>>
  BY DEF ConnStep, IdleTimeout, LoseResponse, Reap
<1>2. PICK c \in Conns : IdleTimeout(c) \/ LoseResponse(c) \/ Reap(c)
  BY DEF ConnStep
<1>3. /\ srvOpen' \subseteq Conns
      /\ reqs' \in [Conns -> Seq(Request)]
      /\ resps' \in [Conns -> Seq(Response)]
  <2>1. <<>> \in Seq(Request) /\ <<>> \in Seq(Response)
    OBVIOUS
  <2>2. CASE IdleTimeout(c)
    BY <2>1, <2>2 DEF IdleTimeout, TypeInv, TypeOK, ServerTypeOK
  <2>3. CASE LoseResponse(c)
    BY <2>1, <2>3 DEF LoseResponse, TypeInv, TypeOK, ServerTypeOK
  <2>4. CASE Reap(c)
    BY <2>1, <2>4 DEF Reap, TypeInv, TypeOK, ServerTypeOK
  <2>5. QED
    BY <1>2, <2>2, <2>3, <2>4
<1>4. faults' \subseteq FaultKinds
  BY <1>2 DEF IdleTimeout, LoseResponse, Reap, Fault, TypeInv, TypeOK, AgentTypeOK
<1>5. QED
  BY <1>1, <1>3, <1>4 DEF TypeInv, TypeOK, ServerTypeOK, AgentTypeOK, session_vars,
                          agent_vars, Serving

LEMMA TypeInit == Init => TypeInv
<1> SUFFICES ASSUME Init PROVE TypeInv
  OBVIOUS
<1>1. cur \in Request /\ upRead \in 0..MaxUp
  BY DEF Init, Request, Actions
<1>2. AgentTypeOK
  <2>1. clientGot \in Seq(Nat) /\ faults \subseteq FaultKinds
    BY DEF Init
  <2>2. pc \in PCs /\ poll \in Polls /\ sending \in Nat /\ link = NoLink
    BY DEF Init, PCs, Polls, NoData
  <2>3. fresh \in BOOLEAN /\ tunnelClosed \in BOOLEAN /\ reply = "none"
    BY DEF Init
  <2>4. QED
    BY <1>1, <2>1, <2>2, <2>3 DEF AgentTypeOK
<1>3. reqs \in [Conns -> Seq(Request)] /\ resps \in [Conns -> Seq(Response)]
  <2>1. <<>> \in Seq(Request) /\ <<>> \in Seq(Response)
    OBVIOUS
  <2>2. QED
    BY <2>1 DEF Init, ServerInit
<1>4. targetGot \in Seq(Nat) /\ taken \in 0..produced /\ produced \in 0..MaxDown
  BY DEF Init, ServerInit
<1>5. step \in [Conns -> Steps] /\ held \in [Conns -> Request \cup {NoRequest}]
  BY DEF Init, ServerInit, Steps
<1>6. ServerTypeOK
  <2>1. session \in BOOLEAN /\ target \in Targets
    BY DEF Init, ServerInit, Targets
  <2>2. targetGot \in Seq(Nat) /\ srvOpen \subseteq Conns /\ buffer = {} /\ mixed = FALSE
    BY <1>4 DEF Init, ServerInit
  <2>3. QED
    BY <1>3, <1>4, <1>5, <2>1, <2>2 DEF ServerTypeOK
<1>7. QED
  BY <1>2, <1>6 DEF Init, ServerInit, TypeInv, TypeOK, Serving

LEMMA TypeNext == TypeInv /\ [Next]_vars => TypeInv'
<1> SUFFICES ASSUME TypeInv, [Next]_vars PROVE TypeInv'
  OBVIOUS
<1>1. CASE UNCHANGED vars
  BY <1>1 DEF vars, server_vars, session_vars, conn_vars, agent_vars, TypeInv, TypeOK,
              ServerTypeOK, AgentTypeOK, Serving
<1>2. QED
  BY <1>1, AgentStepType, ServerStepType, ConnStepType DEF Next

\* Every variable keeps its type: no handler answers a request it does not
\* have, and the chunks the server has read never outrun those the target
\* sent.
THEOREM TypeCorrect == Spec => []TypeOK
<1>1. TypeInv => TypeOK
  BY DEF TypeInv
<1>2. QED
  BY TypeInit, TypeNext, <1>1, PTL DEF Spec

THEOREM TypeInvCorrect == Spec => []TypeInv
  BY TypeInit, TypeNext, PTL DEF Spec

-----------------------------------------------------------------------------
(* The close is the last post.                                             *)

\* CloseIsLast is not inductive: the strand must not be in any other state
\* from which a post could start.
CloseInv == tunnelClosed => pc = "closed" \/ (Posting /\ cur.act = "close")

LEMMA CloseNext == CloseInv /\ [Next]_vars => CloseInv'
<1> SUFFICES ASSUME CloseInv, [Next]_vars PROVE CloseInv'
  OBVIOUS
<1> USE DEF CloseInv, Posting
<1>1. ASSUME Posting, FailAttempt PROVE CloseInv'
  BY <1>1 DEF FailAttempt, AfterPost, CanRetry
<1>2. CASE PostStep
  <2>1. CASE Connect
    BY <2>1 DEF Connect
  <2>2. CASE ConnectRefused \/ ReadEof \/ ReadTimeout
    BY <1>1, <2>2 DEF ConnectRefused, ReadEof, ReadTimeout
  <2>3. CASE WriteRequest
    BY <2>3 DEF WriteRequest
  <2>4. CASE ReadResponse
    BY <2>4 DEF ReadResponse, AfterPost
  <2>5. QED
    BY <1>2, <2>1, <2>2, <2>3, <2>4 DEF PostStep
<1>3. CASE ReplyWritten \/ ReplyBroken \/ ReadClient \/ WriteDone
  BY <1>3 DEF ReplyWritten, ReplyBroken, ReadClient, WriteDone, Post
<1>4. CASE ClientLeaves \/ WriteBroken
  BY <1>4 DEF ClientLeaves, WriteBroken, CloseTunnel, Post
<1>5. CASE PollFires
  BY <1>5 DEF PollFires, TunnelLive, Post
<1>6. CASE ServerStep \/ ConnStep \/ UNCHANGED vars
  <2>1. UNCHANGED agent_vars
    BY <1>6 DEF ServerStep, ConnStep, IdleTimeout, LoseResponse, Reap, vars
  <2>2. QED
    BY <2>1 DEF agent_vars
<1>7. QED
  BY <1>2, <1>3, <1>4, <1>5, <1>6 DEF Next, AgentStep

\* After closeTunnelSession nothing but its close is posted, whichever timer
\* handlers and completions were already queued on the strand.
THEOREM CloseLast == Spec => []CloseIsLast
<1>1. Init => CloseInv
  BY DEF Init, CloseInv
<1>2. CloseInv => CloseIsLast
  BY DEF CloseInv, CloseIsLast, Posting
<1>3. Spec => []CloseInv
  BY <1>1, CloseNext, PTL DEF Spec
<1>4. QED
  BY <1>2, <1>3, PTL

-----------------------------------------------------------------------------
(* One exchange at a time.                                                 *)

\* q is somewhere on connection c, as a request, in a handler, or answered.
Carries(c, q) ==
    \/ \E i \in DOMAIN reqs[c] : reqs[c][i] = q
    \/ Serving(c) /\ held[c] = q
    \/ \E i \in DOMAIN resps[c] : resps[c][i].req = q

\* OneExchange, and: what the agent's connection carries is the try that the
\* strand waits for.
ExchangeInv ==
    /\ OneExchange
    /\ pc = "wait" => \A q : Carries(link, q) => q = cur

\* A step of the server moves exchanges on, and starts none.
Moved(d) == InFlight(d)' <= InFlight(d) /\ \A q : Carries(d, q)' => Carries(d, q)

\* InFlight as an arithmetic fact about its three places.
LEMMA InFlightParts ==
    ASSUME NEW c \in Conns
    PROVE  /\ Serving(c) => InFlight(c) = Len(reqs[c]) + Len(resps[c]) + 1
           /\ ~Serving(c) => InFlight(c) = Len(reqs[c]) + Len(resps[c]) + 0
           /\ Serving(c)' => InFlight(c)' = Len(reqs'[c]) + Len(resps'[c]) + 1
           /\ ~Serving(c)' => InFlight(c)' = Len(reqs'[c]) + Len(resps'[c]) + 0
  BY DEF InFlight

LEMMA MoveSums ==
    \A a, b \in Nat : /\ (a - 1) + (b + 1) + 0 <= a + b + 0
                      /\ a + (b + 1) + 0 <= a + b + 1
  OBVIOUS

LEMMA SameMoved ==
    ASSUME TypeInv, NEW d \in Conns,
           reqs'[d] = reqs[d], resps'[d] = resps[d], held'[d] = held[d],
           Serving(d)' = Serving(d)
    PROVE  Moved(d)
<1>1. InFlight(d) \in Nat
  BY DEF InFlight, TypeInv, TypeOK, ServerTypeOK
<1>2. QED
  BY <1>1 DEF Moved, InFlight, Carries, Serving

LEMMA AskedMove ==
    ASSUME TypeInv, NEW c \in Conns, NEW act, Asked(c, act)
    PROVE  /\ Len(Tail(reqs[c])) = Len(reqs[c]) - 1
           /\ Len(reqs[c]) \in Nat /\ Len(resps[c]) \in Nat
           /\ 1 \in DOMAIN reqs[c] /\ reqs[c][1] = Head(reqs[c])
           /\ \A i \in DOMAIN Tail(reqs[c]) :
                 i + 1 \in DOMAIN reqs[c] /\ Tail(reqs[c])[i] = reqs[c][i + 1]
           /\ ~Serving(c)
<1>1. reqs[c] \in Seq(Request) /\ reqs[c] # <<>> /\ resps[c] \in Seq(Response)
  BY DEF TypeInv, TypeOK, ServerTypeOK, Asked
<1>2. QED
  BY <1>1 DEF Asked, Serving

LEMMA RespondMove ==
    ASSUME TypeInv, NEW c \in Conns, NEW q, NEW ok, NEW data, Respond(c, q, ok, data)
    PROVE  /\ Len(resps'[c]) = Len(resps[c]) + 1
           /\ \A i \in DOMAIN resps'[c] :
                 resps'[c][i].req = q \/ (i \in DOMAIN resps[c] /\ resps'[c][i] = resps[c][i])
           /\ \A d \in Conns \ {c} : resps'[d] = resps[d]
<1>1. resps \in [Conns -> Seq(Response)]
  BY DEF TypeInv, TypeOK, ServerTypeOK
<1>2. /\ resps'[c] = Append(resps[c], [req |-> q, ok |-> ok, data |-> data])
      /\ \A d \in Conns \ {c} : resps'[d] = resps[d]
  BY <1>1 DEF Respond
<1>3. QED
  BY <1>1, <1>2

LEMMA RespondNowMoves ==
    ASSUME TypeInv, NEW c \in Conns, NEW act, Asked(c, act), RespondNow(c, NoData),
           NEW d \in Conns
    PROVE  Moved(d)
<1>1. Respond(c, Head(reqs[c]), TRUE, NoData) /\ UNCHANGED <<step, held>>
  BY DEF RespondNow
<1>2. reqs'[c] = Tail(reqs[c]) /\ \A e \in Conns \ {c} : reqs'[e] = reqs[e]
  BY DEF RespondNow, TypeInv, TypeOK, ServerTypeOK
<1>3. CASE d = c
  <2>1. /\ Len(reqs'[c]) = Len(reqs[c]) - 1
        /\ Len(reqs[c]) \in Nat /\ Len(resps[c]) \in Nat
        /\ 1 \in DOMAIN reqs[c] /\ reqs[c][1] = Head(reqs[c])
        /\ \A i \in DOMAIN reqs'[c] :
              i + 1 \in DOMAIN reqs[c] /\ reqs'[c][i] = reqs[c][i + 1]
    BY <1>2, AskedMove
  <2>2. /\ Len(resps'[c]) = Len(resps[c]) + 1
        /\ \A i \in DOMAIN resps'[c] :
              \/ resps'[c][i].req = Head(reqs[c])
              \/ i \in DOMAIN resps[c] /\ resps'[c][i] = resps[c][i]
    BY <1>1, RespondMove
  <2>3. Serving(c)' = Serving(c) /\ held'[c] = held[c]
    BY <1>1 DEF Serving
  <2>4. InFlight(c)' <= InFlight(c)
    <3>1. /\ Len(reqs'[c]) = Len(reqs[c]) - 1 /\ Len(resps'[c]) = Len(resps[c]) + 1
          /\ Len(reqs[c]) \in Nat /\ Len(resps[c]) \in Nat
      BY <2>1, <2>2
    <3>0. ~Serving(c) /\ ~Serving(c)'
      BY <1>1, AskedMove DEF Serving
    <3>2. InFlight(c)' = (Len(reqs[c]) - 1) + (Len(resps[c]) + 1) + 0
      BY <3>0, <3>1, InFlightParts
    <3>3. InFlight(c) = Len(reqs[c]) + Len(resps[c]) + 0
      BY <3>0, InFlightParts
    <3>4. QED
      BY <3>1, <3>2, <3>3, MoveSums
  <2>5. \A q : Carries(c, q)' => Carries(c, q)
    BY <2>1, <2>2, <2>3 DEF Carries
  <2>6. QED
    BY <1>3, <2>4, <2>5 DEF Moved
<1>4. CASE d # c
  <2>1. resps'[d] = resps[d] /\ reqs'[d] = reqs[d]
    BY <1>1, <1>2, <1>4, RespondMove
  <2>2. QED
    BY <1>1, <2>1, SameMoved DEF Serving
<1>5. QED
  BY <1>3, <1>4

\* The request at the head of the queue goes into the handler.
LEMMA TakenMoves ==
    ASSUME TypeInv, NEW c \in Conns, NEW act, Asked(c, act), Serving(c)',
           reqs'[c] = Tail(reqs[c]), held'[c] = Head(reqs[c]), UNCHANGED resps
    PROVE  InFlight(c)' <= InFlight(c) /\ \A q : Carries(c, q)' => Carries(c, q)
<1>1. /\ Len(reqs'[c]) = Len(reqs[c]) - 1 /\ ~Serving(c)
      /\ Len(reqs[c]) \in Nat /\ Len(resps[c]) \in Nat
      /\ 1 \in DOMAIN reqs[c] /\ reqs[c][1] = Head(reqs[c])
      /\ \A i \in DOMAIN reqs'[c] :
            i + 1 \in DOMAIN reqs[c] /\ reqs'[c][i] = reqs[c][i + 1]
  BY AskedMove
<1>2. InFlight(c)' <= InFlight(c)
  <2>1. Len(reqs'[c]) = Len(reqs[c]) - 1 /\ Len(reqs[c]) \in Nat /\ Len(resps[c]) \in Nat
    BY <1>1
  <2>2. InFlight(c)' = Len(reqs'[c]) + Len(resps[c]) + 1
    BY InFlightParts
  <2>3. InFlight(c) = Len(reqs[c]) + Len(resps[c]) + 0
    BY <1>1, InFlightParts
  <2>4. QED
    BY <2>1, <2>2, <2>3
<1>3. \A q : Carries(c, q)' => Carries(c, q)
  BY <1>1 DEF Carries
<1>4. QED
  BY <1>2, <1>3

LEMMA BeginMoves ==
    ASSUME TypeInv, NEW c \in Conns, NEW act, Asked(c, act),
           NEW s \in Steps \ {"idle"}, Begin(c, s), NEW d \in Conns
    PROVE  Moved(d)
<1>1. /\ reqs'[c] = Tail(reqs[c]) /\ held'[c] = Head(reqs[c]) /\ Serving(c)'
      /\ UNCHANGED resps
  BY DEF Begin, Serving, TypeInv, TypeOK, ServerTypeOK
<1>2. CASE d = c
  <2>1. InFlight(c)' <= InFlight(c) /\ \A q : Carries(c, q)' => Carries(c, q)
    BY <1>1, TakenMoves
  <2>2. QED
    BY <1>2, <2>1 DEF Moved
<1>3. CASE d # c
  <2>1. /\ reqs'[d] = reqs[d] /\ resps'[d] = resps[d] /\ held'[d] = held[d]
        /\ Serving(d)' = Serving(d)
    BY <1>3 DEF Begin, Serving, TypeInv, TypeOK, ServerTypeOK
  <2>2. QED
    BY <2>1, SameMoved
<1>4. QED
  BY <1>2, <1>3

LEMMA FinishMoves ==
    ASSUME TypeInv, NEW c \in Conns, Serving(c), NEW ok, NEW data, Finish(c, ok, data),
           NEW d \in Conns
    PROVE  Moved(d)
<1>1. Respond(c, held[c], ok, data) /\ UNCHANGED reqs
  BY DEF Finish
<1>2. ~Serving(c)' /\ Len(reqs[c]) \in Nat /\ Len(resps[c]) \in Nat
  BY DEF Finish, Serving, TypeInv, TypeOK, ServerTypeOK
<1>3. CASE d = c
  <2>1. /\ Len(resps'[c]) = Len(resps[c]) + 1
        /\ \A i \in DOMAIN resps'[c] :
              \/ resps'[c][i].req = held[c]
              \/ i \in DOMAIN resps[c] /\ resps'[c][i] = resps[c][i]
    BY <1>1, RespondMove
  <2>2. InFlight(c)' <= InFlight(c)
    <3>1. /\ Len(reqs[c]) \in Nat /\ Len(resps[c]) \in Nat
          /\ Len(resps'[c]) = Len(resps[c]) + 1
      BY <1>2, <2>1
    <3>2. InFlight(c)' = Len(reqs[c]) + (Len(resps[c]) + 1) + 0
      BY <1>1, <1>2, <3>1, InFlightParts
    <3>3. InFlight(c) = Len(reqs[c]) + Len(resps[c]) + 1
      BY InFlightParts
    <3>4. QED
      BY <3>1, <3>2, <3>3, MoveSums
  <2>3. \A q : Carries(c, q)' => Carries(c, q)
    BY <1>1, <1>2, <2>1 DEF Carries
  <2>4. QED
    BY <1>3, <2>2, <2>3 DEF Moved
<1>4. CASE d # c
  <2>1. resps'[d] = resps[d]
    BY <1>1, <1>4, RespondMove
  <2>2. /\ reqs'[d] = reqs[d] /\ held'[d] = held[d] /\ Serving(d)' = Serving(d)
    BY <1>4 DEF Finish, Serving, TypeInv, TypeOK, ServerTypeOK
  <2>3. QED
    BY <2>1, <2>2, SameMoved
<1>5. QED
  BY <1>3, <1>4

LEMMA HandlerMoves ==
    ASSUME TypeInv, NEW c \in Conns, Handler(c), NEW d \in Conns
    PROVE  Moved(d)
<1>1. CASE HandleOpen(c)
  <2>1. Asked(c, "open") /\ Begin(c, "connect")
    BY <1>1 DEF HandleOpen
  <2>2. QED
    BY <2>1, BeginMoves DEF Steps
<1>2. CASE HandleRecv(c)
  <2>1. Asked(c, "recv") /\ Begin(c, "read")
    BY <1>2 DEF HandleRecv
  <2>2. QED
    BY <2>1, BeginMoves DEF Steps
<1>3. CASE HandleSend(c)
  <2>1. /\ Asked(c, "send") /\ UNCHANGED resps
        /\ reqs'[c] = Tail(reqs[c]) /\ held'[c] = Head(reqs[c])
    BY <1>3 DEF HandleSend, TypeInv, TypeOK, ServerTypeOK
  <2>2. \A e \in Conns : Serving(e)' = (e = c \/ Serving(e))
    BY <1>3 DEF HandleSend, Serving, Writers
  <2>3. CASE d = c
    <3>1. InFlight(c)' <= InFlight(c) /\ \A q : Carries(c, q)' => Carries(c, q)
      BY <2>1, <2>2, TakenMoves
    <3>2. QED
      BY <2>3, <3>1 DEF Moved
  <2>4. CASE d # c
    <3>1. /\ reqs'[d] = reqs[d] /\ resps'[d] = resps[d] /\ held'[d] = held[d]
      BY <1>3, <2>4 DEF HandleSend, TypeInv, TypeOK, ServerTypeOK
    <3>2. Serving(d)' = Serving(d)
      BY <2>2, <2>4 DEF Serving
    <3>3. QED
      BY <3>1, <3>2, SameMoved
  <2>5. QED
    BY <2>3, <2>4
<1>4. CASE DropSend(c) \/ NothingToRead(c) \/ HandleClose(c)
  <2>1. RespondNow(c, NoData)
    BY <1>4 DEF DropSend, NothingToRead, HandleClose
  <2>2. Asked(c, "send") \/ Asked(c, "recv") \/ Asked(c, "close")
    BY <1>4 DEF DropSend, NothingToRead, HandleClose
  <2>3. QED
    BY <2>1, <2>2, RespondNowMoves
<1>5. CASE OpenTarget(c) \/ RefuseTarget(c) \/ WriteTarget(c) \/ ReadTarget(c)
  <2>1. Serving(c)
    BY <1>5 DEF OpenTarget, RefuseTarget, WriteTarget, ReadTarget, Writers, Serving
  <2>2. Finish(c, TRUE, NoData) \/ Finish(c, FALSE, NoData) \/ Finish(c, TRUE, taken + 1)
    BY <1>5 DEF OpenTarget, RefuseTarget, WriteTarget, ReadTarget
  <2>3. QED
    BY <2>1, <2>2, FinishMoves
<1>6. QED
  BY <1>1, <1>2, <1>3, <1>4, <1>5 DEF Handler

LEMMA ConnMoves ==
    ASSUME TypeInv, NEW c \in Conns, IdleTimeout(c) \/ LoseResponse(c) \/ Reap(c),
           NEW d \in Conns
    PROVE  Moved(d)
<1>1. /\ UNCHANGED <<step, held>>
      /\ reqs'[d] = reqs[d] \/ reqs'[d] = <<>>
      /\ resps'[d] = resps[d] \/ resps'[d] = <<>>
  BY DEF IdleTimeout, LoseResponse, Reap, TypeInv, TypeOK, ServerTypeOK
<1>2. Len(reqs[d]) \in Nat /\ Len(resps[d]) \in Nat
  BY DEF TypeInv, TypeOK, ServerTypeOK
<1>3. \A a, b \in Nat : \A n \in 0..1 :
          /\ 0 + b + n <= a + b + n /\ a + 0 + n <= a + b + n
          /\ 0 + 0 + n <= a + b + n /\ a + b + n <= a + b + n
  OBVIOUS
<1>4. Len(<<>>) = 0
  OBVIOUS
<1>5. InFlight(d)' <= InFlight(d)
  <2>1. Serving(d)' = Serving(d)
    BY <1>1 DEF Serving
  <2>2. CASE Serving(d)
    <3>1. /\ InFlight(d) = Len(reqs[d]) + Len(resps[d]) + 1
          /\ InFlight(d)' = Len(reqs'[d]) + Len(resps'[d]) + 1
      BY <2>1, <2>2, InFlightParts
    <3>2. 1 \in 0..1
      OBVIOUS
    <3>3. QED
      BY <3>1, <3>2, <1>1, <1>2, <1>3, <1>4
  <2>3. CASE ~Serving(d)
    <3>1. /\ InFlight(d) = Len(reqs[d]) + Len(resps[d]) + 0
          /\ InFlight(d)' = Len(reqs'[d]) + Len(resps'[d]) + 0
      BY <2>1, <2>3, InFlightParts
    <3>2. 0 \in 0..1
      OBVIOUS
    <3>3. QED
      BY <3>1, <3>2, <1>1, <1>2, <1>3, <1>4
  <2>4. QED
    BY <2>2, <2>3
<1>6. \A q : Carries(d, q)' => Carries(d, q)
  BY <1>1 DEF Carries, Serving
<1>7. QED
  BY <1>5, <1>6 DEF Moved

LEMMA InFlightNat ==
    ASSUME TypeInv, NEW c \in Conns
    PROVE  InFlight(c) \in Nat
  BY DEF InFlight, TypeInv, TypeOK, ServerTypeOK

\* An exchange that moves on, or ends, stays the only one.
LEMMA MovedKeeps ==
    ASSUME TypeInv, TypeInv', ExchangeInv, \A d \in Conns : Moved(d),
           UNCHANGED <<pc, cur, link>>
    PROVE  ExchangeInv'
<1>1. \A m, n \in Nat : m <= n => (n <= 1 => m <= 1) /\ (n = 0 => m = 0)
  OBVIOUS
<1>2. ASSUME NEW c \in Conns
      PROVE  InFlight(c)' <= 1 /\ (c = link' /\ pc' # "wait" => InFlight(c)' = 0)
  <2>1. InFlight(c)' \in Nat
    BY <1>2 DEF InFlight, TypeInv, TypeOK, ServerTypeOK
  <2>2. InFlight(c) \in Nat /\ InFlight(c)' <= InFlight(c)
    BY <1>2, InFlightNat DEF Moved
  <2>3. QED
    BY <2>1, <2>2, <1>1 DEF ExchangeInv, OneExchange
<1>3. pc' = "wait" => \A q : Carries(link, q)' => q = cur'
  BY DEF ExchangeInv, Moved, TypeInv
<1>4. QED
  BY <1>2, <1>3 DEF ExchangeInv, OneExchange

\* So it does when the strand does something else than waiting for it.
LEMMA LocalKeeps ==
    ASSUME TypeInv, ExchangeInv, UNCHANGED server_vars, pc' # "wait",
           link' = NoLink \/ (link' = link /\ pc # "wait")
    PROVE  ExchangeInv'
<1>1. \A c \in Conns : InFlight(c)' = InFlight(c)
  BY DEF InFlight, Serving, server_vars, conn_vars
<1>2. QED
  BY <1>1 DEF ExchangeInv, OneExchange

LEMMA EmptyConn ==
    ASSUME TypeInv, NEW c \in Conns
    PROVE  InFlight(c) = 0 <=> reqs[c] = <<>> /\ resps[c] = <<>> /\ ~Serving(c)
<1>1. reqs[c] \in Seq(Request) /\ resps[c] \in Seq(Response)
  BY DEF TypeInv, TypeOK, ServerTypeOK
<1>2. /\ Len(reqs[c]) \in Nat /\ Len(resps[c]) \in Nat
      /\ Len(reqs[c]) = 0 <=> reqs[c] = <<>>
      /\ Len(resps[c]) = 0 <=> resps[c] = <<>>
  BY <1>1
<1>3. \A a, b \in Nat : /\ a + b + 1 # 0
                        /\ a + b + 0 = 0 <=> a = 0 /\ b = 0
  OBVIOUS
<1>4. CASE Serving(c)
  <2>1. InFlight(c) = Len(reqs[c]) + Len(resps[c]) + 1
    BY <1>4, InFlightParts
  <2>2. Len(reqs[c]) + Len(resps[c]) + 1 # 0
    BY <1>2, <1>3
  <2>3. QED
    BY <1>4, <2>1, <2>2
<1>5. CASE ~Serving(c)
  <2>1. InFlight(c) = Len(reqs[c]) + Len(resps[c]) + 0
    BY <1>5, InFlightParts
  <2>2. Len(reqs[c]) + Len(resps[c]) + 0 = 0 <=> Len(reqs[c]) = 0 /\ Len(resps[c]) = 0
    BY <1>2, <1>3
  <2>3. QED
    BY <1>2, <1>5, <2>1, <2>2
<1>6. QED
  BY <1>4, <1>5

LEMMA ExchangeConnect == TypeInv /\ ExchangeInv /\ Connect => ExchangeInv'
<1> SUFFICES ASSUME TypeInv, ExchangeInv, Connect PROVE ExchangeInv'
  OBVIOUS
<1>1. PICK c \in Conns : Unused(c) /\ link' = c
  BY DEF Connect
<1>2. InFlight(c) = 0
  BY <1>1, EmptyConn DEF Unused, Serving
<1>3. \A d \in Conns : InFlight(d)' = InFlight(d)
  BY DEF Connect, InFlight, Serving
<1>4. pc' # "wait"
  BY DEF Connect
<1>5. QED
  BY <1>1, <1>2, <1>3, <1>4 DEF ExchangeInv, OneExchange

LEMMA ExchangeWrite == TypeInv /\ ExchangeInv /\ WriteRequest => ExchangeInv'
<1> SUFFICES ASSUME TypeInv, ExchangeInv, WriteRequest PROVE ExchangeInv'
  OBVIOUS
<1>1. link \in Conns /\ pc # "wait" /\ pc' = "wait"
  BY DEF WriteRequest, TypeInv, TypeOK, AgentTypeOK
<1>2. reqs[link] = <<>> /\ resps[link] = <<>> /\ ~Serving(link)
  BY <1>1, EmptyConn DEF ExchangeInv, OneExchange
<1>3. /\ UNCHANGED <<resps, step, held, cur, link>>
      /\ \A c \in Conns \ {link} : reqs'[c] = reqs[c]
      /\ reqs'[link] = <<>> \/ reqs'[link] = Append(<<>>, cur)
  BY <1>1, <1>2 DEF WriteRequest, TypeInv, TypeOK, ServerTypeOK
<1>4. \A c \in Conns : Serving(c)' = Serving(c)
  BY <1>3 DEF Serving
<1>5. InFlight(link)' <= 1
  <2>1. InFlight(link)' = Len(reqs'[link]) + Len(resps[link]) + 0
    BY <1>1, <1>2, <1>3, <1>4, InFlightParts
  <2>2. Len(reqs'[link]) \in 0..1 /\ Len(resps[link]) = 0
    <3>1. Len(<<>>) = 0 /\ Len(Append(<<>>, cur)) = 1 /\ 0 \in 0..1 /\ 1 \in 0..1
      BY <<>> \in Seq(Request), cur \in Request DEF TypeInv, TypeOK, AgentTypeOK
    <3>2. QED
      BY <1>2, <1>3, <3>1
  <2>3. \A n \in 0..1 : n + 0 + 0 <= 1
    OBVIOUS
  <2>4. QED
    BY <2>1, <2>2, <2>3
<1>6. \A c \in Conns \ {link} : InFlight(c)' = InFlight(c)
  BY <1>3, <1>4 DEF InFlight, Serving
<1>7. \A q : Carries(link, q)' => q = cur
  <2>1. \A i \in DOMAIN reqs'[link] : reqs'[link][i] = cur
    <3>1. DOMAIN <<>> = {} /\ DOMAIN Append(<<>>, cur) = {1} /\ Append(<<>>, cur)[1] = cur
      BY <<>> \in Seq(Request), cur \in Request DEF TypeInv, TypeOK, AgentTypeOK
    <3>2. QED
      BY <1>3, <3>1
  <2>2. DOMAIN resps'[link] = {} /\ ~Serving(link)'
    <3>1. DOMAIN <<>> = {}
      OBVIOUS
    <3>2. resps'[link] = <<>>
      BY <1>2, <1>3
    <3>3. QED
      BY <1>2, <1>3, <3>1, <3>2 DEF Serving
  <2>3. QED
    BY <1>3, <2>1, <2>2 DEF Carries
<1>8. QED
  BY <1>1, <1>3, <1>5, <1>6, <1>7 DEF ExchangeInv, OneExchange

LEMMA ExchangeRead == TypeInv /\ ExchangeInv /\ ReadResponse => ExchangeInv'
<1> SUFFICES ASSUME TypeInv, ExchangeInv, ReadResponse PROVE ExchangeInv'
  OBVIOUS
<1>0. PICK c \in Conns : c = link
  BY DEF ReadResponse, TypeInv
<1>1. resps[c] \in Seq(Response) /\ resps[c] # <<>> /\ reqs[c] \in Seq(Request)
  BY <1>0 DEF ReadResponse, TypeInv, TypeOK, ServerTypeOK
<1>2. /\ UNCHANGED <<reqs, step, held>>
      /\ resps'[c] = Tail(resps[c])
      /\ \A d \in Conns \ {c} : resps'[d] = resps[d]
  BY <1>0 DEF ReadResponse, Unread, TypeInv, TypeOK, ServerTypeOK
<1>3. /\ Len(resps'[c]) = Len(resps[c]) - 1
      /\ Len(reqs[c]) \in Nat /\ Len(resps[c]) \in Nat \ {0}
  BY <1>1, <1>2
<1>4. \A a \in Nat : \A b \in Nat \ {0} :
          /\ ~(a + b + 1 <= 1)
          /\ a + b + 0 <= 1 => a + (b - 1) + 0 = 0
  OBVIOUS
<1>5. InFlight(c) <= 1
  BY DEF ExchangeInv, OneExchange
<1>6. ~Serving(c) /\ ~Serving(c)'
  <2>1. CASE Serving(c)
    <3>1. InFlight(c) = Len(reqs[c]) + Len(resps[c]) + 1
      BY <2>1, InFlightParts
    <3>2. ~(Len(reqs[c]) + Len(resps[c]) + 1 <= 1)
      BY <1>3, <1>4
    <3>3. QED
      BY <1>5, <3>1, <3>2
  <2>2. CASE ~Serving(c)
    BY <1>2, <2>2 DEF Serving
  <2>3. QED
    BY <2>1, <2>2
<1>7. InFlight(c)' = 0
  <2>1. InFlight(c) = Len(reqs[c]) + Len(resps[c]) + 0
    BY <1>6, InFlightParts
  <2>2. InFlight(c)' = Len(reqs[c]) + (Len(resps[c]) - 1) + 0
    BY <1>2, <1>3, <1>6, InFlightParts
  <2>3. QED
    BY <1>3, <1>4, <1>5, <2>1, <2>2
<1>8. \A d \in Conns \ {c} : InFlight(d)' = InFlight(d)
  BY <1>2 DEF InFlight, Serving
<1>9. pc' # "wait" /\ link' \in {c, NoLink}
  BY <1>0 DEF ReadResponse, AfterPost
<1>10. \A d \in Conns : InFlight(d)' <= 1
  <2>1. 0 <= 1
    OBVIOUS
  <2>2. QED
    BY <1>7, <1>8, <2>1 DEF ExchangeInv, OneExchange
<1>11. \A d \in Conns : d = link' => InFlight(d)' = 0
  BY <1>7, <1>9
<1>12. QED
  BY <1>9, <1>10, <1>11 DEF ExchangeInv, OneExchange

LEMMA ExchangeNext == TypeInv /\ TypeInv' /\ ExchangeInv /\ [Next]_vars => ExchangeInv'
<1> SUFFICES ASSUME TypeInv, TypeInv', ExchangeInv, [Next]_vars PROVE ExchangeInv'
  OBVIOUS
<1>1. CASE Connect \/ WriteRequest \/ ReadResponse
  BY <1>1, ExchangeConnect, ExchangeWrite, ExchangeRead
<1>2. CASE ConnectRefused \/ ReadEof \/ ReadTimeout
  <2>1. FailAttempt /\ UNCHANGED server_vars
    BY <1>2 DEF ConnectRefused, ReadEof, ReadTimeout
  <2>2. pc' # "wait" /\ link' = NoLink
    BY <2>1 DEF FailAttempt, AfterPost, Shutdown
  <2>3. QED
    BY <2>1, <2>2, LocalKeeps
<1>3. CASE ReplyWritten \/ ReplyBroken \/ ReadClient \/ ClientLeaves \/ PollFires
           \/ WriteDone \/ WriteBroken
  <2>1. UNCHANGED server_vars /\ pc # "wait" /\ link' \in {link, NoLink}
    BY <1>3 DEF ReplyWritten, ReplyBroken, ReadClient, ClientLeaves, PollFires,
                WriteDone, WriteBroken
  <2>2. pc' # "wait"
    BY <1>3 DEF ReplyWritten, ReplyBroken, ReadClient, ClientLeaves, PollFires,
                WriteDone, WriteBroken, CloseTunnel, Post
  <2>3. QED
    BY <2>1, <2>2, LocalKeeps
<1>4. CASE ServerStep
  <2>1. UNCHANGED <<pc, cur, link>>
    BY <1>4 DEF ServerStep, agent_vars
  <2>2. ASSUME NEW d \in Conns PROVE Moved(d)
    <3>1. CASE TargetSends \/ TargetHangsUp
      BY <2>2, <3>1, SameMoved DEF TargetSends, TargetHangsUp, conn_vars, Serving
    <3>2. QED
      BY <1>4, <2>2, <3>1, HandlerMoves DEF ServerStep, ServerNext
  <2>3. QED
    BY <2>1, <2>2, MovedKeeps
<1>5. CASE ConnStep
  <2>1. UNCHANGED <<pc, cur, link>>
    BY <1>5 DEF ConnStep, IdleTimeout, LoseResponse, Reap, agent_vars
  <2>2. ASSUME NEW d \in Conns PROVE Moved(d)
    BY <1>5, <2>2, ConnMoves DEF ConnStep
  <2>3. QED
    BY <2>1, <2>2, MovedKeeps
<1>6. CASE UNCHANGED vars
  <2>1. UNCHANGED <<pc, cur, link, reqs, resps, step, held>>
    BY <1>6 DEF vars, server_vars, conn_vars, agent_vars
  <2>2. ASSUME NEW d \in Conns PROVE Moved(d)
    BY <2>1, <2>2, SameMoved DEF Serving
  <2>3. QED
    BY <2>1, <2>2, MovedKeeps
<1>7. QED
  BY <1>1, <1>2, <1>3, <1>4, <1>5, <1>6 DEF Next, AgentStep, PostStep

LEMMA ExchangeInit == Init => ExchangeInv
<1> SUFFICES ASSUME Init PROVE ExchangeInv
  OBVIOUS
<1>1. TypeInv
  BY TypeInit
<1>2. \A c \in Conns : InFlight(c) = 0
  BY <1>1, EmptyConn DEF Init, ServerInit, Serving
<1>3. 0 <= 1 /\ pc # "wait"
  BY DEF Init
<1>4. QED
  BY <1>2, <1>3 DEF ExchangeInv, OneExchange

THEOREM ExchangeCorrect == Spec => []ExchangeInv
  BY ExchangeInit, ExchangeNext, TypeInvCorrect, PTL DEF Spec

\* Whatever fails, a connection carries one exchange at most, and none of an
\* earlier post is left on the agent's connection when it posts again.
THEOREM OneExchangeCorrect == Spec => []OneExchange
<1>1. ExchangeInv => OneExchange
  BY DEF ExchangeInv
<1>2. QED
  BY <1>1, ExchangeCorrect, PTL

\* The strand never takes the answer to one post for the answer to another.
THEOREM AnswersMatch == Spec => []AnswerMatches
<1>1. ExchangeInv => AnswerMatches
  BY DEF ExchangeInv, AnswerMatches, Carries
<1>2. QED
  BY <1>1, ExchangeCorrect, PTL
=============================================================================
