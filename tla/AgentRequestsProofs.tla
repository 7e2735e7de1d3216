-------------------------- MODULE AgentRequestsProofs --------------------------
(***************************************************************************)
(* Theorems about AgentRequests: what a timer handler that another thread  *)
(* runs between any two steps of a request can and cannot spoil.           *)
(***************************************************************************)
EXTENDS AgentRequests, TLAPS

\* While no call has returned behind its timer, there is one handler at most
\* of one call: waiting for the timer, in the queue, or closing the socket.
HandlersInTime ==
    ~late => /\ queued > 0 => pc \in Blocking /\ Open(via) /\ queued = 1
             /\ shutting => pc \in Blocking /\ closed
             /\ queued > 0 \/ shutting => ~timer
             /\ ~(queued > 0 /\ shutting)
             /\ pc = "dialing" => ~closed
             /\ pc \in Blocking /\ timer => Open(via)

\* Then TLS is on whenever a stream is about to be made, and the stream in
\* use is the one that isOpen looks at.
KindsInTime ==
    /\ ~config.tls => ssl = "null" /\ ~tlsEnabled /\ via = "tcp"
    /\ ~late =>
          /\ config.tls => tcp = "closed"
          /\ ssl = "open" => tlsEnabled
          /\ config.tls /\ (\/ pc \in {"connect", "opening", "dialing"}
                            \/ pc = "check" /\ caller = "handle")
                => tlsEnabled
          /\ pc = "dialing" => via = Kind

\* A post that looks for an open socket a second time, or connects, has none.
NothingOpen ==
    /\ keepAlive => config.reuse
    /\ ~late /\ pc \in {"connect", "opening", "dialing"} => ~AnyOpen
    /\ ~late /\ pc = "enable" /\ caller = "post" => ~AnyOpen

\* Late handlers included: a TLS stream without a handshake is either on its
\* way to one, or out of use because TLS has been turned off.
Handshakes ==
    /\ ssl = "open" /\ ~shaken =>
          pc \in {"connecting", "shake", "shaking"} \/ ~tlsEnabled
    /\ closed /\ ~shutting /\ (ssl = "open" \/ (pc = "dialing" /\ via = "ssl"))
          => ~tlsEnabled

ClientInv ==
    /\ TypeOK /\ TimerScoped /\ HandlersInTime /\ ShutdownWorks
    /\ KindsInTime /\ NothingOpen /\ StartsClean /\ Handshakes /\ HandshakeFirst
-----------------------------------------------------------------------------
(* The actions, by what they do to the client.                             *)
Looks == BeginHandle \/ BeginPost \/ CheckOpen \/ ConnectedAlready \/ StartConnect
Prepares == Enable \/ ReplaceStream \/ Dial
Starts == StartHandshake \/ StartWrite \/ StartRead
Succeeds == Connected \/ Shaken \/ Written \/ Answered
Fails == ResolveFails \/ PeerFails \/ Interrupted
Leaves == StartTunnel \/ ConnectionEnds

(* TypeOK by the sort of its variables.                                    *)
Flags ==
    /\ shaken \in BOOLEAN /\ tlsEnabled \in BOOLEAN /\ closed \in BOOLEAN
    /\ timer \in BOOLEAN /\ shutting \in BOOLEAN /\ keepAlive \in BOOLEAN
Counters == queued \in 0..MaxQueued /\ attempt \in 1..2
Places ==
    /\ config \in Configs /\ tcp \in Layers \ {"null"} /\ ssl \in Layers
    /\ pc \in PCs /\ caller \in {"handle", "post"} /\ via \in Kinds

LEMMA ConfigType ==
    ASSUME config \in Configs
    PROVE  config.tls \in BOOLEAN /\ config.reuse \in BOOLEAN
BY DEF Configs

\* The history variable keeps its type, only rises, and rises when it has to.
HistoryStep == late' \in BOOLEAN /\ (late => late') /\ (ReturnsLate => late')
LEMMA HistoryMoves ==
    ASSUME late \in BOOLEAN, late' = (late \/ ReturnsLate) PROVE HistoryStep
BY Zenon DEF HistoryStep

LEMMA Steps ==
    ASSUME TypeOK, [Next]_vars
    PROVE  \/ HistoryStep /\ (Looks \/ Prepares \/ Starts \/ Succeeds \/ Fails \/ Leaves \/ Timer)
           \/ UNCHANGED vars
BY HistoryMoves, Zenon
   DEF Next, Request, Progress, Looks, Prepares, Starts, Succeeds, Fails, Leaves, TypeOK

LEMMA FlagsNext ==
    ASSUME TypeOK, [Next]_vars
    PROVE  Flags'
<1> USE ConfigType, QueuedAssumption
    DEF Flags, TypeOK, ClientTypeOK, Kind, IsOpen, Open, Layers, Kinds,
        Blocking, HistoryStep
<1>1. CASE HistoryStep /\ Looks
  BY <1>1 DEF Looks, BeginHandle, BeginPost, CheckOpen, ConnectedAlready,
                StartConnect, Goto, client_vars
<1>2. CASE HistoryStep /\ Prepares
  BY <1>2 DEF Prepares, Enable, EnableTls, ReplaceStream, NewStream, Block,
                ResetTimeout, Dial, OpenStream, Goto
<1>3. CASE HistoryStep /\ Starts
  BY <1>3 DEF Starts, StartHandshake, StartWrite, StartRead,
                AfterWriteFailure, Fail, AfterFailure, CanRetry, Block,
                ResetTimeout, Goto, client_vars, SocketShutdown, CloseSockets,
                CancelTimeout
<1>4. CASE HistoryStep /\ Succeeds
  BY <1>4 DEF Succeeds, Connected, Shaken, Written, Answered, CallSucceeds,
                Goto, SocketShutdown, CloseSockets, CancelTimeout
<1>5. CASE HistoryStep /\ Fails
  BY <1>5 DEF Fails, ResolveFails, PeerFails, Interrupted, CallFails,
                AfterWriteFailure, Fail, AfterFailure, CanRetry, Goto,
                client_vars, SocketShutdown, CloseSockets, CancelTimeout
<1>6. CASE HistoryStep /\ Leaves
  BY <1>6 DEF Leaves, StartTunnel, ConnectionEnds, Goto, client_vars,
                SocketShutdown, CloseSockets, CancelTimeout
<1>7. CASE HistoryStep /\ Timer
  BY <1>7 DEF Timer, Expiry, TimerExpires, OnTimeout, EndShutdown,
                request_vars, CloseSockets, CancelTimeout
<1>8. CASE UNCHANGED vars
  BY <1>8 DEF vars, client_vars, request_vars
<1> QED
  BY <1>1, <1>2, <1>3, <1>4, <1>5, <1>6, <1>7, <1>8, Steps

LEMMA CountersNext ==
    ASSUME TypeOK, [Next]_vars
    PROVE  Counters'
<1> USE ConfigType, QueuedAssumption
    DEF Counters, TypeOK, ClientTypeOK, Kind, IsOpen, Open, Layers, Kinds,
        Blocking, HistoryStep
<1>1. CASE HistoryStep /\ Looks
  BY <1>1 DEF Looks, BeginHandle, BeginPost, CheckOpen, ConnectedAlready,
                StartConnect, Goto, client_vars
<1>2. CASE HistoryStep /\ Prepares
  BY <1>2 DEF Prepares, Enable, EnableTls, ReplaceStream, NewStream, Block,
                ResetTimeout, Dial, OpenStream, Goto
<1>3. CASE HistoryStep /\ Starts
  BY <1>3 DEF Starts, StartHandshake, StartWrite, StartRead,
                AfterWriteFailure, Fail, AfterFailure, CanRetry, Block,
                ResetTimeout, Goto, client_vars, SocketShutdown, CloseSockets,
                CancelTimeout
<1>4. CASE HistoryStep /\ Succeeds
  BY <1>4 DEF Succeeds, Connected, Shaken, Written, Answered, CallSucceeds,
                Goto, SocketShutdown, CloseSockets, CancelTimeout
<1>5. CASE HistoryStep /\ Fails
  BY <1>5 DEF Fails, ResolveFails, PeerFails, Interrupted, CallFails,
                AfterWriteFailure, Fail, AfterFailure, CanRetry, Goto,
                client_vars, SocketShutdown, CloseSockets, CancelTimeout
<1>6. CASE HistoryStep /\ Leaves
  BY <1>6 DEF Leaves, StartTunnel, ConnectionEnds, Goto, client_vars,
                SocketShutdown, CloseSockets, CancelTimeout
<1>7. CASE HistoryStep /\ Timer
  BY <1>7 DEF Timer, Expiry, TimerExpires, OnTimeout, EndShutdown,
                request_vars, CloseSockets, CancelTimeout
<1>8. CASE UNCHANGED vars
  BY <1>8 DEF vars, client_vars, request_vars
<1> QED
  BY <1>1, <1>2, <1>3, <1>4, <1>5, <1>6, <1>7, <1>8, Steps

LEMMA PlacesNext ==
    ASSUME TypeOK, [Next]_vars
    PROVE  Places'
<1> USE ConfigType, QueuedAssumption
    DEF Places, TypeOK, ClientTypeOK, Kind, IsOpen, Open, Layers, Kinds,
        Blocking, PCs, HistoryStep
<1>1. CASE HistoryStep /\ Looks
  BY <1>1 DEF Looks, BeginHandle, BeginPost, CheckOpen, ConnectedAlready,
                StartConnect, Goto, client_vars
<1>2. CASE HistoryStep /\ Prepares
  BY <1>2 DEF Prepares, Enable, EnableTls, ReplaceStream, NewStream, Block,
                ResetTimeout, Dial, OpenStream, Goto
<1>3. CASE HistoryStep /\ Starts
  BY <1>3 DEF Starts, StartHandshake, StartWrite, StartRead,
                AfterWriteFailure, Fail, AfterFailure, CanRetry, Block,
                ResetTimeout, Goto, client_vars, SocketShutdown, CloseSockets,
                CancelTimeout
<1>4. CASE HistoryStep /\ Succeeds
  BY <1>4 DEF Succeeds, Connected, Shaken, Written, Answered, CallSucceeds,
                Goto, SocketShutdown, CloseSockets, CancelTimeout
<1>5. CASE HistoryStep /\ Fails
  BY <1>5 DEF Fails, ResolveFails, PeerFails, Interrupted, CallFails,
                AfterWriteFailure, Fail, AfterFailure, CanRetry, Goto,
                client_vars, SocketShutdown, CloseSockets, CancelTimeout
<1>6. CASE HistoryStep /\ Leaves
  BY <1>6 DEF Leaves, StartTunnel, ConnectionEnds, Goto, client_vars,
                SocketShutdown, CloseSockets, CancelTimeout
<1>7. CASE HistoryStep /\ Timer
  BY <1>7 DEF Timer, Expiry, TimerExpires, OnTimeout, EndShutdown,
                request_vars, CloseSockets, CancelTimeout
<1>8. CASE UNCHANGED vars
  BY <1>8 DEF vars, client_vars, request_vars
<1> QED
  BY <1>1, <1>2, <1>3, <1>4, <1>5, <1>6, <1>7, <1>8, Steps

LEMMA TimerScopedNext ==
    ASSUME TypeOK, TimerScoped, [Next]_vars
    PROVE  TimerScoped'
<1> USE ConfigType, QueuedAssumption
    DEF TimerScoped, TypeOK, ClientTypeOK, Kind, IsOpen, Open, Layers, Kinds,
        Blocking, HistoryStep
<1>1. CASE HistoryStep /\ Looks
  BY <1>1 DEF Looks, BeginHandle, BeginPost, CheckOpen, ConnectedAlready,
                StartConnect, Goto, client_vars
<1>2. CASE HistoryStep /\ Prepares
  BY <1>2 DEF Prepares, Enable, EnableTls, ReplaceStream, NewStream, Block,
                ResetTimeout, Dial, OpenStream, Goto
<1>3. CASE HistoryStep /\ Starts
  BY <1>3 DEF Starts, StartHandshake, StartWrite, StartRead,
                AfterWriteFailure, Fail, AfterFailure, CanRetry, Block,
                ResetTimeout, Goto, client_vars, SocketShutdown, CloseSockets,
                CancelTimeout
<1>4. CASE HistoryStep /\ Succeeds
  BY <1>4 DEF Succeeds, Connected, Shaken, Written, Answered, CallSucceeds,
                Goto, SocketShutdown, CloseSockets, CancelTimeout
<1>5. CASE HistoryStep /\ Fails
  BY <1>5 DEF Fails, ResolveFails, PeerFails, Interrupted, CallFails,
                AfterWriteFailure, Fail, AfterFailure, CanRetry, Goto,
                client_vars, SocketShutdown, CloseSockets, CancelTimeout
<1>6. CASE HistoryStep /\ Leaves
  BY <1>6 DEF Leaves, StartTunnel, ConnectionEnds, Goto, client_vars,
                SocketShutdown, CloseSockets, CancelTimeout
<1>7. CASE HistoryStep /\ Timer
  BY <1>7 DEF Timer, Expiry, TimerExpires, OnTimeout, EndShutdown,
                request_vars, CloseSockets, CancelTimeout
<1>8. CASE UNCHANGED vars
  BY <1>8 DEF vars, client_vars, request_vars
<1> QED
  BY <1>1, <1>2, <1>3, <1>4, <1>5, <1>6, <1>7, <1>8, Steps

LEMMA HandlersInTimeNext ==
    ASSUME TypeOK, HandlersInTime, TimerScoped, ShutdownWorks, KindsInTime, [Next]_vars
    PROVE  HandlersInTime'
<1> USE ConfigType, QueuedAssumption
    DEF HandlersInTime, TypeOK, TimerScoped, ShutdownWorks, KindsInTime,
        ClientTypeOK, ReturnsLate, Kind, IsOpen, Open, Layers, Kinds, Blocking,
        AnyOpen, HistoryStep
<1>1. CASE HistoryStep /\ Looks
  BY <1>1 DEF Looks, BeginHandle, BeginPost, CheckOpen, ConnectedAlready,
                StartConnect, Goto, client_vars
<1>2. CASE HistoryStep /\ Prepares
  BY <1>2 DEF Prepares, Enable, EnableTls, ReplaceStream, NewStream, Block,
                ResetTimeout, Dial, OpenStream, Goto
<1>3. CASE HistoryStep /\ Starts
  BY <1>3 DEF Starts, StartHandshake, StartWrite, StartRead,
                AfterWriteFailure, Fail, AfterFailure, CanRetry, Block,
                ResetTimeout, Goto, client_vars, SocketShutdown, CloseSockets,
                CancelTimeout
<1>4. CASE HistoryStep /\ Succeeds
  BY <1>4 DEF Succeeds, Connected, Shaken, Written, Answered, CallSucceeds,
                Goto, SocketShutdown, CloseSockets, CancelTimeout
<1>5. CASE HistoryStep /\ Fails
  BY <1>5 DEF Fails, ResolveFails, PeerFails, Interrupted, CallFails,
                AfterWriteFailure, Fail, AfterFailure, CanRetry, Goto,
                client_vars, SocketShutdown, CloseSockets, CancelTimeout
<1>6. CASE HistoryStep /\ Leaves
  BY <1>6 DEF Leaves, StartTunnel, ConnectionEnds, Goto, client_vars,
                SocketShutdown, CloseSockets, CancelTimeout
<1>7. CASE HistoryStep /\ Timer
  BY <1>7 DEF Timer, Expiry, TimerExpires, OnTimeout, EndShutdown,
                request_vars, CloseSockets, CancelTimeout
<1>8. CASE UNCHANGED vars
  BY <1>8 DEF vars, client_vars, request_vars
<1> QED
  BY <1>1, <1>2, <1>3, <1>4, <1>5, <1>6, <1>7, <1>8, Steps

LEMMA ShutdownWorksNext ==
    ASSUME TypeOK, ShutdownWorks, HandlersInTime, KindsInTime, [Next]_vars
    PROVE  ShutdownWorks'
<1> USE ConfigType, QueuedAssumption
    DEF ShutdownWorks, TypeOK, HandlersInTime, KindsInTime, ClientTypeOK, Kind,
        IsOpen, Open, Layers, Kinds, Blocking, AnyOpen, HistoryStep
<1>1. CASE HistoryStep /\ Looks
  BY <1>1 DEF Looks, BeginHandle, BeginPost, CheckOpen, ConnectedAlready,
                StartConnect, Goto, client_vars
<1>2. CASE HistoryStep /\ Prepares
  BY <1>2 DEF Prepares, Enable, EnableTls, ReplaceStream, NewStream, Block,
                ResetTimeout, Dial, OpenStream, Goto
<1>3. CASE HistoryStep /\ Starts
  BY <1>3 DEF Starts, StartHandshake, StartWrite, StartRead,
                AfterWriteFailure, Fail, AfterFailure, CanRetry, Block,
                ResetTimeout, Goto, client_vars, SocketShutdown, CloseSockets,
                CancelTimeout
<1>4. CASE HistoryStep /\ Succeeds
  BY <1>4 DEF Succeeds, Connected, Shaken, Written, Answered, CallSucceeds,
                Goto, SocketShutdown, CloseSockets, CancelTimeout
<1>5. CASE HistoryStep /\ Fails
  BY <1>5 DEF Fails, ResolveFails, PeerFails, Interrupted, CallFails,
                AfterWriteFailure, Fail, AfterFailure, CanRetry, Goto,
                client_vars, SocketShutdown, CloseSockets, CancelTimeout
<1>6. CASE HistoryStep /\ Leaves
  BY <1>6 DEF Leaves, StartTunnel, ConnectionEnds, Goto, client_vars,
                SocketShutdown, CloseSockets, CancelTimeout
<1>7. CASE HistoryStep /\ Timer
  BY <1>7 DEF Timer, Expiry, TimerExpires, OnTimeout, EndShutdown,
                request_vars, CloseSockets, CancelTimeout
<1>8. CASE UNCHANGED vars
  BY <1>8 DEF vars, client_vars, request_vars
<1> QED
  BY <1>1, <1>2, <1>3, <1>4, <1>5, <1>6, <1>7, <1>8, Steps

LEMMA KindsInTimeNext ==
    ASSUME TypeOK, KindsInTime, HandlersInTime, ShutdownWorks, NothingOpen, [Next]_vars
    PROVE  KindsInTime'
<1> USE ConfigType, QueuedAssumption
    DEF KindsInTime, TypeOK, HandlersInTime, ShutdownWorks, NothingOpen,
        ClientTypeOK, Kind, IsOpen, Open, Layers, Kinds, Blocking, AnyOpen,
        HistoryStep
<1>1. CASE HistoryStep /\ Looks
  BY <1>1 DEF Looks, BeginHandle, BeginPost, CheckOpen, ConnectedAlready,
                StartConnect, Goto, client_vars
<1>2. CASE HistoryStep /\ Prepares
  BY <1>2 DEF Prepares, Enable, EnableTls, ReplaceStream, NewStream, Block,
                ResetTimeout, Dial, OpenStream, Goto
<1>3. CASE HistoryStep /\ Starts
  BY <1>3 DEF Starts, StartHandshake, StartWrite, StartRead,
                AfterWriteFailure, Fail, AfterFailure, CanRetry, Block,
                ResetTimeout, Goto, client_vars, SocketShutdown, CloseSockets,
                CancelTimeout
<1>4. CASE HistoryStep /\ Succeeds
  BY <1>4 DEF Succeeds, Connected, Shaken, Written, Answered, CallSucceeds,
                Goto, SocketShutdown, CloseSockets, CancelTimeout
<1>5. CASE HistoryStep /\ Fails
  BY <1>5 DEF Fails, ResolveFails, PeerFails, Interrupted, CallFails,
                AfterWriteFailure, Fail, AfterFailure, CanRetry, Goto,
                client_vars, SocketShutdown, CloseSockets, CancelTimeout
<1>6. CASE HistoryStep /\ Leaves
  BY <1>6 DEF Leaves, StartTunnel, ConnectionEnds, Goto, client_vars,
                SocketShutdown, CloseSockets, CancelTimeout
<1>7. CASE HistoryStep /\ Timer
  BY <1>7 DEF Timer, Expiry, TimerExpires, OnTimeout, EndShutdown,
                request_vars, CloseSockets, CancelTimeout
<1>8. CASE UNCHANGED vars
  BY <1>8 DEF vars, client_vars, request_vars
<1> QED
  BY <1>1, <1>2, <1>3, <1>4, <1>5, <1>6, <1>7, <1>8, Steps

LEMMA NothingOpenNext ==
    ASSUME TypeOK, NothingOpen, HandlersInTime, ShutdownWorks, KindsInTime, StartsClean, [Next]_vars
    PROVE  NothingOpen'
<1> USE ConfigType, QueuedAssumption
    DEF NothingOpen, TypeOK, HandlersInTime, ShutdownWorks, KindsInTime,
        StartsClean, ClientTypeOK, Kind, IsOpen, Open, Layers, Kinds, Blocking,
        AnyOpen, HistoryStep
<1>1. CASE HistoryStep /\ Looks
  BY <1>1 DEF Looks, BeginHandle, BeginPost, CheckOpen, ConnectedAlready,
                StartConnect, Goto, client_vars
<1>2. CASE HistoryStep /\ Prepares
  BY <1>2 DEF Prepares, Enable, EnableTls, ReplaceStream, NewStream, Block,
                ResetTimeout, Dial, OpenStream, Goto
<1>3. CASE HistoryStep /\ Starts
  BY <1>3 DEF Starts, StartHandshake, StartWrite, StartRead,
                AfterWriteFailure, Fail, AfterFailure, CanRetry, Block,
                ResetTimeout, Goto, client_vars, SocketShutdown, CloseSockets,
                CancelTimeout
<1>4. CASE HistoryStep /\ Succeeds
  BY <1>4 DEF Succeeds, Connected, Shaken, Written, Answered, CallSucceeds,
                Goto, SocketShutdown, CloseSockets, CancelTimeout
<1>5. CASE HistoryStep /\ Fails
  BY <1>5 DEF Fails, ResolveFails, PeerFails, Interrupted, CallFails,
                AfterWriteFailure, Fail, AfterFailure, CanRetry, Goto,
                client_vars, SocketShutdown, CloseSockets, CancelTimeout
<1>6. CASE HistoryStep /\ Leaves
  BY <1>6 DEF Leaves, StartTunnel, ConnectionEnds, Goto, client_vars,
                SocketShutdown, CloseSockets, CancelTimeout
<1>7. CASE HistoryStep /\ Timer
  BY <1>7 DEF Timer, Expiry, TimerExpires, OnTimeout, EndShutdown,
                request_vars, CloseSockets, CancelTimeout
<1>8. CASE UNCHANGED vars
  BY <1>8 DEF vars, client_vars, request_vars
<1> QED
  BY <1>1, <1>2, <1>3, <1>4, <1>5, <1>6, <1>7, <1>8, Steps

LEMMA StartsCleanNext ==
    ASSUME TypeOK, StartsClean, ShutdownWorks, KindsInTime, NothingOpen, [Next]_vars
    PROVE  StartsClean'
<1> USE ConfigType, QueuedAssumption
    DEF StartsClean, TypeOK, ShutdownWorks, KindsInTime, NothingOpen,
        ClientTypeOK, Kind, IsOpen, Open, Layers, Kinds, Blocking, AnyOpen,
        HistoryStep
<1>1. CASE HistoryStep /\ Looks
  BY <1>1 DEF Looks, BeginHandle, BeginPost, CheckOpen, ConnectedAlready,
                StartConnect, Goto, client_vars
<1>2. CASE HistoryStep /\ Prepares
  BY <1>2 DEF Prepares, Enable, EnableTls, ReplaceStream, NewStream, Block,
                ResetTimeout, Dial, OpenStream, Goto
<1>3. CASE HistoryStep /\ Starts
  BY <1>3 DEF Starts, StartHandshake, StartWrite, StartRead,
                AfterWriteFailure, Fail, AfterFailure, CanRetry, Block,
                ResetTimeout, Goto, client_vars, SocketShutdown, CloseSockets,
                CancelTimeout
<1>4. CASE HistoryStep /\ Succeeds
  BY <1>4 DEF Succeeds, Connected, Shaken, Written, Answered, CallSucceeds,
                Goto, SocketShutdown, CloseSockets, CancelTimeout
<1>5. CASE HistoryStep /\ Fails
  BY <1>5 DEF Fails, ResolveFails, PeerFails, Interrupted, CallFails,
                AfterWriteFailure, Fail, AfterFailure, CanRetry, Goto,
                client_vars, SocketShutdown, CloseSockets, CancelTimeout
<1>6. CASE HistoryStep /\ Leaves
  BY <1>6 DEF Leaves, StartTunnel, ConnectionEnds, Goto, client_vars,
                SocketShutdown, CloseSockets, CancelTimeout
<1>7. CASE HistoryStep /\ Timer
  BY <1>7 DEF Timer, Expiry, TimerExpires, OnTimeout, EndShutdown,
                request_vars, CloseSockets, CancelTimeout
<1>8. CASE UNCHANGED vars
  BY <1>8 DEF vars, client_vars, request_vars
<1> QED
  BY <1>1, <1>2, <1>3, <1>4, <1>5, <1>6, <1>7, <1>8, Steps

LEMMA HandshakesNext ==
    ASSUME TypeOK, Handshakes, [Next]_vars
    PROVE  Handshakes'
<1> USE ConfigType, QueuedAssumption
    DEF Handshakes, TypeOK, ClientTypeOK, Kind, IsOpen, Open, Layers, Kinds,
        Blocking, HistoryStep
<1>1. CASE HistoryStep /\ Looks
  BY <1>1 DEF Looks, BeginHandle, BeginPost, CheckOpen, ConnectedAlready,
                StartConnect, Goto, client_vars
<1>2. CASE HistoryStep /\ Prepares
  BY <1>2 DEF Prepares, Enable, EnableTls, ReplaceStream, NewStream, Block,
                ResetTimeout, Dial, OpenStream, Goto
<1>3. CASE HistoryStep /\ Starts
  BY <1>3 DEF Starts, StartHandshake, StartWrite, StartRead,
                AfterWriteFailure, Fail, AfterFailure, CanRetry, Block,
                ResetTimeout, Goto, client_vars, SocketShutdown, CloseSockets,
                CancelTimeout
<1>4. CASE HistoryStep /\ Succeeds
  BY <1>4 DEF Succeeds, Connected, Shaken, Written, Answered, CallSucceeds,
                Goto, SocketShutdown, CloseSockets, CancelTimeout
<1>5. CASE HistoryStep /\ Fails
  BY <1>5 DEF Fails, ResolveFails, PeerFails, Interrupted, CallFails,
                AfterWriteFailure, Fail, AfterFailure, CanRetry, Goto,
                client_vars, SocketShutdown, CloseSockets, CancelTimeout
<1>6. CASE HistoryStep /\ Leaves
  BY <1>6 DEF Leaves, StartTunnel, ConnectionEnds, Goto, client_vars,
                SocketShutdown, CloseSockets, CancelTimeout
<1>7. CASE HistoryStep /\ Timer
  BY <1>7 DEF Timer, Expiry, TimerExpires, OnTimeout, EndShutdown,
                request_vars, CloseSockets, CancelTimeout
<1>8. CASE UNCHANGED vars
  BY <1>8 DEF vars, client_vars, request_vars
<1> QED
  BY <1>1, <1>2, <1>3, <1>4, <1>5, <1>6, <1>7, <1>8, Steps

LEMMA HandshakeFirstNext ==
    ASSUME TypeOK, HandshakeFirst, Handshakes, [Next]_vars
    PROVE  HandshakeFirst'
<1> USE ConfigType, QueuedAssumption
    DEF HandshakeFirst, TypeOK, Handshakes, ClientTypeOK, Kind, IsOpen, Open,
        Layers, Kinds, Blocking, HistoryStep
<1>1. CASE HistoryStep /\ Looks
  BY <1>1 DEF Looks, BeginHandle, BeginPost, CheckOpen, ConnectedAlready,
                StartConnect, Goto, client_vars
<1>2. CASE HistoryStep /\ Prepares
  BY <1>2 DEF Prepares, Enable, EnableTls, ReplaceStream, NewStream, Block,
                ResetTimeout, Dial, OpenStream, Goto
<1>3. CASE HistoryStep /\ Starts
  BY <1>3 DEF Starts, StartHandshake, StartWrite, StartRead,
                AfterWriteFailure, Fail, AfterFailure, CanRetry, Block,
                ResetTimeout, Goto, client_vars, SocketShutdown, CloseSockets,
                CancelTimeout
<1>4. CASE HistoryStep /\ Succeeds
  BY <1>4 DEF Succeeds, Connected, Shaken, Written, Answered, CallSucceeds,
                Goto, SocketShutdown, CloseSockets, CancelTimeout
<1>5. CASE HistoryStep /\ Fails
  BY <1>5 DEF Fails, ResolveFails, PeerFails, Interrupted, CallFails,
                AfterWriteFailure, Fail, AfterFailure, CanRetry, Goto,
                client_vars, SocketShutdown, CloseSockets, CancelTimeout
<1>6. CASE HistoryStep /\ Leaves
  BY <1>6 DEF Leaves, StartTunnel, ConnectionEnds, Goto, client_vars,
                SocketShutdown, CloseSockets, CancelTimeout
<1>7. CASE HistoryStep /\ Timer
  BY <1>7 DEF Timer, Expiry, TimerExpires, OnTimeout, EndShutdown,
                request_vars, CloseSockets, CancelTimeout
<1>8. CASE UNCHANGED vars
  BY <1>8 DEF vars, client_vars, request_vars
<1> QED
  BY <1>1, <1>2, <1>3, <1>4, <1>5, <1>6, <1>7, <1>8, Steps

-----------------------------------------------------------------------------
LEMMA TypeNext == TypeOK /\ [Next]_vars => TypeOK'
<1> SUFFICES ASSUME TypeOK, [Next]_vars PROVE TypeOK'
  OBVIOUS
<1>1. late' \in BOOLEAN
  BY Steps DEF HistoryStep, TypeOK, vars
<1> QED
  BY <1>1, FlagsNext, CountersNext, PlacesNext
     DEF TypeOK, ClientTypeOK, Flags, Counters, Places

LEMMA InvInit == Init => ClientInv
<1> SUFFICES ASSUME Init PROVE ClientInv
  OBVIOUS
<1> USE DEF Init, ClientInit
<1>1. TypeOK
  <2>1. Flags /\ late \in BOOLEAN
    BY Zenon DEF Flags
  <2>2. Counters
    BY QueuedAssumption DEF Counters
  <2>3. Places
    BY DEF Places, Layers, Kinds, PCs
  <2> QED
    BY <2>1, <2>2, <2>3 DEF TypeOK, ClientTypeOK, Flags, Counters, Places
<1>2. HandlersInTime /\ KindsInTime /\ NothingOpen
  BY QueuedAssumption DEF HandlersInTime, KindsInTime, NothingOpen, AnyOpen, Blocking
<1>3. TimerScoped /\ ShutdownWorks /\ StartsClean /\ Handshakes /\ HandshakeFirst
  BY DEF TimerScoped, ShutdownWorks, StartsClean, Handshakes, HandshakeFirst
<1> QED
  BY <1>1, <1>2, <1>3 DEF ClientInv

LEMMA InvNext == ClientInv /\ [Next]_vars => ClientInv'
BY TypeNext, TimerScopedNext, HandlersInTimeNext, ShutdownWorksNext, KindsInTimeNext,
   NothingOpenNext, StartsCleanNext, HandshakesNext, HandshakeFirstNext
   DEF ClientInv

\* The inductive invariant holds in every behaviour.
THEOREM ClientInvCorrect == Spec => []ClientInv
<1> QED
  BY InvInit, InvNext, PTL DEF Spec

\* Every variable of the client and of its callers keeps its type.
THEOREM TypeCorrect == Spec => []TypeOK
<1>1. ClientInv => TypeOK
  BY DEF ClientInv
<1> QED
  BY <1>1, ClientInvCorrect, PTL

\* No request is written to an open TLS stream before the handshake on it is
\* done, whatever timer handler runs between doConnect, doHandshakeClient and
\* doWrite.
THEOREM HandshakeAlwaysFirst == Spec => []HandshakeFirst
<1>1. ClientInv => HandshakeFirst
  BY DEF ClientInv
<1> QED
  BY <1>1, ClientInvCorrect, PTL

\* As long as no call has returned behind its timer, a client configured for
\* TLS writes no request to a plain socket.
THEOREM TlsKept == Spec => []TlsInTime
<1>1. ClientInv => TlsInTime
  BY DEF ClientInv, KindsInTime, TlsInTime, TlsOnly
<1> QED
  BY <1>1, ClientInvCorrect, PTL

\* As long as no call has returned behind its timer, socketShutdown finds
\* every open socket: closed_ is set over closed sockets only.
THEOREM ShutdownAlwaysWorks == Spec => []ShutdownWorks
<1>1. ClientInv => ShutdownWorks
  BY DEF ClientInv
<1> QED
  BY <1>1, ClientInvCorrect, PTL

\* The timer runs over blocking calls only, on every path out of them.
THEOREM TimerAlwaysScoped == Spec => []TimerScoped
<1>1. ClientInv => TimerScoped
  BY DEF ClientInv
<1> QED
  BY <1>1, ClientInvCorrect, PTL

\* The second try of a post, and every post where connections are not reused,
\* starts with no socket open.
THEOREM AlwaysStartsClean == Spec => []StartsClean
<1>1. ClientInv => StartsClean
  BY DEF ClientInv
<1> QED
  BY <1>1, ClientInvCorrect, PTL
=============================================================================
