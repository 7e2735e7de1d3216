------------------------- MODULE ClientRequestsProofs -------------------------
(***************************************************************************)
(* Theorems about ClientRequests and the addresses its handshake writes,   *)
(* for every set of handshakes and requests and every bound.  What the     *)
(* agent writes behind CONNECT for a SOCKS5 request, the server takes      *)
(* apart into the same address, whatever tokens its host is made of and    *)
(* however long it is.                                                     *)
(***************************************************************************)
EXTENDS ClientRequests, TLAPS

-----------------------------------------------------------------------------
(* The text of an address.                                                 *)

\* The position First and Last mean is the only one.
LEMMA FirstIs ==
    ASSUME NEW text, NEW token, NEW n \in Nat, DOMAIN text = 1..n,
           NEW i \in 1..n, text[i] = token, \A j \in 1..(i - 1) : text[j] # token
    PROVE  First(token, text) = i
<1> DEFINE P(k) == text[k] = token /\ \A j \in 1..(k - 1) : text[j] # token
<1>1. i \in DOMAIN text /\ P(i)
  OBVIOUS
<1>2. \A k \in DOMAIN text : P(k) => k = i
  <2> SUFFICES ASSUME NEW k \in 1..n, P(k), k # i PROVE FALSE
    OBVIOUS
  <2>1. k \in 1..(i - 1) \/ i \in 1..(k - 1)
    OBVIOUS
  <2> QED BY <2>1
<1> HIDE DEF P
<1>3. (CHOOSE k \in DOMAIN text : P(k)) = i
  BY <1>1, <1>2
<1> QED BY <1>3 DEF First, P

LEMMA LastIs ==
    ASSUME NEW text, NEW token, NEW n \in Nat, DOMAIN text = 1..n, Len(text) = n,
           NEW i \in 1..n, text[i] = token, \A j \in (i + 1)..n : text[j] # token
    PROVE  Last(token, text) = i
<1> DEFINE P(k) == text[k] = token /\ \A j \in (k + 1)..Len(text) : text[j] # token
<1>1. i \in DOMAIN text /\ P(i)
  OBVIOUS
<1>2. \A k \in DOMAIN text : P(k) => k = i
  <2> SUFFICES ASSUME NEW k \in 1..n, P(k), k # i PROVE FALSE
    OBVIOUS
  <2>1. k \in (i + 1)..n \/ i \in (k + 1)..n
    OBVIOUS
  <2> QED BY <2>1
<1> HIDE DEF P
<1>3. (CHOOSE k \in DOMAIN text : P(k)) = i
  BY <1>1, <1>2
<1> QED BY <1>3 DEF Last, P

\* std::stoi reads back the port that std::to_string wrote.
LEMMA PortReadBack ==
    ASSUME NEW port \in Ports \cup {NoPort} PROVE ParsePort(<<Number(port)>>) = port
BY DEF ParsePort, Number

\* The symbols are three, and none is a number.
LEMMA Symbols ==
    ASSUME NEW port
    PROVE  /\ Colon # CloseBracket /\ Colon # OpenBracket
           /\ Number(port) # CloseBracket /\ Number(port) # Colon
BY DEF Colon, OpenBracket, CloseBracket, Number

\* Short sequences are what they hold.
LEMMA OneLong == ASSUME NEW S, NEW s \in Seq(S), Len(s) = 1 PROVE s = <<s[1]>>
OBVIOUS

LEMMA TwoLong == ASSUME NEW S, NEW s \in Seq(S), Len(s) = 2 PROVE s = <<s[1], s[2]>>
OBVIOUS

-----------------------------------------------------------------------------
\* A host with a colon is an IPv6 address: in brackets, and taken out of them.
LEMMA BracketedBack ==
    ASSUME NEW Tokens, NEW host \in Seq(Tokens), NEW port \in Ports \cup {NoPort},
           NEW default, Unbracketed(host), Occurs(Colon, host)
    PROVE  ParseHostPort(MakeTarget(host, port), default) = Address(host, port, default)
<1> DEFINE text == <<OpenBracket>> \o host \o <<CloseBracket, Colon, Number(port)>>
           n == Len(host)
           All == Tokens \cup {OpenBracket, CloseBracket, Colon, Number(port)}
<1>1. MakeTarget(host, port) = text
  BY DEF MakeTarget
<1>2. /\ text \in Seq(All) /\ n \in Nat /\ n > 0 /\ Len(text) = n + 4
      /\ text[1] = OpenBracket
      /\ \A i \in 1..n : text[i + 1] = host[i]
      /\ text[n + 2] = CloseBracket /\ text[n + 3] = Colon /\ text[n + 4] = Number(port)
  BY DEF Occurs
<1> HIDE DEF text
<1>3. DOMAIN text = 1..(n + 4) /\ DOMAIN host = 1..n
  BY <1>2
<1>4. \A j \in 1..(n + 1) : text[j] # CloseBracket
  <2> SUFFICES ASSUME NEW j \in 1..(n + 1) PROVE text[j] # CloseBracket
    OBVIOUS
  <2>1. CASE j = 1
    BY <1>2, <2>1 DEF OpenBracket, CloseBracket
  <2>2. CASE j # 1
    <3>1. j - 1 \in 1..n /\ text[(j - 1) + 1] = host[j - 1] /\ (j - 1) + 1 = j
      BY <1>2, <2>2
    <3> QED BY <1>3, <3>1 DEF Unbracketed, Occurs
  <2> QED BY <2>1, <2>2
<1>5. First(CloseBracket, text) = n + 2
  BY <1>2, <1>3, <1>4, FirstIs
<1>6. Occurs(CloseBracket, text)
  <2>1. n + 2 \in 1..(n + 4)
    BY <1>2
  <2> QED BY <1>2, <1>3, <2>1 DEF Occurs
<1>7. After(n + 2, text) = <<Colon, Number(port)>>
  <2> DEFINE rest == After(n + 2, text)
  <2>1. rest \in Seq(All) /\ Len(rest) = 2 /\ rest[1] = text[n + 3] /\ rest[2] = text[n + 4]
    BY <1>2 DEF After
  <2> HIDE DEF rest
  <2>2. rest = <<rest[1], rest[2]>>
    BY <2>1, TwoLong
  <2> QED BY <1>2, <2>1, <2>2 DEF rest
<1>8. SubSeq(text, 2, n + 1) = host
  BY <1>2
<1>9. Bracketed(text, default) = Address(host, port, default)
  <2>1. Tail(<<Colon, Number(port)>>) = <<Number(port)>>
    OBVIOUS
  <2>2. ParsePort(<<Number(port)>>) = port
    BY PortReadBack
  <2>3. (n + 2) - 1 = n + 1
    BY <1>2
  <2> DEFINE rest == <<Colon, Number(port)>>
  <2>4. rest # <<>> /\ rest[1] = Colon
    OBVIOUS
  <2>5. After(First(CloseBracket, text), text) = rest
        /\ SubSeq(text, 2, First(CloseBracket, text) - 1) = host
    BY <1>5, <1>7, <1>8, <2>3
  <2> HIDE DEF rest
  <2>6. ParsePort(Tail(rest)) = port
    BY <2>1, <2>2 DEF rest
  <2> QED BY <1>6, <2>4, <2>5, <2>6 DEF Bracketed
<1>10. ParseHostPort(text, default) = Bracketed(text, default)
  BY <1>2 DEF ParseHostPort
<1> QED BY <1>1, <1>9, <1>10

\* Any other host, the empty one too, has one colon behind it, before the port.
LEMMA PlainBack ==
    ASSUME NEW Tokens, NEW host \in Seq(Tokens), NEW port \in Ports \cup {NoPort},
           NEW default, Unbracketed(host), ~Occurs(Colon, host)
    PROVE  ParseHostPort(MakeTarget(host, port), default) = Address(host, port, default)
<1> DEFINE text == host \o <<Colon, Number(port)>>
           n == Len(host)
           All == Tokens \cup {Colon, Number(port)}
<1>1. MakeTarget(host, port) = text
  BY DEF MakeTarget
<1>2. /\ text \in Seq(All) /\ n \in Nat /\ Len(text) = n + 2
      /\ \A i \in 1..n : text[i] = host[i]
      /\ text[n + 1] = Colon /\ text[n + 2] = Number(port)
  OBVIOUS
<1> HIDE DEF text
<1>3. DOMAIN text = 1..(n + 2) /\ DOMAIN host = 1..n
  BY <1>2
<1>4. \A j \in 1..n : text[j] # Colon /\ text[j] # OpenBracket
  BY <1>2, <1>3 DEF Unbracketed, Occurs
<1>5. First(Colon, text) = n + 1
  BY <1>2, <1>3, <1>4, FirstIs
<1>6. Last(Colon, text) = n + 1
  <2>1. \A j \in ((n + 1) + 1)..(n + 2) : text[j] # Colon
    BY <1>2, Symbols
  <2> QED BY <1>2, <1>3, <2>1, LastIs
<1>7. /\ Occurs(Colon, text) /\ text # <<>>
      /\ text[1] # OpenBracket
  <2>1. 1 \in 1..n \/ text[1] = Colon
    BY <1>2
  <2> QED BY <1>2, <1>3, <1>4, <2>1, Symbols DEF Occurs
<1>8. Before(n + 1, text) = host
  <2>1. (n + 1) - 1 = n
    BY <1>2
  <2>2. SubSeq(text, 1, n) = host
    BY <1>2
  <2> QED BY <2>1, <2>2 DEF Before
<1>9. After(n + 1, text) = <<Number(port)>>
  <2> DEFINE rest == After(n + 1, text)
  <2>1. rest \in Seq(All) /\ Len(rest) = 1 /\ rest[1] = text[n + 2]
    BY <1>2 DEF After
  <2> HIDE DEF rest
  <2>2. rest = <<rest[1]>>
    BY <2>1, OneLong
  <2> QED BY <1>2, <2>1, <2>2 DEF rest
<1>10. ParseHostPort(text, default) = Address(host, port, default)
  <2>1. ParsePort(<<Number(port)>>) = port
    BY PortReadBack
  <2> QED BY <1>5, <1>6, <1>7, <1>8, <1>9, <2>1 DEF ParseHostPort
<1> QED BY <1>1, <1>10

\* The text of a CONNECT keeps the address a SOCKS5 client asks for, as long as
\* its host has no brackets: parseHostPort takes apart what handleSocks5Handshake
\* has put together, IPv6 addresses that end like a port included.
THEOREM RoundTrip ==
    ASSUME NEW Tokens, NEW host \in Seq(Tokens), NEW port \in Ports \cup {NoPort},
           NEW default, Unbracketed(host)
    PROVE  ParseHostPort(MakeTarget(host, port), default) = Address(host, port, default)
BY BracketedBack, PlainBack

-----------------------------------------------------------------------------
(* The handshake.                                                          *)

\* Bytes in front of a field, and what has been answered there.
Position ==
    [greeting |-> 0, methods |-> 2, request |-> GreetingBytes,
     address |-> GreetingBytes + 4, port |-> GreetingBytes + 4 + AddressBytes,
     done |-> HandshakeBytes]
Answered == IF field \in {"greeting", "methods"} THEN <<>> ELSE <<"method">>

\* While the handshake goes on, or has come to its end, what was taken is what
\* lies in front of the next field; a patient client waits for its answers.
SocksInv ==
    /\ said \in Handshakes
    /\ arrived \in Nat /\ arrived <= HandshakeBytes + Payload
    /\ buffered \in 0..arrived /\ taken \in 0..arrived
    /\ field \in Fields
    /\ replies \in {<<>>, <<"method">>, <<"method", "unsupported">>}
    /\ dropped \in 0..Payload
    /\ pc # "closed" \/ field = "done" => taken = Position[field] /\ replies = Answered
    /\ said.patient =>
        /\ replies = <<>> => arrived <= GreetingBytes
        /\ arrived <= HandshakeBytes
        /\ dropped = 0

LEMMA Sizes ==
    ASSUME said \in Handshakes
    PROVE  /\ said.methods \in Nat /\ AddressBytes \in Nat
           /\ GreetingBytes = 2 + said.methods
           /\ HandshakeBytes = GreetingBytes + 4 + AddressBytes + 2
           /\ GreetingBytes \in Nat /\ HandshakeBytes \in Nat
           /\ Bytes.greeting = 2 /\ Bytes.methods = said.methods /\ Bytes.request = 4
           /\ Bytes.address = AddressBytes /\ Bytes.port = 2
<1>1. said.methods \in Nat /\ said.host \in Seq(Token)
  BY HandshakesAssumption
<1>2. AddressBytes \in Nat
  BY <1>1 DEF AddressBytes
<1> QED BY <1>1, <1>2 DEF GreetingBytes, HandshakeBytes, Bytes

LEMMA SocksInitOK == Init => SocksInv
BY Sizes, RequestsAssumption DEF Init, SocksInit, SocksInv, Position, Answered, Fields

LEMMA SameSizes ==
    ASSUME UNCHANGED said
    PROVE  /\ GreetingBytes' = GreetingBytes /\ HandshakeBytes' = HandshakeBytes
           /\ Position' = Position
BY DEF GreetingBytes, HandshakeBytes, Bytes, AddressBytes, Position

LEMMA Positions ==
    ASSUME said \in Handshakes
    PROVE  /\ Position["greeting"] = 0 /\ Position["done"] = HandshakeBytes
           /\ \A f \in Fields \ {"done"} : /\ Bytes[f] \in Nat /\ FieldAfter[f] \in Fields
                                           /\ FieldAfter[f] # "greeting"
                                           /\ Position[f] + Bytes[f] = Position[FieldAfter[f]]
BY Sizes DEF Position, Fields, FieldAfter

\* The steps of the handshake, each of them with what else its action says.
LEMMA SendsOK == ASSUME SocksInv, SocksClientSends, UNCHANGED pc PROVE SocksInv'
<1>1. PICK n \in (arrived + 1)..MaySend : arrived' = n
  BY DEF SocksClientSends
<1>2. UNCHANGED <<said, buffered, taken, field, replies, dropped>>
  BY DEF SocksClientSends
<1>3. /\ arrived \in Nat /\ n \in Nat /\ n > arrived
      /\ n <= HandshakeBytes + Payload
      /\ said.patient => n <= HandshakeBytes
      /\ said.patient /\ replies = <<>> => n <= GreetingBytes
  BY Sizes, RequestsAssumption DEF SocksInv, MaySend
<1> QED BY <1>1, <1>2, <1>3, SameSizes DEF SocksInv, Answered

LEMMA FirstReadOK == ASSUME SocksInv, SocksFirstRead, pc # "closed" PROVE SocksInv'
<1>1. UNCHANGED <<said, arrived, taken, field, replies, dropped>> /\ buffered' = arrived
  BY DEF SocksFirstRead
<1> QED BY <1>1, SameSizes DEF SocksInv, Answered

LEMMA ReadsOK == ASSUME SocksInv, SocksReads, pc # "closed" PROVE SocksInv'
<1>1. /\ UNCHANGED <<said, arrived, buffered>>
      /\ field \in Fields \ {"done"} /\ field' = FieldAfter[field]
      /\ arrived >= taken + Bytes[field] /\ taken' = taken + Bytes[field]
      /\ replies' = replies \o Reply /\ ~Refused
      /\ dropped' = IF field = "port" THEN Leftover ELSE dropped
  BY DEF SocksReads, ReadExact, SocksInv
<1>2. /\ taken' = Position[field'] /\ field' \in Fields /\ field' # "greeting"
      /\ taken' \in 0..arrived
  BY <1>1, Positions DEF SocksInv
<1>3. replies' = Answered' /\ Answered' \in {<<>>, <<"method">>}
  BY <1>1 DEF SocksInv, Answered, Reply, FieldAfter, Fields
<1>4. /\ dropped' \in 0..Payload
      /\ said.patient => dropped' = 0
  <2>1. CASE field = "port"
    <3>1. field' = "done"
      BY <1>1, <2>1 DEF FieldAfter
    <3>2. taken' = HandshakeBytes
      BY <1>2, <3>1, Positions DEF SocksInv
    <3>3. /\ buffered \in Nat /\ buffered <= HandshakeBytes + Payload
          /\ said.patient => buffered <= HandshakeBytes
          /\ HandshakeBytes \in Nat /\ Payload \in Nat
      BY Sizes, RequestsAssumption DEF SocksInv
    <3>4. dropped' = IF buffered > HandshakeBytes THEN buffered - HandshakeBytes ELSE 0
      BY <1>1, <2>1, <3>2 DEF Leftover
    <3> QED BY <3>3, <3>4
  <2>2. CASE field # "port"
    BY <1>1, <2>2 DEF SocksInv
  <2> QED BY <2>1, <2>2
<1>5. replies' = <<>> => replies = <<>>
  BY <1>1 DEF SocksInv, Reply
<1> QED BY <1>1, <1>2, <1>3, <1>4, <1>5, SameSizes DEF SocksInv

LEMMA Joined == ASSUME NEW first, NEW second PROVE <<first>> \o <<second>> = <<first, second>>
<1> DEFINE both == <<first>> \o <<second>>
<1>1. both \in Seq({first, second}) /\ Len(both) = 2
  OBVIOUS
<1>2. both[1] = first /\ both[2] = second
  OBVIOUS
<1> HIDE DEF both
<1>3. both = <<both[1], both[2]>>
  BY <1>1, TwoLong
<1> QED BY <1>2, <1>3 DEF both

LEMMA RejectsOK == ASSUME SocksInv, SocksRejects, pc # "closed", pc' = "closed" PROVE SocksInv'
<1>1. /\ UNCHANGED <<said, arrived, buffered, field, dropped>>
      /\ field \in Fields \ {"done"}
  BY DEF SocksRejects, SocksInv
<1>2. taken' \in 0..arrived
  BY <1>1, Positions DEF SocksRejects, Rejects, ReadExact, SocksInv
<1>3. /\ replies' \in {<<>>, <<"method">>, <<"method", "unsupported">>}
      /\ replies' = <<>> => replies = <<>>
  <2>1. Refused => field \in {"greeting", "request"}
    BY DEF Refused
  <2>2. replies' # replies => Refused /\ replies' = replies \o Reply
    BY Zenon DEF SocksRejects, Rejects
  <2>3. replies = Answered
    BY DEF SocksInv
  <2>4. CASE replies' = replies
    BY <2>4 DEF SocksInv
  <2>5. CASE replies' # replies
    <3>1. field \in {"greeting", "request"} /\ replies' = replies \o Reply
      BY <2>1, <2>2, <2>5, Zenon
    <3>2. Reply \in {<<>>, <<"unsupported">>} /\ (field = "greeting" => Reply = <<>>)
      BY <3>1 DEF Reply
    <3>3. /\ field = "greeting" => replies = <<>>
          /\ field = "request" => replies = <<"method">>
      BY <2>3 DEF Answered
    <3>4. <<"method">> \o <<"unsupported">> = <<"method", "unsupported">>
      BY Joined
    <3>5. <<"method">> \o <<>> = <<"method">>
      OBVIOUS
    <3>6. <<>> \o <<>> = <<>>
      OBVIOUS
    <3>7. CASE field = "greeting"
      BY <3>1, <3>2, <3>3, <3>6, <3>7
    <3>8. CASE field = "request"
      <4> DEFINE last == Reply
      <4>1. replies' = <<"method">> \o last /\ last \in {<<>>, <<"unsupported">>}
        BY <3>1, <3>2, <3>3, <3>8
      <4> HIDE DEF last
      <4>2. replies' \in {<<"method">>, <<"method", "unsupported">>}
        BY <3>4, <3>5, <4>1
      <4> QED BY <4>2
    <3> QED BY <3>1, <3>7, <3>8
  <2> QED BY <2>4, <2>5
<1> QED BY <1>1, <1>2, <1>3, SameSizes DEF SocksInv

-----------------------------------------------------------------------------
(* Where agent and server stand.                                           *)
SocksRequest == [kind |-> "connect", text |-> SocksTarget]
Asked == Requests \cup {SocksRequest}

\* The server works on a request of a client that waits for it, or has given up.
Serving == {"asked", "dialled", "waiting", "replying"}

AgentInv ==
    /\ config \in Configs /\ gone \in BOOLEAN /\ late \in BOOLEAN
    /\ requests \in Seq(Asked) /\ Len(requests) <= MaxRequests + 1
    /\ sent \in 0..(2 * Len(requests)) /\ seen \in 0..sent
    /\ chunk \in [from : Nat, to : Nat]
    /\ chunk.from \in 1..(seen + 1) /\ chunk.to \in 0..seen
    /\ pc \in PCs /\ spc \in ServerPCs /\ link \in {"none", "open", "stale"}
    /\ target.state \in {"none", "open", "ended"}
    /\ target = [state |-> target.state, address |-> target.address]
    /\ pc = "closed" => link = "none"
    /\ spc \in Serving => (pc = "waiting" /\ link = "open") \/ pc = "closed"

LEMMA AgentInitOK == Init => AgentInv
<1> SUFFICES ASSUME Init PROVE AgentInv
  OBVIOUS
<1>1. <<>> \in Seq(Asked) /\ Len(<<>>) = 0
  OBVIOUS
<1>2. target.state = "none" /\ target = [state |-> target.state, address |-> target.address]
  BY DEF Init, NoTarget
<1>3. /\ requests \in Seq(Asked) /\ Len(requests) = 0 /\ sent = 0 /\ seen = 0
      /\ 0 \in 0..(2 * 0) /\ 0 <= MaxRequests + 1
  BY <1>1, RequestsAssumption DEF Init
<1>4. chunk \in [from : Nat, to : Nat] /\ chunk.from = 1 /\ chunk.to = 0
  BY DEF Init
<1>5. /\ config \in Configs /\ gone = FALSE /\ late = FALSE
      /\ pc = "idle" /\ spc = "none" /\ link = "none"
  BY DEF Init
<1>6. /\ sent \in 0..(2 * Len(requests)) /\ seen \in 0..sent
      /\ chunk.from \in 1..(seen + 1) /\ chunk.to \in 0..seen
  BY <1>3, <1>4
<1>7. /\ pc \in PCs /\ spc \in ServerPCs /\ spc \notin Serving
  BY <1>5 DEF PCs, ServerPCs, Serving
<1> QED BY <1>2, <1>3, <1>4, <1>5, <1>6, <1>7 DEF AgentInv

LEMMA ClientOK == ASSUME AgentInv, Client PROVE AgentInv'
<1>1. UNCHANGED <<config, seen, pc, chunk, link, target, spc, late, said>>
  BY DEF Client, Asks, SendsRest, SendsBytes, Leaves, SocksClientSends, agent_vars, host_vars,
         socks_vars
<1>2. Asked' = Asked
  BY <1>1 DEF Asked, SocksRequest, SocksTarget
<1>3. ASSUME NEW request \in Requests, Asks(request) PROVE AgentInv'
  <2>1. /\ requests' = Append(requests, request) /\ sent' = sent + 1 /\ gone' = gone
        /\ Len(requests) < MaxRequests /\ sent = 2 * Len(requests)
    BY <1>3 DEF Asks
  <2>2. requests' \in Seq(Asked) /\ Len(requests') = Len(requests) + 1
    BY <2>1 DEF AgentInv, Asked
  <2> QED BY <1>1, <1>2, <2>1, <2>2, RequestsAssumption DEF AgentInv
<1>4. CASE SendsRest
  BY <1>1, <1>2, <1>4 DEF SendsRest, AgentInv
<1>5. CASE SendsBytes
  BY <1>1, <1>2, <1>5 DEF SendsBytes, client_vars, AgentInv
<1>6. CASE Leaves
  BY <1>1, <1>2, <1>6 DEF Leaves, AgentInv
<1> QED BY <1>3, <1>4, <1>5, <1>6 DEF Client

LEMMA AgentReadsOK == ASSUME AgentInv, AgentReads PROVE AgentInv'
<1>1. UNCHANGED <<config, spc, target, late, said>>
  BY DEF AgentReads, FirstRead, ReadsRest, ReadsEnd, FirstBytes, HandshakeReads,
         HandshakeRejects, HandshakeCut, IdleEnds, SocksFirstRead, SocksReads, SocksRejects,
         host_vars, socks_vars
<1>2. Asked' = Asked
  BY <1>1 DEF Asked, SocksRequest, SocksTarget
<1>3. CASE FirstRead
  BY <1>1, <1>2, <1>3 DEF FirstRead, Holds, Goto, client_vars, AgentInv, PCs, Serving
<1>4. CASE ReadsRest
  BY <1>1, <1>2, <1>4 DEF ReadsRest, Holds, Goto, client_vars, AgentInv, PCs, Serving
<1>5. CASE ReadsEnd
  BY <1>1, <1>2, <1>5 DEF ReadsEnd, Close, Goto, client_vars, AgentInv, PCs, Serving
<1>6. CASE FirstBytes
  BY <1>1, <1>2, <1>6 DEF FirstBytes, Goto, client_vars, AgentInv, PCs, Serving
<1>7. CASE HandshakeReads
  <2>1. CASE field' = "done"
    <3>1. /\ requests' = <<SocksRequest>> /\ sent' = 2 /\ seen' = 2
          /\ chunk' = [from |-> 1, to |-> 2] /\ pc' = "handling"
          /\ UNCHANGED <<gone, link>> /\ pc = "handshake"
      BY <1>7, <2>1 DEF HandshakeReads, Goto, SocksRequest
    <3>2. requests' \in Seq(Asked) /\ Len(requests') = 1
      BY <3>1 DEF Asked
    <3> QED BY <1>1, <1>2, <3>1, <3>2, RequestsAssumption DEF AgentInv, PCs, Serving
  <2>2. CASE field' # "done"
    BY <1>1, <1>2, <1>7, <2>2 DEF HandshakeReads, AgentInv
  <2> QED BY <2>1, <2>2
<1>8. CASE HandshakeRejects
  BY <1>1, <1>2, <1>8 DEF HandshakeRejects, Close, Goto, client_vars, AgentInv, PCs, Serving
<1>9. CASE HandshakeCut
  BY <1>1, <1>2, <1>9 DEF HandshakeCut, Close, Goto, client_vars, AgentInv, PCs, Serving
<1>10. CASE IdleEnds
  BY <1>1, <1>2, <1>10 DEF IdleEnds, Close, Goto, client_vars, AgentInv, PCs, Serving
<1> QED BY <1>3, <1>4, <1>5, <1>6, <1>7, <1>8, <1>9, <1>10 DEF AgentReads

LEMMA AgentAsksOK == ASSUME AgentInv, AgentAsks PROVE AgentInv'
<1>1. UNCHANGED <<config, requests, sent, gone, seen, chunk, late, said>>
  BY DEF AgentAsks, client_vars, socks_vars
<1>2. Asked' = Asked
  BY <1>1 DEF Asked, SocksRequest, SocksTarget
<1>3. CASE Unparsable
  BY <1>1, <1>2, <1>3 DEF Unparsable, Close, Goto, host_vars, AgentInv, PCs, Serving
<1>4. CASE DialServer
  BY <1>1, <1>2, <1>4 DEF DialServer, Drop, NoTarget, Close, Goto, host_vars, AgentInv, PCs,
                          ServerPCs, Serving
<1>5. CASE Ask
  BY <1>1, <1>2, <1>5 DEF Ask, Close, Goto, host_vars, AgentInv, PCs, ServerPCs, Serving
<1>6. CASE RequestFails
  BY <1>1, <1>2, <1>6 DEF RequestFails, Close, Goto, host_vars, AgentInv, PCs, Serving
<1> QED BY <1>3, <1>4, <1>5, <1>6 DEF AgentAsks

LEMMA AgentWritesOK == ASSUME AgentInv, AgentWrites PROVE AgentInv'
<1>1. /\ UNCHANGED <<config, requests, sent, gone, seen, chunk, late, said, spc, target>>
      /\ pc = "writing"
  BY DEF AgentWrites, WriteDone, WriteFails, client_vars, socks_vars, host_vars
<1>2. Asked' = Asked
  BY <1>1 DEF Asked, SocksRequest, SocksTarget
<1>3. \/ pc' \in {"tunnel", "idle"} /\ link' = link
      \/ pc' = "closed" /\ link' = "none"
  BY DEF AgentWrites, WriteDone, WriteFails, Close, Goto
<1> QED BY <1>1, <1>2, <1>3 DEF AgentInv, PCs, Serving

LEMMA ServerOK == ASSUME AgentInv, Server PROVE AgentInv'
<1>1. UNCHANGED <<config, requests, sent, gone, seen, pc, chunk, link, late, said>>
  BY DEF Server, client_vars, socks_vars, agent_vars
<1>2. Asked' = Asked
  BY <1>1 DEF Asked, SocksRequest, SocksTarget
<1>3. spc \in Serving /\ spc' \in Serving
  BY DEF Server, DialHost, DialFails, DialedBefore, PassOn, ReadAnswer, AnswerMissing, Replies,
         Serving
<1>4. /\ target'.state \in {"none", "open", "ended"}
      /\ target' = [state |-> target'.state, address |-> target'.address]
  <2>1. target' = target \/ target' = NoTarget
            \/ target' = [state |-> "open", address |-> AddressOf(Current)]
    BY DEF Server, DialHost, DialFails, DialedBefore, PassOn, ReadAnswer, AnswerMissing, Drop,
           host_vars
  <2> QED BY <2>1 DEF AgentInv, NoTarget
<1> QED BY <1>1, <1>2, <1>3, <1>4 DEF AgentInv, ServerPCs, Serving

LEMMA ExchangeOK == ASSUME AgentInv, Exchange PROVE AgentInv'
<1>1. UNCHANGED <<config, requests, sent, gone, seen, chunk, late, said>>
  BY DEF Exchange, Respond, ServerEnds, client_vars, socks_vars
<1>2. Asked' = Asked
  BY <1>1 DEF Asked, SocksRequest, SocksTarget
<1>3. /\ target'.state \in {"none", "open", "ended"}
      /\ target' = [state |-> target'.state, address |-> target'.address]
  <2>1. target' = target \/ target' = NoTarget
    BY DEF Exchange, Respond, ServerEnds, Drop
  <2> QED BY <2>1 DEF AgentInv, NoTarget
<1>4. CASE Respond
  <2>1. spc = "replying" /\ spc' \in {"closed", "idle", "tunnel"}
    BY <1>4 DEF Respond
  <2>2. CASE link # "open"
    BY <1>1, <1>2, <1>3, <1>4, <2>1, <2>2 DEF Respond, AgentInv, ServerPCs, Serving
  <2>3. CASE link = "open"
    <3>1. \/ pc' = "closed" /\ link' = "none"
          \/ pc' = "writing" /\ link' \in {"stale", link}
      BY <1>4, <2>3 DEF Respond, AgentTakes, Close, Goto
    <3> QED BY <1>1, <1>2, <1>3, <2>1, <2>3, <3>1 DEF AgentInv, ServerPCs, PCs, Serving
  <2> QED BY <2>2, <2>3
<1>5. CASE ServerEnds
  BY <1>1, <1>2, <1>3, <1>5 DEF ServerEnds, AgentInv, ServerPCs, Serving
<1> QED BY <1>4, <1>5 DEF Exchange

LEMMA HostOK == ASSUME AgentInv, Host PROVE AgentInv'
<1>1. UNCHANGED <<config, requests, sent, gone, seen, pc, chunk, link, spc, late, said>>
  BY DEF Host, client_vars, socks_vars, agent_vars
<1>2. Asked' = Asked
  BY <1>1 DEF Asked, SocksRequest, SocksTarget
<1>3. /\ target'.state \in {"none", "open", "ended"}
      /\ target' = [state |-> target'.state, address |-> target'.address]
  BY DEF Host, HostAnswers, HostEnds, AgentInv
<1> QED BY <1>1, <1>2, <1>3 DEF AgentInv

LEMMA LateTimerOK == ASSUME AgentInv, LateTimer PROVE AgentInv'
<1>1. UNCHANGED <<config, requests, sent, gone, seen, pc, chunk, spc, said>> /\ late' = TRUE
  BY DEF LateTimer, client_vars, socks_vars
<1>2. Asked' = Asked
  BY <1>1 DEF Asked, SocksRequest, SocksTarget
<1> QED BY <1>1, <1>2 DEF LateTimer, Drop, NoTarget, host_vars, AgentInv, Serving

\* A step that is none of the handshake keeps its invariant.
LEMMA SocksStill ==
    ASSUME SocksInv, UNCHANGED socks_vars, pc = "closed" => pc' = "closed" PROVE SocksInv'
<1>1. UNCHANGED <<said, arrived, buffered, taken, field, replies, dropped>>
  BY DEF socks_vars
<1> QED BY <1>1, SameSizes DEF SocksInv, Answered

LEMMA SocksNextOK == ASSUME SocksInv, AgentInv, Next PROVE SocksInv'
<1>1. CASE Client
  <2>1. CASE SendsBytes
    BY <1>1, <2>1, SendsOK DEF SendsBytes, Client, agent_vars
  <2>2. CASE UNCHANGED socks_vars
    BY <1>1, <2>2, SocksStill DEF Client, agent_vars
  <2> QED BY <1>1, <2>1, <2>2 DEF Client, Asks, SendsRest, Leaves
<1>2. CASE AgentReads
  <2>1. CASE FirstBytes
    BY <2>1, FirstReadOK DEF FirstBytes
  <2>2. CASE HandshakeReads
    BY <2>2, ReadsOK DEF HandshakeReads
  <2>3. CASE HandshakeRejects
    BY <2>3, RejectsOK DEF HandshakeRejects, Close, Goto
  <2>4. CASE FirstRead \/ ReadsRest \/ ReadsEnd \/ HandshakeCut \/ IdleEnds
    <3>1. UNCHANGED socks_vars /\ pc # "closed"
      BY <2>4 DEF FirstRead, ReadsRest, ReadsEnd, HandshakeCut, IdleEnds
    <3> QED BY <3>1, SocksStill
  <2> QED BY <1>2, <2>1, <2>2, <2>3, <2>4 DEF AgentReads
<1>3. CASE AgentAsks \/ AgentWrites
  <2>1. UNCHANGED socks_vars /\ pc # "closed"
    BY <1>3 DEF AgentAsks, AgentWrites, Unparsable, DialServer, Ask, RequestFails, WriteDone,
                WriteFails
  <2> QED BY <2>1, SocksStill
<1>4. CASE Server \/ Exchange \/ Host \/ LateTimer
  <2>1. UNCHANGED socks_vars
    BY <1>4 DEF Server, Exchange, Host, LateTimer
  <2>2. UNCHANGED pc \/ (spc = "replying" /\ link = "open")
    BY <1>4 DEF Server, Exchange, Host, LateTimer, Respond, ServerEnds, agent_vars
  <2>3. pc = "closed" => pc' = "closed"
    BY <2>2 DEF AgentInv
  <2> QED BY <2>1, <2>3, SocksStill
<1> QED BY <1>1, <1>2, <1>3, <1>4 DEF Next

-----------------------------------------------------------------------------
ControlInv == SocksInv /\ AgentInv

LEMMA ControlNextOK == ControlInv /\ [Next]_vars => ControlInv'
<1>1. ASSUME ControlInv, Next PROVE AgentInv'
  BY <1>1, ClientOK, AgentReadsOK, AgentAsksOK, AgentWritesOK, ServerOK, ExchangeOK, HostOK,
     LateTimerOK DEF Next, ControlInv
<1>2. ASSUME ControlInv, UNCHANGED vars PROVE ControlInv'
  <2>1. UNCHANGED <<socks_vars, pc>>
    BY <1>2 DEF vars, agent_vars
  <2>2. SocksInv'
    BY <1>2, <2>1, SocksStill DEF ControlInv
  <2>3. AgentInv'
    BY <1>2 DEF ControlInv, AgentInv, vars, socks_vars, client_vars, agent_vars, host_vars,
                Asked, SocksRequest, SocksTarget
  <2> QED BY <2>2, <2>3 DEF ControlInv
<1> QED BY <1>1, <1>2, SocksNextOK DEF ControlInv

\* What the agent, the server and the handshake say about each other at every
\* step: requests, parts read and chunks under way fit (handleReadAgent,
\* AgentHandler::handle, handleSocks5Handshake).
THEOREM ControlInvariant == Spec => []ControlInv
<1>1. Init => ControlInv
  BY SocksInitOK, AgentInitOK DEF ControlInv
<1> QED BY <1>1, ControlNextOK, PTL DEF Spec

\* Every variable has its type: the agent reads no part of a request that the
\* client has not sent, and no byte of a handshake that has not arrived.
THEOREM TypeCorrect == Spec => []TypeOK
<1>1. ControlInv => TypeOK
  <2> SUFFICES ASSUME ControlInv PROVE TypeOK
    OBVIOUS
  <2>1. SocksTypeOK
    BY Sizes, RequestsAssumption DEF ControlInv, SocksInv, SocksTypeOK
  <2>2. \A i \in DOMAIN requests : requests[i].kind \in Kinds
    BY RequestsAssumption DEF ControlInv, AgentInv, Asked, SocksRequest, Kinds
  <2> QED BY <2>1, <2>2 DEF ControlInv, AgentInv, TypeOK
<1> QED BY <1>1, ControlInvariant, PTL

\* handleSocks5Handshake takes exactly its fields' bytes, from readBuffer_ and
\* the socket together, and what it drops a patient client has not sent.
THEOREM HandshakeAlwaysExact == Spec => []HandshakeExact
<1>1. ControlInv => HandshakeExact
  BY Positions DEF ControlInv, SocksInv, HandshakeExact, Answered
<1> QED BY <1>1, ControlInvariant, PTL

-----------------------------------------------------------------------------
(* With socks5 the one request is the CONNECT of the handshake, and whatever *)
(* the server has dialled, it has dialled for it.                          *)
SocksAddress == AddressOf(SocksRequest)
Granting == [request : {1}, address : {SocksAddress}]

TargetInv ==
    /\ config.protocol = "http" => arrived = 0 /\ pc # "handshake"
    /\ config.protocol = "socks5" =>
        /\ chunk.from = 1 /\ toHosts = <<>>
        /\ pc # "reading" /\ spc \notin {"dialled", "waiting"}
        /\ pc \in {"handling", "asking", "waiting", "writing"} \/ spc \in Serving =>
               requests = <<SocksRequest>>
        /\ target.state # "none" => target.address = SocksAddress
        /\ served \in Seq(Granting)

LEMMA TargetInitOK == Init => TargetInv
<1> SUFFICES ASSUME Init PROVE TargetInv
  OBVIOUS
<1>1. <<>> \in Seq(Granting)
  OBVIOUS
<1> QED BY <1>1 DEF Init, SocksInit, TargetInv, NoTarget, Serving

\* What does not change as long as the client says nothing else.
LEMMA SameRequest ==
    ASSUME UNCHANGED said
    PROVE  /\ SocksRequest' = SocksRequest /\ SocksAddress' = SocksAddress
           /\ Granting' = Granting
BY DEF SocksRequest, SocksTarget, SocksAddress, Granting

LEMMA SocksCurrent ==
    ASSUME requests = <<SocksRequest>>, chunk.from = 1
    PROVE  Current = SocksRequest /\ IsConnect /\ RequestOf(chunk.from) = 1
<1>1. RequestOf(1) = 1
  BY DEF RequestOf
<1> QED BY <1>1 DEF Current, IsConnect, SocksRequest

LEMMA TargetNextOK == ASSUME ControlInv, TargetInv, Next PROVE TargetInv'
<1>1. UNCHANGED <<config, said>>
  BY DEF Next, Client, Asks, SendsRest, SendsBytes, Leaves, SocksClientSends, AgentReads,
         FirstRead, ReadsRest, ReadsEnd, FirstBytes, HandshakeReads, HandshakeRejects,
         HandshakeCut, IdleEnds, SocksFirstRead, SocksReads, SocksRejects, AgentAsks,
         AgentWrites, Server, Exchange, Host, LateTimer, socks_vars
<1>2. SocksRequest' = SocksRequest /\ SocksAddress' = SocksAddress /\ Granting' = Granting
  BY <1>1, SameRequest
<1>3. config.protocol \in {"http", "socks5"}
  BY DEF ControlInv, AgentInv, Configs
<1>4. CASE Client
  <2>1. UNCHANGED <<chunk, toHosts, pc, spc, target, served>>
    BY <1>4 DEF Client, agent_vars, host_vars
  <2>2. config.protocol = "socks5" => requests' = requests
    BY <1>4 DEF Client, Asks, SendsRest, SendsBytes, Leaves, client_vars
  <2>3. config.protocol = "http" => arrived' = arrived
    BY <1>4 DEF Client, Asks, SendsRest, SendsBytes, Leaves, socks_vars
  <2> QED BY <1>1, <1>2, <1>3, <2>1, <2>2, <2>3 DEF TargetInv
<1>5. CASE AgentReads
  <2>1. UNCHANGED <<arrived, toHosts, spc, target, served>>
    BY <1>5 DEF AgentReads, FirstRead, ReadsRest, ReadsEnd, FirstBytes, HandshakeReads,
                HandshakeRejects, HandshakeCut, IdleEnds, SocksFirstRead, SocksReads,
                SocksRejects, host_vars, socks_vars
  <2>2. CASE config.protocol = "http"
    <3>1. pc' # "handshake"
      BY <1>5, <2>2 DEF AgentReads, FirstRead, ReadsRest, ReadsEnd, FirstBytes, HandshakeReads,
                HandshakeRejects, HandshakeCut, IdleEnds, SocksFirstRead, Close, Holds, Goto,
                TargetInv
    <3> QED BY <1>1, <2>1, <2>2, <3>1 DEF TargetInv
  <2>3. CASE config.protocol = "socks5"
    <3>1. CASE HandshakeReads
      <4>1. CASE field' = "done"
        BY <1>1, <1>2, <2>1, <2>3, <3>1, <4>1
        DEF HandshakeReads, Goto, SocksRequest, TargetInv
      <4>2. CASE field' # "done"
        BY <1>1, <1>2, <2>1, <2>3, <3>1, <4>2 DEF HandshakeReads, TargetInv
      <4> QED BY <4>1, <4>2
    <3>2. CASE FirstBytes \/ HandshakeRejects \/ HandshakeCut \/ IdleEnds
      <4>1. UNCHANGED <<requests, chunk>> /\ pc' \in {"handshake", "closed"}
        BY <3>2 DEF FirstBytes, HandshakeRejects, HandshakeCut, IdleEnds, Close, Goto,
                    client_vars
      <4> QED BY <1>1, <1>2, <2>1, <2>3, <4>1 DEF TargetInv
    <3> QED BY <1>5, <2>3, <3>1, <3>2
            DEF AgentReads, FirstRead, ReadsRest, ReadsEnd, TargetInv
  <2> QED BY <1>3, <2>2, <2>3
<1>6. CASE AgentAsks
  <2>1. UNCHANGED <<arrived, requests, chunk, toHosts, served>>
    BY <1>6 DEF AgentAsks, Unparsable, DialServer, Ask, RequestFails, KeepHistory, host_vars,
                client_vars, socks_vars
  <2>2. /\ pc \in {"handling", "asking", "waiting"} /\ pc' \in {"asking", "waiting", "closed"}
        /\ spc' \in {spc, "idle", "asked"}
        /\ target' = target \/ target' = NoTarget
    BY <1>6 DEF AgentAsks, Unparsable, DialServer, Ask, RequestFails, Drop, Close, Goto,
                host_vars
  <2> QED BY <1>1, <1>2, <1>3, <2>1, <2>2 DEF TargetInv, NoTarget, Serving
<1>7. CASE AgentWrites
  <2>1. UNCHANGED <<arrived, requests, chunk, toHosts, spc, target, served>>
    BY <1>7 DEF AgentWrites, host_vars, client_vars, socks_vars
  <2>2. /\ pc = "writing" /\ pc' \in {"tunnel", "idle", "closed"}
        /\ IsConnect => pc' # "idle"
    BY <1>7 DEF AgentWrites, WriteDone, WriteFails, Close, Goto
  <2> QED BY <1>1, <1>2, <1>3, <2>1, <2>2 DEF TargetInv
<1>8. CASE Server
  <2>1. UNCHANGED <<arrived, requests, chunk, pc>> /\ spc \in Serving
    BY <1>8 DEF Server, DialHost, DialFails, DialedBefore, PassOn, ReadAnswer, AnswerMissing,
                client_vars, agent_vars, socks_vars, Serving
  <2>2. CASE config.protocol = "http"
    BY <1>1, <2>1, <2>2 DEF TargetInv
  <2>3. CASE config.protocol = "socks5"
    <3>1. /\ requests = <<SocksRequest>> /\ chunk.from = 1
          /\ spc \in {"asked", "replying"}
      BY <2>1, <2>3 DEF TargetInv, Serving
    <3>2. IsConnect /\ AddressOf(Current) = SocksAddress /\ RequestOf(chunk.from) = 1
      BY <3>1, SocksCurrent DEF SocksAddress
    <3>3. /\ spc' = "replying" /\ toHosts' = toHosts
          /\ target' = target \/ target'.address = SocksAddress
      BY <1>8, <3>1, <3>2 DEF Server, DialHost, DialFails, DialedBefore, PassOn, ReadAnswer,
                              AnswerMissing, Replies, host_vars
    <3>4. \/ served' = served
          \/ served' = Append(served, [request |-> 1, address |-> SocksAddress])
      <4>1. CASE DialHost
        BY <3>2, <4>1 DEF DialHost, Serves
      <4>2. CASE DialFails
        BY <4>2 DEF DialFails, host_vars
      <4>3. CASE DialedBefore
        <5>1. target.state # "none"
          BY <4>3 DEF DialedBefore, MustDial
        <5> QED BY <2>3, <3>2, <4>3, <5>1 DEF DialedBefore, Serves, TargetInv
      <4> QED BY <1>8, <3>1, <4>1, <4>2, <4>3 DEF Server, PassOn, ReadAnswer, AnswerMissing
    <3>5. [request |-> 1, address |-> SocksAddress] \in Granting
      BY DEF Granting
    <3>6. served' \in Seq(Granting)
      BY <2>3, <3>4, <3>5 DEF TargetInv
    <3> QED BY <1>1, <1>2, <2>1, <2>3, <3>1, <3>3, <3>6 DEF TargetInv
  <2> QED BY <1>3, <2>2, <2>3
<1>9. CASE Exchange
  <2>1. UNCHANGED <<arrived, requests, chunk, toHosts, served>>
    BY <1>9 DEF Exchange, Respond, ServerEnds, KeepHistory, client_vars, socks_vars
  <2>2. /\ spc' \in {"idle", "closed", "tunnel"}
        /\ \/ UNCHANGED pc
           \/ pc' = "closed"
           \/ spc \in Serving /\ pc' = "writing"
        /\ target' = target \/ target' = NoTarget
    BY <1>9 DEF Exchange, Respond, ServerEnds, AgentTakes, Close, Goto, Drop, Serving
  <2> QED BY <1>1, <1>2, <1>3, <2>1, <2>2 DEF TargetInv, NoTarget, Serving
<1>10. CASE Host \/ LateTimer
  <2>1. UNCHANGED <<arrived, requests, chunk, toHosts, pc, spc, served>>
    BY <1>10 DEF Host, HostAnswers, HostEnds, LateTimer, KeepHistory, client_vars, agent_vars,
                 host_vars, socks_vars
  <2>2. \/ target' = NoTarget
        \/ target'.address = target.address /\ (target'.state = "none" => target.state = "none")
           /\ (target.state = "none" => target'.state = "none")
    BY <1>10 DEF Host, HostAnswers, HostEnds, LateTimer, Drop, host_vars, ControlInv, AgentInv
  <2> QED BY <1>1, <1>2, <1>3, <2>1, <2>2 DEF TargetInv, NoTarget
<1> QED BY <1>4, <1>5, <1>6, <1>7, <1>8, <1>9, <1>10 DEF Next

LEMMA TargetStepOK == ControlInv /\ TargetInv /\ [Next]_vars => TargetInv'
<1>1. ASSUME TargetInv, UNCHANGED vars PROVE TargetInv'
  <2>1. UNCHANGED <<said, config, arrived, pc, spc, chunk, toHosts, requests, target, served>>
    BY <1>1 DEF vars, socks_vars, client_vars, agent_vars, host_vars
  <2> QED BY <1>1, <2>1, SameRequest DEF TargetInv
<1> QED BY <1>1, TargetNextOK

\* The server dials the address that the SOCKS5 client has asked for, by way of
\* the text of a CONNECT: for every host without brackets and every port.
THEOREM AlwaysRightTarget == Spec => []RightTarget
<1>1. Spec => []TargetInv
  BY TargetInitOK, TargetStepOK, ControlInvariant, PTL DEF Spec
<1>2. ControlInv /\ TargetInv => RightTarget
  <2> SUFFICES ASSUME ControlInv, TargetInv, NEW k \in DOMAIN served,
                      config.protocol = "socks5", Unbracketed(said.host)
               PROVE  IF Requestable(said.host, said.port)
                      THEN served[k].address = [host |-> said.host, port |-> said.port]
                      ELSE served[k].address.host = <<>>
    BY DEF RightTarget
  <2>1. served[k].address = SocksAddress
    <3>1. served \in Seq(Granting)
      BY DEF TargetInv
    <3>2. served[k] \in Granting
      BY <3>1
    <3> QED BY <3>2 DEF Granting
  <2>2. said.host \in Seq(Token) /\ said.port \in Ports \cup {NoPort}
    BY HandshakesAssumption DEF ControlInv, SocksInv
  <2>3. SocksAddress = Address(said.host, said.port, 443)
    BY <2>2, RoundTrip DEF SocksAddress, SocksRequest, SocksTarget, AddressOf
  <2>4. said.port \in Ports <=> said.port # NoPort
    <3>1. NoPort \notin Ports
      BY DEF Ports, NoPort
    <3> QED BY <2>2, <3>1
  <2>5. served[k].address = Address(said.host, said.port, 443)
    BY <2>1, <2>3
  <2>6. CASE Requestable(said.host, said.port)
    <3>1. said.host # <<>> /\ said.port # NoPort
      BY <2>4, <2>6 DEF Requestable
    <3>2. Address(said.host, said.port, 443) = [host |-> said.host, port |-> said.port]
      BY <3>1 DEF Address
    <3> QED BY <2>5, <2>6, <3>2
  <2>7. CASE ~Requestable(said.host, said.port)
    <3>1. said.host = <<>> \/ said.port = NoPort
      BY <2>4, <2>7 DEF Requestable
    <3>2. Address(said.host, said.port, 443) = [host |-> <<>>, port |-> 443]
      BY <3>1 DEF Address
    <3> QED BY <2>5, <2>7, <3>2
  <2> QED BY <2>6, <2>7
<1> QED BY <1>1, <1>2, ControlInvariant, PTL
===============================================================================
