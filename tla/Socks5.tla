------------------------------- MODULE Socks5 -------------------------------
(***************************************************************************)
(* TCPConnection::handleSocks5Handshake: the agent's side of the SOCKS5     *)
(* handshake, made inside the handler of the first read.  That read brings  *)
(* some of the client's bytes into readBuffer_; readExactFromClient takes   *)
(* what it needs from there first and then, blocking and without a timer,   *)
(* from the socket.  In the end readBuffer_ is replaced by a CONNECT.       *)
(*                                                                         *)
(* The client's bytes are known by their number.  A patient client waits    *)
(* for the answer to its greeting before it sends its request, and for the  *)
(* answer to that before it sends anything else; another one may not.       *)
(***************************************************************************)
EXTENDS Addresses

CONSTANTS
    Handshakes,     \* what a client may say: [patient, version, methods, cmd, type, host, port]
    Payload         \* bound: bytes an impatient client sends behind its request

ASSUME HandshakesAssumption ==
    \A handshake \in Handshakes :
        /\ handshake.methods \in Nat
        /\ handshake.host \in Seq(Token) /\ handshake.port \in Ports \cup {NoPort}

VARIABLES
    said,       \* the handshake of this client
    arrived,    \* bytes the client has sent
    buffered,   \* bytes of the first read
    taken,      \* bytes of the handshake read, in readBuffer_ or from the socket
    field,      \* the field read next, see Fields
    replies,    \* what the handshake has answered
    dropped     \* bytes that were in readBuffer_ when the CONNECT replaced them

socks_vars == <<said, arrived, buffered, taken, field, replies, dropped>>

\* 4 and 16 bytes in the code; a name has its length in front.
AddressBytes == CASE said.type = "v4" -> 2
                  [] said.type = "v6" -> 3
                  [] said.type = "name" -> 1 + Len(said.host)
                  [] OTHER -> 0
Bytes == [greeting |-> 2, methods |-> said.methods, request |-> 4,
          address |-> AddressBytes, port |-> 2]
GreetingBytes == Bytes.greeting + Bytes.methods
HandshakeBytes == GreetingBytes + Bytes.request + Bytes.address + Bytes.port
Fields == {"greeting", "methods", "request", "address", "port", "done"}
FieldAfter == [greeting |-> "methods", methods |-> "request", request |-> "address",
               address |-> "port", port |-> "done"]

Larger(m, n) == IF m > n THEN m ELSE n

\* How far a client goes before it has its answers.
MaySend ==
    IF ~said.patient THEN HandshakeBytes + Payload
    ELSE IF replies = <<>> THEN GreetingBytes ELSE HandshakeBytes

SocksClientSends ==
    /\ \E n \in (arrived + 1)..MaySend : arrived' = n
    /\ UNCHANGED <<said, buffered, taken, field, replies, dropped>>

SocksFirstRead ==
    /\ arrived > 0 /\ field = "greeting" /\ buffered = 0
    /\ buffered' = arrived
    /\ UNCHANGED <<said, arrived, taken, field, replies, dropped>>

\* Mutant of ReadExact: a field that is not in readBuffer_ as a whole is read
\* from the socket.
ReadFromSocket(count) ==
    LET start == IF taken + count <= buffered THEN taken ELSE Larger(taken, buffered)
    IN  arrived >= start + count /\ taken' = start + count

\* readExactFromClient.
ReadExact(count) == arrived >= taken + count /\ taken' = taken + count

\* Why the handshake ends once a field is read.
Refused ==
    CASE field = "greeting" -> said.version # 5
      [] field = "request" -> said.cmd # "connect"
      [] OTHER -> FALSE
UnknownType == field = "address" /\ said.type = "other"

Reply == CASE field = "methods" -> <<"method">>
           [] field = "request" /\ Refused -> <<"unsupported">>
           [] OTHER -> <<>>

Rejects ==
    \/ UnknownType /\ UNCHANGED <<taken, replies>>
    \/ /\ ReadExact(Bytes[field]) /\ Refused
       /\ replies' = replies \o Reply

SocksRejects ==
    /\ field # "done" /\ Rejects
    /\ UNCHANGED <<said, arrived, buffered, field, dropped>>

\* What was in readBuffer_ behind the handshake.
Leftover == IF buffered > taken' THEN buffered - taken' ELSE 0

SocksReads ==
    /\ field # "done" /\ ~UnknownType /\ ~Refused
    /\ ReadExact(Bytes[field])
    /\ replies' = replies \o Reply
    /\ field' = FieldAfter[field]
    /\ dropped' = IF field = "port" THEN Leftover ELSE dropped
    /\ UNCHANGED <<said, arrived, buffered>>

\* The target of the CONNECT.
SocksTarget == MakeTarget(said.host, said.port)

SocksInit ==
    /\ said \in Handshakes
    /\ arrived = 0 /\ buffered = 0 /\ taken = 0
    /\ field = "greeting" /\ replies = <<>> /\ dropped = 0

SocksTypeOK ==
    /\ said \in Handshakes
    /\ arrived \in 0..(HandshakeBytes + Payload)
    /\ buffered \in 0..arrived /\ taken \in 0..arrived
    /\ field \in Fields
    /\ replies \in {<<>>, <<"method">>, <<"method", "unsupported">>}
    /\ dropped \in 0..Payload
=============================================================================
