------------------------------ MODULE Addresses ------------------------------
(***************************************************************************)
(* The text of an address, HOST:PORT, as the agent writes it behind CONNECT *)
(* (handleSocks5Handshake) and as the server takes it apart                *)
(* (HTTP::setIPPort, HTTP::parseHostPort).                                 *)
(*                                                                         *)
(* A text is a sequence of tokens: the three characters parseHostPort       *)
(* looks for, and the runs of other characters between them, which         *)
(* std::stoi reads as a number if they begin with digits.  The group 1a of *)
(* an IPv6 address is <<"number", 1>>, a whole IPv4 address 10.0.0.1 is    *)
(* <<"number", 10>>, which std::stoi takes for 10.                         *)
(***************************************************************************)
EXTENDS Integers, Sequences

Colon == <<"symbol", ":">>
OpenBracket == <<"symbol", "[">>
CloseBracket == <<"symbol", "]">>
Word(name) == <<"word", name>>
Number(n) == <<"number", n>>

Token == {Colon, OpenBracket, CloseBracket}
             \cup ({"word"} \X STRING) \cup ({"number"} \X Nat)

Ports == 1..65535
NoPort == 0

Occurs(token, text) == \E i \in DOMAIN text : text[i] = token
First(token, text) ==
    CHOOSE i \in DOMAIN text : text[i] = token /\ \A j \in 1..(i - 1) : text[j] # token
Last(token, text) ==
    CHOOSE i \in DOMAIN text :
        text[i] = token /\ \A j \in (i + 1)..Len(text) : text[j] # token
Before(i, text) == SubSeq(text, 1, i - 1)
After(i, text) == SubSeq(text, i + 1, Len(text))

\* parsePort: what std::stoi makes of the beginning of the text.
ParsePort(text) ==
    IF text # <<>> /\ text[1][1] = "number" /\ text[1][2] \in Ports
    THEN text[1][2]
    ELSE NoPort

\* setIPPort clears a host that parseHostPort refuses, and has the default port.
Address(host, port, default) ==
    IF host = <<>> \/ port = NoPort THEN [host |-> <<>>, port |-> default]
                                    ELSE [host |-> host, port |-> port]

Bracketed(text, default) ==
    LET close == First(CloseBracket, text)
        rest == After(close, text)
        port == IF rest = <<>> THEN default
                ELSE IF rest[1] = Colon THEN ParsePort(Tail(rest)) ELSE NoPort
    IN  IF Occurs(CloseBracket, text)
        THEN Address(SubSeq(text, 2, close - 1), port, default)
        ELSE Address(<<>>, NoPort, default)

\* More colons than one: an IPv6 address, and a port only if the last part can
\* be one.
ManyColons(text, default) ==
    LET last == Last(Colon, text)
        port == ParsePort(After(last, text))
    IN  IF port # NoPort THEN Address(Before(last, text), port, default)
                         ELSE Address(text, default, default)

ParseHostPort(text, default) ==
    CASE text = <<>> -> Address(<<>>, NoPort, default)
      [] text # <<>> /\ text[1] = OpenBracket -> Bracketed(text, default)
      [] text # <<>> /\ text[1] # OpenBracket ->
            IF ~Occurs(Colon, text) THEN Address(text, default, default)
            ELSE IF First(Colon, text) # Last(Colon, text) THEN ManyColons(text, default)
            ELSE Address(Before(First(Colon, text), text),
                         ParsePort(After(First(Colon, text), text)), default)

\* Mutant of MakeTarget: no host is put in brackets.
NoBrackets(host, port) == host \o <<Colon, Number(port)>>

\* The target of the CONNECT that stands for a SOCKS5 request.
MakeTarget(host, port) ==
    IF Occurs(Colon, host)
    THEN <<OpenBracket>> \o host \o <<CloseBracket, Colon, Number(port)>>
    ELSE host \o <<Colon, Number(port)>>

Unbracketed(host) == ~Occurs(OpenBracket, host) /\ ~Occurs(CloseBracket, host)

\* What a SOCKS5 client may ask for and get: no host has brackets of its own.
Requestable(host, port) == host # <<>> /\ port \in Ports /\ Unbracketed(host)
==============================================================================
