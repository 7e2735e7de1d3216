--------------------------- MODULE MCClientRequests ---------------------------
(* ClientRequests for TLC: addresses of every form, and a few clients.       *)
EXTENDS ClientRequests

a == <<Word("a")>>
v4 == <<Number(10)>>
v6 == <<Number(2001), Colon, Word("db8"), Colon, Colon, Number(1)>>
v6word == <<Number(2001), Colon, Colon, Word("ff")>>
bracketed == <<OpenBracket>> \o v6word \o <<CloseBracket>>

MCRequests ==
    {[kind |-> "plain", text |-> a],
     [kind |-> "chunked", text |-> v6word],
     [kind |-> "connect", text |-> bracketed \o <<Colon, Number(80)>>]}

Hosts == {[type |-> "v4", host |-> v4], [type |-> "v6", host |-> v6],
          [type |-> "v6", host |-> v6word], [type |-> "name", host |-> a],
          [type |-> "name", host |-> <<>>], [type |-> "name", host |-> v6],
          [type |-> "name", host |-> bracketed]}

Handshake(patient, h, port) ==
    [patient |-> patient, version |-> 5, methods |-> 1, cmd |-> "connect",
     type |-> h.type, host |-> h.host, port |-> port]

Usual == Handshake(TRUE, [type |-> "name", host |-> a], 443)

MCHandshakes ==
    {Handshake(patient, h, port) : patient \in BOOLEAN, h \in Hosts, port \in {0, 443, 65535}}
    \cup {[Usual EXCEPT !.version = 4], [Usual EXCEPT !.cmd = "bind"],
          [Usual EXCEPT !.type = "other"], [Usual EXCEPT !.methods = 0]}
===============================================================================
