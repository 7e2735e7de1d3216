-------------------------- MODULE DirectTunnelProofs --------------------------
(***************************************************************************)
(* A direct tunnel is a pair of FIFO pipes (PipesOK, Conserved), whatever  *)
(* fails and whenever; a granted one stands (GrantStands); and every       *)
(* variable keeps its type.  For every number of chunks and every window.  *)
(*                                                                         *)
(* The steps of DirectTunnel are sorted by what they do (Steps): the open  *)
(* and the relay loops move a chunk on, a side closes (Closes), a late     *)
(* timer closes a TCPClient, or an end sends, receives or leaves.  Flow is *)
(* what is on its way in a direction as a function of the state; a move    *)
(* leaves it alone, whatever closes leaves a prefix of it.                 *)
(***************************************************************************)
EXTENDS DirectTunnel, SequenceTheorems, TLAPS

(***************************************************************************)
(* Sequences.  Prefixes is the operator of DirectTunnel: what a reset may  *)
(* leave of what was on its way.                                           *)
(***************************************************************************)
LEMMA PrefixIs ==
    ASSUME NEW S, NEW q \in Seq(S), NEW p
    PROVE  p \in Prefixes(q) <=>
              /\ p \in Seq(S) /\ Len(p) <= Len(q)
              /\ \A i \in 1..Len(p) : p[i] = q[i]
<1>1. ASSUME p \in Prefixes(q)
      PROVE  p \in Seq(S) /\ Len(p) <= Len(q) /\ \A i \in 1..Len(p) : p[i] = q[i]
  <2>1. PICK n \in 0..Len(q) : p = SubSeq(q, 1, n)
    BY <1>1 DEF Prefixes
  <2>2. \A i \in 1..n : q[i] \in S
    BY <2>1, LenProperties, ElementOfSeq
  <2>3. /\ SubSeq(q, 1, n) \in Seq(S)
        /\ Len(SubSeq(q, 1, n)) = n
        /\ \A i \in 1..n : SubSeq(q, 1, n)[i] = q[i]
    BY <2>1, <2>2, SubSeqProperties, LenProperties
  <2> QED BY <2>1, <2>3
<1>2. ASSUME p \in Seq(S), Len(p) <= Len(q), \A i \in 1..Len(p) : p[i] = q[i]
      PROVE  p \in Prefixes(q)
  <2>1. Len(p) \in 0..Len(q)
    BY <1>2, LenProperties
  <2>2. \A i \in 1..Len(p) : q[i] \in S
    BY <1>2, LenProperties, ElementOfSeq
  <2>3. /\ SubSeq(q, 1, Len(p)) \in Seq(S)
        /\ Len(SubSeq(q, 1, Len(p))) = Len(p)
        /\ \A i \in 1..Len(p) : SubSeq(q, 1, Len(p))[i] = q[i]
    BY <2>1, <2>2, SubSeqProperties, LenProperties
  <2>4. p = SubSeq(q, 1, Len(p))
    BY <1>2, <2>3, SeqEqual
  <2> QED BY <2>1, <2>4 DEF Prefixes
<1> QED BY <1>1, <1>2

LEMMA PrefixSelf ==
    ASSUME NEW S, NEW q \in Seq(S)
    PROVE  q \in Prefixes(q) /\ <<>> \in Prefixes(q)
<1>1. q \in Prefixes(q)
  BY PrefixIs, LenProperties
<1>2. <<>> \in Seq(S) /\ Len(<<>>) = 0 /\ Len(q) \in Nat
  BY EmptySeq, LenProperties
<1>3. Len(<<>>) <= Len(q) /\ \A i \in 1..Len(<<>>) : <<>>[i] = q[i]
  BY <1>2
<1> QED BY <1>1, <1>2, <1>3, PrefixIs

LEMMA PrefixLater ==
    ASSUME NEW S, NEW q \in Seq(S), NEW p \in Prefixes(q), NEW r \in Prefixes(p)
    PROVE  r \in Prefixes(q)
<1>1. p \in Seq(S) /\ Len(p) <= Len(q) /\ \A i \in 1..Len(p) : p[i] = q[i]
  BY PrefixIs
<1>2. r \in Seq(S) /\ Len(r) <= Len(p) /\ \A i \in 1..Len(r) : r[i] = p[i]
  BY <1>1, PrefixIs
<1>3. Len(r) <= Len(q) /\ \A i \in 1..Len(r) : r[i] = q[i]
  BY <1>1, <1>2, LenProperties
<1> QED BY <1>2, <1>3, PrefixIs

LEMMA PrefixBehind ==
    ASSUME NEW S, NEW a \in Seq(S), NEW q \in Seq(S), NEW p \in Prefixes(q)
    PROVE  a \o p \in Prefixes(a \o q)
<1>1. p \in Seq(S) /\ Len(p) <= Len(q) /\ \A i \in 1..Len(p) : p[i] = q[i]
  BY PrefixIs
<1>2. /\ a \o q \in Seq(S) /\ Len(a \o q) = Len(a) + Len(q)
      /\ \A i \in 1..Len(a) + Len(q) :
            (a \o q)[i] = IF i <= Len(a) THEN a[i] ELSE q[i - Len(a)]
  BY ConcatProperties
<1>3. /\ a \o p \in Seq(S) /\ Len(a \o p) = Len(a) + Len(p)
      /\ \A i \in 1..Len(a) + Len(p) :
            (a \o p)[i] = IF i <= Len(a) THEN a[i] ELSE p[i - Len(a)]
  BY <1>1, ConcatProperties
<1>4. Len(a) \in Nat /\ Len(p) \in Nat /\ Len(q) \in Nat
  BY <1>1, LenProperties
<1>5. ASSUME NEW i \in 1..Len(a \o p) PROVE (a \o p)[i] = (a \o q)[i]
  <2>1. i \in 1..Len(a) + Len(p) /\ i \in 1..Len(a) + Len(q)
    BY <1>1, <1>3, <1>4
  <2>2. CASE i <= Len(a)
    BY <1>2, <1>3, <2>1, <2>2
  <2>3. CASE ~(i <= Len(a))
    <3>1. i - Len(a) \in 1..Len(p)
      BY <1>4, <2>1, <2>3
    <3> QED BY <1>1, <1>2, <1>3, <2>1, <2>3, <3>1
  <2> QED BY <2>2, <2>3
<1>6. Len(a \o p) <= Len(a \o q)
  BY <1>1, <1>2, <1>3, <1>4
<1> QED BY <1>2, <1>3, <1>5, <1>6, PrefixIs

LEMMA PrefixFront ==
    ASSUME NEW S, NEW a \in Seq(S), NEW q \in Seq(S), NEW p \in Prefixes(a)
    PROVE  p \in Prefixes(a \o q)
<1>1. <<>> \in Prefixes(q) /\ a \o <<>> = a
  BY PrefixSelf, ConcatEmptySeq
<1>2. a \in Prefixes(a \o q)
  BY <1>1, PrefixBehind
<1> QED BY <1>2, PrefixLater, ConcatProperties

\* A chunk that leaves the front of a sequence for a place before it.
LEMMA HeadMoves ==
    ASSUME NEW S, NEW w \in Seq(S), w # <<>>
    PROVE  /\ Head(w) \in S /\ Tail(w) \in Seq(S) /\ Len(Tail(w)) = Len(w) - 1
           /\ <<Head(w)>> \in Seq(S) /\ Len(<<Head(w)>>) = 1
           /\ <<Head(w)>> \o Tail(w) = w
<1>1. /\ Head(w) \in S /\ Tail(w) \in Seq(S) /\ Len(Tail(w)) = Len(w) - 1
      /\ \A i \in 1..Len(Tail(w)) : Tail(w)[i] = w[i + 1]
  BY HeadTailProperties
<1>2. Len(w) \in Nat /\ Len(w) # 0 /\ Head(w) = w[1]
  BY EmptySeq, LenProperties
<1>3. <<Head(w)>> \in Seq(S) /\ Len(<<Head(w)>>) = 1 /\ <<Head(w)>>[1] = Head(w)
  BY <1>1
<1> DEFINE h == <<Head(w)>>
           t == Tail(w)
<1>4. h \in Seq(S) /\ Len(h) = 1 /\ h[1] = w[1] /\ t \in Seq(S) /\ Len(t) = Len(w) - 1
      /\ \A i \in 1..Len(t) : t[i] = w[i + 1]
  BY <1>1, <1>2, <1>3
<1> HIDE DEF h, t
<1>5. /\ h \o t \in Seq(S) /\ Len(h \o t) = Len(h) + Len(t)
      /\ \A i \in 1..Len(h) + Len(t) : (h \o t)[i] = IF i <= Len(h) THEN h[i] ELSE t[i - Len(h)]
  <2>1. h \in Seq(S) /\ t \in Seq(S)
    BY <1>4
  <2> QED BY ONLY <2>1, ConcatProperties
<1>6. Len(h \o t) = Len(w)
  BY <1>2, <1>4, <1>5
<1>7. ASSUME NEW i \in 1..Len(w) PROVE (h \o t)[i] = w[i]
  <2>1. i \in 1..Len(h) + Len(t)
    BY <1>2, <1>4
  <2>2. CASE i = 1
    BY <1>4, <1>5, <2>1, <2>2
  <2>3. CASE i # 1
    <3>1. i - 1 \in 1..Len(t) /\ ~(i <= Len(h)) /\ (i - 1) + 1 = i
      BY <1>2, <1>4, <2>3
    <3> QED BY <1>4, <1>5, <2>1, <3>1
  <2> QED BY <2>2, <2>3
<1>8. h \o t = w
  BY <1>5, <1>6, <1>7, SeqEqual
<1> QED BY <1>1, <1>3, <1>8 DEF h, t

\* Where the parentheses stand does not matter.
Regroups(a, b, c) == (a \o b) \o c = a \o (b \o c)

LEMMA Regroup ==
    ASSUME NEW S, NEW a \in Seq(S), NEW b \in Seq(S), NEW c \in Seq(S)
    PROVE  Regroups(a, b, c) /\ a \o b \in Seq(S) /\ b \o c \in Seq(S)
BY ConcatAssociative, ConcatProperties DEF Regroups

-----------------------------------------------------------------------------
(* Types.                                                                  *)

WireOK(w) ==
    /\ w \in [Dirs -> [1..3 -> Seq(Chunks)]]
    /\ \A d \in Dirs, k \in 1..3 : Len(w[d][k]) <= Window

Nodes == {"client", "agent", "server", "target"}

\* Who stands at which end of a wire.
LEMMA Ends ==
    /\ Reader("up", 1) = "agent" /\ Reader("up", 2) = "server" /\ Reader("up", 3) = "target"
    /\ Reader("down", 1) = "server" /\ Reader("down", 2) = "agent" /\ Reader("down", 3) = "client"
    /\ Writer("up", 1) = "client" /\ Writer("up", 2) = "agent" /\ Writer("up", 3) = "server"
    /\ Writer("down", 1) = "target" /\ Writer("down", 2) = "server" /\ Writer("down", 3) = "agent"
    /\ Hop("agent", "up") = 1 /\ Hop("agent", "down") = 2
    /\ Hop("server", "up") = 2 /\ Hop("server", "down") = 1
BY DEF Reader, Writer, Hop

\* A side reads the wire of its hop, and no other, and writes the next one.
LEMMA Hops12 ==
    ASSUME NEW s \in Sides, NEW d \in Dirs
    PROVE  /\ Hop(s, d) \in Hops /\ Hop(s, d) + 1 \in 1..3 /\ Hop(s, d) \in 1..3
           /\ Reader(d, Hop(s, d)) = s
           /\ \A k \in 1..3 : Reader(d, k) = s => k = Hop(s, d)
BY Ends DEF Sides, Dirs, Hops

LEMMA ReaderSide ==
    ASSUME NEW d \in Dirs, NEW k \in Hops
    PROVE  /\ Reader(d, k) \in Sides /\ Hop(Reader(d, k), d) = k
           /\ k \in 1..3 /\ k + 1 \in 1..3 /\ Reader(d, k + 1) \in Nodes
           /\ Reader(d, k + 1) # Reader(d, k)
           /\ Array(d, k) \in Arrays
BY Ends DEF Sides, Dirs, Hops, Nodes, Array, Arrays

LEMMA HeldOK ==
    ASSUME TypeOK, NEW d \in Dirs, NEW k \in Hops
    PROVE  Held(d, k) \in Seq(Chunks) /\ Len(Held(d, k)) \in 0..1
<1>1. buf[Array(d, k)] \in Seq(Chunks) /\ Len(buf[Array(d, k)]) <= 1
  BY ReaderSide DEF TypeOK
<1> DEFINE n == Len(buf[Array(d, k)])
<1>2. n \in Nat /\ n <= 1
  BY <1>1, LenProperties
<1> HIDE DEF n
<1>3. n \in 0..1
  BY <1>2
<1> QED BY <1>1, <1>3 DEF Held, n

LEMMA Standing ==
    ASSUME TypeOK
    PROVE  /\ pc["client"] \in {"open", "half", "gone"}
           /\ pc["agent"] \in {"opening", "reply", "relay", "closed"}
           /\ pc["server"] \in {"dialing", "answering", "relay", "http", "closed"}
           /\ pc["target"] \in {"open", "half", "gone"}
           /\ DOMAIN pc = Nodes
BY DEF Stands, TypeOK, Nodes

\* What the wires are after a write.
LEMMA WrittenOK ==
    ASSUME TypeOK, NEW d \in Dirs, NEW k \in Hops, CanWrite(d, k)
    PROVE  /\ WireOK(Written(d, k))
           /\ \A e \in Dirs, j \in 1..3 :
                 Written(d, k)[e][j] =
                    IF ~Deaf(Reader(d, k + 1)) /\ e = d /\ j = k + 1
                    THEN wire[d][k + 1] \o Held(d, k) ELSE wire[e][j]
<1>1. WireOK(wire) /\ k + 1 \in 1..3
  BY ReaderSide DEF TypeOK, WireOK
<1>2. CASE Deaf(Reader(d, k + 1))
  BY <1>1, <1>2 DEF Written
<1>3. CASE ~Deaf(Reader(d, k + 1))
  <2> DEFINE q == wire[d][k + 1] \o Held(d, k)
  <2>1. wire[d][k + 1] \in Seq(Chunks) /\ Len(wire[d][k + 1]) < Window
    BY <1>1, <1>3 DEF CanWrite, WireOK
  <2>2. q \in Seq(Chunks) /\ Len(q) = Len(wire[d][k + 1]) + Len(Held(d, k))
    BY <2>1, HeldOK, ConcatProperties
  <2>3. Len(q) <= Window
    <3> DEFINE m == Len(wire[d][k + 1])
               n == Len(Held(d, k))
               r == Len(q)
    <3>1. m \in Nat /\ n \in 0..1 /\ Window \in Nat /\ m < Window /\ r = m + n
      BY <2>1, <2>2, HeldOK, TunnelAssumption, LenProperties
    <3> HIDE DEF m, n, r
    <3>2. r <= Window
      BY <3>1
    <3> QED BY <3>2 DEF r
  <2>4. Written(d, k) = [wire EXCEPT ![d][k + 1] = q]
    BY <1>3 DEF Written
  <2> HIDE DEF q
  <2>5. \A e \in Dirs, j \in 1..3 :
           Written(d, k)[e][j] = IF e = d /\ j = k + 1 THEN q ELSE wire[e][j]
    BY <1>1, <2>4 DEF WireOK
  <2>6. Written(d, k) \in [Dirs -> [1..3 -> Seq(Chunks)]]
    BY <1>1, <2>2, <2>4 DEF WireOK
  <2>7. WireOK(Written(d, k))
    BY <1>1, <2>3, <2>5, <2>6 DEF WireOK
  <2> QED BY <1>3, <2>5, <2>7 DEF q
<1> QED BY <1>2, <1>3

\* What is left when a side has shut down.
LEMMA ShutdownLeaves ==
    ASSUME TypeOK, NEW s \in Sides, NEW w, WireOK(w), Shutdown(s, w)
    PROVE  /\ pc' \in Stands /\ pc'[s] = "closed"
           /\ \A n \in Nodes : n # s => pc'[n] = pc[n]
           /\ WireOK(wire')
           /\ \A d \in Dirs, k \in 1..3 :
                 /\ wire'[d][k] \in Prefixes(w[d][k])
                 /\ k \notin {Hop(s, d), Hop(s, d) + 1} => wire'[d][k] = w[d][k]
           /\ loop' \in [Dirs -> [Hops -> {"off", "read", "write"}]]
           /\ \A d \in Dirs, k \in Hops :
                 loop'[d][k] = IF k = Hop(s, d) THEN "off" ELSE loop[d][k]
           /\ buf' \in [Arrays -> Seq(Chunks)]
           /\ \A a \in Arrays : Len(buf'[a]) <= 1
           /\ \A d \in Dirs, k \in Hops :
                 buf'[Array(d, k)] = IF k = Hop(s, d) THEN <<>> ELSE buf[Array(d, k)]
           /\ UNCHANGED <<tls, answer, cut, sent, pipelined, got>>
<1>1. /\ pc' \in Stands /\ pc'[s] = "closed"
      /\ \A n \in Nodes : n # s => pc'[n] = pc[n]
  BY DEF Shutdown, TypeOK, Stands, Sides, Nodes
<1>2. ASSUME NEW d \in Dirs
      PROVE  /\ wire'[d] \in [1..3 -> Seq(Chunks)]
             /\ \A k \in 1..3 :
                   /\ wire'[d][k] \in Prefixes(w[d][k])
                   /\ k \notin {Hop(s, d), Hop(s, d) + 1} => wire'[d][k] = w[d][k]
  <2>1. PICK up \in Prefixes(w["up"][Hop(s, "up") + 1]),
             down \in Prefixes(w["down"][Hop(s, "down") + 1]) :
                wire' = [e \in Dirs |->
                           [w[e] EXCEPT ![Hop(s, e)] = <<>>,
                                        ![Hop(s, e) + 1] = IF e = "up" THEN up ELSE down]]
    BY DEF Shutdown
  <2> DEFINE q == IF d = "up" THEN up ELSE down
  <2>2. q \in Prefixes(w[d][Hop(s, d) + 1])
    BY <2>1 DEF Dirs
  <2>3. wire'[d] = [w[d] EXCEPT ![Hop(s, d)] = <<>>, ![Hop(s, d) + 1] = q]
    BY <2>1
  <2> HIDE DEF q
  <2>4. w[d] \in [1..3 -> Seq(Chunks)] /\ \A k \in 1..3 : w[d][k] \in Seq(Chunks)
    BY DEF WireOK
  <2>5. q \in Seq(Chunks)
    BY <2>2, <2>4, Hops12, PrefixIs
  <2>6. \A k \in 1..3 : <<>> \in Prefixes(w[d][k]) /\ w[d][k] \in Prefixes(w[d][k])
    BY <2>4, PrefixSelf
  <2>7. <<>> \in Seq(Chunks)
    BY EmptySeq
  <2>8. wire'[d] \in [1..3 -> Seq(Chunks)]
    BY <2>3, <2>4, <2>5, <2>7
  <2>9. ASSUME NEW k \in 1..3
        PROVE  wire'[d][k] = IF k = Hop(s, d) + 1 THEN q
                             ELSE IF k = Hop(s, d) THEN <<>> ELSE w[d][k]
    BY <2>3, <2>4, Hops12
  <2> QED BY <2>2, <2>6, <2>8, <2>9
<1>3. wire' \in [Dirs -> [1..3 -> Seq(Chunks)]]
  <2>1. wire' = [d \in Dirs |-> wire'[d]]
    BY DEF Shutdown
  <2> QED BY <1>2, <2>1
<1>4. ASSUME NEW d \in Dirs, NEW k \in 1..3 PROVE Len(wire'[d][k]) <= Window
  <2>1. /\ w[d][k] \in Seq(Chunks) /\ Len(w[d][k]) <= Window /\ wire'[d][k] \in Seq(Chunks)
    BY <1>3 DEF WireOK
  <2>2. Len(wire'[d][k]) <= Len(w[d][k])
    BY <1>2, <2>1, PrefixIs
  <2> QED BY <2>1, <2>2, LenProperties, TunnelAssumption
<1>5. WireOK(wire')
  BY <1>3, <1>4 DEF WireOK
<1>6. /\ loop' \in [Dirs -> [Hops -> {"off", "read", "write"}]]
      /\ \A d \in Dirs, k \in Hops :
            loop'[d][k] = IF k = Hop(s, d) THEN "off" ELSE loop[d][k]
  BY DEF Shutdown, TypeOK
<1>7. ASSUME NEW a \in Arrays PROVE buf'[a] \in Seq(Chunks) /\ Len(buf'[a]) <= 1
  <2>1. buf'[a] = <<>> \/ buf'[a] = buf[a]
    BY DEF Shutdown
  <2>2. <<>> \in Seq(Chunks) /\ Len(<<>>) <= 1
    BY EmptySeq
  <2>3. buf[a] \in Seq(Chunks) /\ Len(buf[a]) <= 1
    BY DEF TypeOK
  <2> QED BY <2>1, <2>2, <2>3
<1>8. buf' \in [Arrays -> Seq(Chunks)]
  <2>1. buf' = [a \in Arrays |-> buf'[a]]
    BY DEF Shutdown
  <2> QED BY <1>7, <2>1
<1>9. ASSUME NEW d \in Dirs, NEW k \in Hops
      PROVE  buf'[Array(d, k)] = IF k = Hop(s, d) THEN <<>> ELSE buf[Array(d, k)]
  <2>1. <<d, k>> \in Arrays /\ <<d, k>>[1] = d /\ <<d, k>>[2] = k
    BY DEF Arrays
  <2> QED BY <2>1 DEF Shutdown, Held, Array
<1>10. UNCHANGED <<tls, answer, cut, sent, pipelined, got>>
  BY DEF Shutdown
<1> QED BY <1>1, <1>2, <1>5, <1>6, <1>7, <1>8, <1>9, <1>10

\* One wire changes, or one array.
WireStep(d, k, q) == wire' = [wire EXCEPT ![d][k] = q]
ArrayStep(d, k, q) == buf' = [buf EXCEPT ![Array(d, k)] = q]

LEMMA WireSet ==
    ASSUME WireOK(wire), NEW d \in Dirs, NEW k \in 1..3, NEW q \in Seq(Chunks), Len(q) <= Window,
           WireStep(d, k, q)
    PROVE  /\ WireOK(wire')
           /\ wire'[d][k] = q
           /\ \A e \in Dirs, j \in 1..3 : e # d \/ j # k => wire'[e][j] = wire[e][j]
<1>1. \A e \in Dirs, j \in 1..3 : wire'[e][j] = IF e = d /\ j = k THEN q ELSE wire[e][j]
  BY DEF WireOK, WireStep
<1>2. wire' \in [Dirs -> [1..3 -> Seq(Chunks)]]
  BY DEF WireOK, WireStep
<1> QED BY <1>1, <1>2 DEF WireOK

LEMMA ArraySet ==
    ASSUME TypeOK, NEW d \in Dirs, NEW k \in Hops, NEW q \in Seq(Chunks), Len(q) <= 1,
           ArrayStep(d, k, q)
    PROVE  /\ buf' \in [Arrays -> Seq(Chunks)] /\ \A a \in Arrays : Len(buf'[a]) <= 1
           /\ buf'[Array(d, k)] = q
           /\ \A e \in Dirs, j \in Hops :
                 e # d \/ j # k => buf'[Array(e, j)] = buf[Array(e, j)]
<1>1. Array(d, k) \in Arrays /\ \A e \in Dirs, j \in Hops : Array(e, j) \in Arrays
  BY DEF Array, Arrays
<1>2. \A a \in Arrays : buf'[a] = IF a = Array(d, k) THEN q ELSE buf[a]
  BY <1>1 DEF TypeOK, ArrayStep
<1>3. \A e \in Dirs, j \in Hops : Array(e, j) = Array(d, k) <=> e = d /\ j = k
  BY DEF Array
<1>4. buf' \in [Arrays -> Seq(Chunks)] /\ \A a \in Arrays : Len(buf'[a]) <= 1
  BY <1>1, <1>2 DEF TypeOK, ArrayStep
<1> QED BY <1>1, <1>2, <1>3, <1>4

LEMMA ArrayEmptied ==
    ASSUME TypeOK, NEW d \in Dirs, NEW k \in Hops, buf' = Emptied(d, k)
    PROVE  /\ buf' \in [Arrays -> Seq(Chunks)] /\ \A a \in Arrays : Len(buf'[a]) <= 1
           /\ buf'[Array(d, k)] = <<>>
           /\ \A e \in Dirs, j \in Hops :
                 e # d \/ j # k => buf'[Array(e, j)] = buf[Array(e, j)]
<1>1. <<>> \in Seq(Chunks) /\ Len(<<>>) <= 1 /\ ArrayStep(d, k, <<>>)
  BY EmptySeq DEF Emptied, ArrayStep
<1> QED BY <1>1, ArraySet

LEMMA StartedOK ==
    ASSUME TypeOK, NEW s \in Sides, loop' = Started(s)
    PROVE  /\ loop' \in [Dirs -> [Hops -> {"off", "read", "write"}]]
           /\ \A d \in Dirs, k \in Hops :
                 loop'[d][k] = IF k = Hop(s, d) THEN "read" ELSE loop[d][k]
BY Hops12 DEF Started, TypeOK

\* The typing of a step from that of what it changes.
TypesNext ==
    /\ pc' \in Stands /\ answer' \in {NoAnswer, Granted, Refused} /\ cut' \subseteq Sides
    /\ loop' \in [Dirs -> [Hops -> {"off", "read", "write"}]]
    /\ buf' \in [Arrays -> Seq(Chunks)] /\ \A a \in Arrays : Len(buf'[a]) <= 1
    /\ WireOK(wire')
    /\ sent' \in [Dirs -> Nat] /\ \A d \in Dirs : sent'[d] <= MaxSent(d)
    /\ got' \in [Dirs -> Seq(Chunks)]
    /\ faults' \subseteq {"timeout", "spoke"}
    /\ UNCHANGED <<tls, pipelined>>

LEMMA TypesKept ==
    ASSUME TypeOK
    PROVE  /\ tls \in BOOLEAN
           /\ pc \in Stands /\ answer \in {NoAnswer, Granted, Refused} /\ cut \subseteq Sides
           /\ loop \in [Dirs -> [Hops -> {"off", "read", "write"}]]
           /\ buf \in [Arrays -> Seq(Chunks)] /\ \A a \in Arrays : Len(buf[a]) <= 1
           /\ WireOK(wire)
           /\ sent \in [Dirs -> Nat] /\ \A d \in Dirs : sent[d] <= MaxSent(d)
           /\ got \in [Dirs -> Seq(Chunks)]
           /\ faults \subseteq {"timeout", "spoke"}
BY DEF TypeOK, WireOK

LEMMA TypesEnough == TypeOK /\ TypesNext => TypeOK'
BY DEF TypeOK, TypesNext, WireOK, Chunks, Arrays, Array

\* What a loop takes from its wire it has in its array.
LEMMA LoopReadsDoes ==
    ASSUME TypeOK, NEW d \in Dirs, NEW k \in Hops, LoopReads(d, k)
    PROVE  /\ TypesNext
           /\ buf'[Array(d, k)] = <<Head(wire[d][k])>> /\ loop'[d][k] = "write"
           /\ wire'[d][k] = Tail(wire[d][k])
           /\ \A e \in Dirs, j \in Hops :
                 e # d \/ j # k => buf'[Array(e, j)] = buf[Array(e, j)] /\ loop'[e][j] = loop[e][j]
           /\ \A e \in Dirs, j \in 1..3 : e # d \/ j # k => wire'[e][j] = wire[e][j]
<1> DEFINE w == wire[d][k]
           t == Tail(w)
           h == <<Head(w)>>
<1>1. w \in Seq(Chunks) /\ w # <<>> /\ Len(w) <= Window /\ k \in 1..3
  BY TypesKept, ReaderSide DEF LoopReads, WireOK
<1>2. /\ t \in Seq(Chunks) /\ Len(t) = Len(w) - 1 /\ Len(w) \in Nat
      /\ h \in Seq(Chunks) /\ Len(h) = 1
  BY <1>1, HeadMoves, LenProperties
<1>3. WireStep(d, k, t) /\ ArrayStep(d, k, h)
  BY TypesKept, ReaderSide DEF LoopReads, WireOK, WireStep, ArrayStep
<1>4. /\ loop' = [loop EXCEPT ![d][k] = "write"]
      /\ UNCHANGED <<tls, pc, answer, cut, sent, pipelined, got, faults>>
  BY DEF LoopReads
<1>5. wire'[d][k] = t /\ buf'[Array(d, k)] = h => wire'[d][k] = Tail(wire[d][k]) /\ buf'[Array(d, k)] = <<Head(wire[d][k])>>
  OBVIOUS
<1> HIDE DEF w, t, h
<1>6. Len(t) <= Window /\ Len(h) <= 1
  <2> DEFINE m == Len(w)
             n == Len(t)
             i == Len(h)
  <2>1. m \in Nat /\ n = m - 1 /\ m <= Window /\ Window \in Nat /\ i = 1
    BY <1>1, <1>2, TunnelAssumption
  <2> HIDE DEF m, n, i
  <2>2. n <= Window /\ i <= 1
    BY <2>1
  <2> QED BY <2>2 DEF n, i
<1>7. /\ WireOK(wire') /\ wire'[d][k] = t
      /\ \A e \in Dirs, j \in 1..3 : e # d \/ j # k => wire'[e][j] = wire[e][j]
  BY <1>1, <1>2, <1>3, <1>6, WireSet, TypesKept
<1>8. /\ buf' \in [Arrays -> Seq(Chunks)] /\ \A a \in Arrays : Len(buf'[a]) <= 1
      /\ buf'[Array(d, k)] = h
      /\ \A e \in Dirs, j \in Hops : e # d \/ j # k => buf'[Array(e, j)] = buf[Array(e, j)]
  BY <1>2, <1>3, <1>6, ArraySet
<1>9. /\ loop' \in [Dirs -> [Hops -> {"off", "read", "write"}]]
      /\ loop'[d][k] = "write"
      /\ \A e \in Dirs, j \in Hops : e # d \/ j # k => loop'[e][j] = loop[e][j]
  BY <1>4, TypesKept
<1>10. TypesNext
  BY <1>4, <1>7, <1>8, <1>9, TypesKept DEF TypesNext
<1> QED BY <1>5, <1>7, <1>8, <1>9, <1>10

\* The write of a relay loop, as long as it succeeds.
Passes(d, k) ==
    /\ loop[d][k] = "write" /\ CanWrite(d, k)
    /\ d = "up" => IsOpen(Reader(d, k))
    /\ wire' = Written(d, k) /\ buf' = Emptied(d, k)
    /\ loop' = [loop EXCEPT ![d][k] = "read"]
    /\ UNCHANGED <<tls, pc, answer, cut, sent, pipelined, got, faults>>

LEMMA PassesDoes ==
    ASSUME TypeOK, NEW d \in Dirs, NEW k \in Hops, Passes(d, k)
    PROVE  /\ TypesNext
           /\ buf'[Array(d, k)] = <<>> /\ loop'[d][k] = "read"
           /\ \A e \in Dirs, j \in Hops :
                 e # d \/ j # k => buf'[Array(e, j)] = buf[Array(e, j)] /\ loop'[e][j] = loop[e][j]
<1>1. WireOK(wire')
  <2>1. CanWrite(d, k) /\ wire' = Written(d, k)
    BY DEF Passes
  <2> QED BY <2>1, WrittenOK
<1>2. /\ buf' \in [Arrays -> Seq(Chunks)] /\ \A a \in Arrays : Len(buf'[a]) <= 1
      /\ buf'[Array(d, k)] = <<>>
      /\ \A e \in Dirs, j \in Hops : e # d \/ j # k => buf'[Array(e, j)] = buf[Array(e, j)]
  <2>1. buf' = Emptied(d, k)
    BY DEF Passes
  <2> QED BY <2>1, ArrayEmptied
<1>3. /\ loop' \in [Dirs -> [Hops -> {"off", "read", "write"}]]
      /\ loop'[d][k] = "read"
      /\ \A e \in Dirs, j \in Hops : e # d \/ j # k => loop'[e][j] = loop[e][j]
  BY TypesKept DEF Passes
<1>4. TypesNext
  BY <1>1, <1>2, <1>3, TypesKept DEF TypesNext, Passes
<1> QED BY <1>2, <1>3, <1>4

-----------------------------------------------------------------------------
(* The open, step by step.                                                 *)

\* The server's answer goes out and the server goes on.
AnswerGoes ==
    /\ pc["server"] = "answering" /\ CanWrite("down", 1)
    /\ \/ /\ answer = Granted /\ IsOpen("server")
          /\ pc' = [pc EXCEPT !["server"] = "relay"] /\ loop' = Started("server")
       \/ /\ answer # Granted
          /\ pc' = [pc EXCEPT !["server"] = "http"] /\ UNCHANGED loop
    /\ wire' = Written("down", 1) /\ buf' = Emptied("down", 1)
    /\ UNCHANGED <<tls, answer, cut, sent, pipelined, got, faults>>

AnswerFails ==
    /\ pc["server"] = "answering" /\ CanWrite("down", 1)
    /\ answer # Granted \/ ~IsOpen("server") \/ Deaf("agent")
    /\ Shutdown("server", Written("down", 1))
    /\ UNCHANGED faults

LEMMA WriteAnswerIs == WriteAnswer => AnswerGoes \/ AnswerFails
BY DEF WriteAnswer, AnswerGoes, AnswerFails, AfterAnswer

LEMMA AnswerGoesDoes ==
    ASSUME TypeOK, AnswerGoes
    PROVE  /\ TypesNext
           /\ pc'["server"] = IF answer = Granted THEN "relay" ELSE "http"
           /\ \A n \in Nodes : n # "server" => pc'[n] = pc[n]
           /\ buf'[Array("down", 1)] = <<>>
           /\ \A e \in Dirs, j \in Hops :
                 e # "down" \/ j # 1 => buf'[Array(e, j)] = buf[Array(e, j)]
           /\ \A e \in Dirs, j \in Hops :
                 \/ loop'[e][j] = loop[e][j]
                 \/ answer = Granted /\ j = Hop("server", e) /\ loop'[e][j] = "read"
<1>1. "down" \in Dirs /\ 1 \in Hops /\ "server" \in Sides
  BY DEF Dirs, Hops, Sides
<1>2. WireOK(wire')
  <2>1. CanWrite("down", 1) /\ wire' = Written("down", 1)
    BY DEF AnswerGoes
  <2> QED BY <1>1, <2>1, WrittenOK
<1>3. /\ buf' \in [Arrays -> Seq(Chunks)] /\ \A a \in Arrays : Len(buf'[a]) <= 1
      /\ buf'[Array("down", 1)] = <<>>
      /\ \A e \in Dirs, j \in Hops :
            e # "down" \/ j # 1 => buf'[Array(e, j)] = buf[Array(e, j)]
  <2>1. buf' = Emptied("down", 1)
    BY DEF AnswerGoes
  <2> QED BY <1>1, <2>1, ArrayEmptied
<1>4. /\ loop' \in [Dirs -> [Hops -> {"off", "read", "write"}]]
      /\ \A e \in Dirs, j \in Hops :
            \/ loop'[e][j] = loop[e][j]
            \/ answer = Granted /\ j = Hop("server", e) /\ loop'[e][j] = "read"
  <2>1. CASE loop' = Started("server") /\ answer = Granted
    <3>1. /\ loop' \in [Dirs -> [Hops -> {"off", "read", "write"}]]
          /\ \A d \in Dirs, k \in Hops :
                 loop'[d][k] = IF k = Hop("server", d) THEN "read" ELSE loop[d][k]
      BY <1>1, <2>1, StartedOK
    <3> QED BY <2>1, <3>1
  <2>2. CASE UNCHANGED loop
    BY <2>2, TypesKept
  <2> QED BY <2>1, <2>2 DEF AnswerGoes
<1>5. /\ pc' \in Stands
      /\ pc'["server"] = IF answer = Granted THEN "relay" ELSE "http"
      /\ \A n \in Nodes : n # "server" => pc'[n] = pc[n]
  BY TypesKept DEF AnswerGoes, Stands, Nodes
<1>6. TypesNext
  BY <1>2, <1>3, <1>4, <1>5, TypesKept DEF TypesNext, AnswerGoes
<1> QED BY <1>3, <1>4, <1>5, <1>6

\* The agent has the answer, and only that.
AnswerRead ==
    /\ pc["agent"] = "opening" /\ wire["down"][2] # <<>>
    /\ pc' = [pc EXCEPT !["agent"] = "reply"]
    /\ wire' = [wire EXCEPT !["down"][2] = Tail(@)]
    /\ buf' = [buf EXCEPT ![Array("down", 2)] = <<Head(wire["down"][2])>>]
    /\ UNCHANGED <<tls, answer, cut, loop, sent, pipelined, got, faults>>

\* More came with it.
AnswerSpoilt ==
    /\ pc["agent"] = "opening" /\ ~tls
    /\ \E n \in 1..Len(wire["down"][2]) : n > 1
    /\ Shutdown("agent", wire) /\ UNCHANGED faults

LEMMA ReadAnswerIs == TypeOK /\ ReadAnswer => AnswerRead \/ AnswerSpoilt
<1> SUFFICES ASSUME TypeOK, ReadAnswer, ~AnswerSpoilt PROVE AnswerRead
  OBVIOUS
<1>1. PICK n \in 1..Len(wire["down"][2]) :
          /\ n > 1 => ~tls
          /\ \/ /\ n = 1
                /\ pc' = [pc EXCEPT !["agent"] = "reply"]
                /\ wire' = [wire EXCEPT !["down"][2] = Tail(@)]
                /\ buf' = [buf EXCEPT ![Array("down", 2)] = <<Head(wire["down"][2])>>]
                /\ UNCHANGED <<tls, answer, cut, loop, sent, pipelined, got>>
             \/ n > 1 /\ Shutdown("agent", wire)
  BY DEF ReadAnswer
<1>2. pc["agent"] = "opening" /\ UNCHANGED faults
  BY DEF ReadAnswer
<1>3. wire["down"][2] # <<>>
  <2>1. Len(<<>>) = 0
    BY EmptySeq
  <2>2. wire["down"][2] = <<>> => n \in 1..0
    BY <1>1, <2>1
  <2> QED BY <2>2
<1> QED BY <1>1, <1>2, <1>3 DEF AnswerRead, AnswerSpoilt

LEMMA AnswerReadDoes ==
    ASSUME TypeOK, AnswerRead
    PROVE  /\ TypesNext
           /\ pc'["agent"] = "reply"
           /\ \A n \in Nodes : n # "agent" => pc'[n] = pc[n]
           /\ buf'[Array("down", 2)] = <<Head(wire["down"][2])>>
           /\ wire'["down"][2] = Tail(wire["down"][2])
           /\ \A e \in Dirs, j \in Hops :
                 e # "down" \/ j # 2 => buf'[Array(e, j)] = buf[Array(e, j)]
           /\ \A e \in Dirs, j \in 1..3 : e # "down" \/ j # 2 => wire'[e][j] = wire[e][j]
<1> DEFINE w == wire["down"][2]
           t == Tail(w)
           h == <<Head(w)>>
<1>0. "down" \in Dirs /\ 2 \in Hops /\ 2 \in 1..3
  BY DEF Dirs, Hops
<1>1. w \in Seq(Chunks) /\ w # <<>> /\ Len(w) <= Window
  BY <1>0, TypesKept DEF AnswerRead, WireOK
<1>2. /\ t \in Seq(Chunks) /\ Len(t) = Len(w) - 1 /\ Len(w) \in Nat
      /\ h \in Seq(Chunks) /\ Len(h) = 1
  BY <1>1, HeadMoves, LenProperties
<1>3. WireStep("down", 2, t) /\ ArrayStep("down", 2, h)
  BY <1>0, TypesKept DEF AnswerRead, WireOK, WireStep, ArrayStep
<1>4. /\ pc' = [pc EXCEPT !["agent"] = "reply"]
      /\ UNCHANGED <<tls, answer, cut, loop, sent, pipelined, got, faults>>
  BY DEF AnswerRead
<1>5. /\ wire'["down"][2] = t => wire'["down"][2] = Tail(wire["down"][2])
      /\ buf'[Array("down", 2)] = h => buf'[Array("down", 2)] = <<Head(wire["down"][2])>>
  OBVIOUS
<1> HIDE DEF w, t, h
<1>6. Len(t) <= Window /\ Len(h) <= 1
  <2> DEFINE m == Len(w)
             n == Len(t)
             i == Len(h)
  <2>1. m \in Nat /\ n = m - 1 /\ m <= Window /\ Window \in Nat /\ i = 1
    BY <1>1, <1>2, TunnelAssumption
  <2> HIDE DEF m, n, i
  <2>2. n <= Window /\ i <= 1
    BY <2>1
  <2> QED BY <2>2 DEF n, i
<1>7. /\ WireOK(wire') /\ wire'["down"][2] = t
      /\ \A e \in Dirs, j \in 1..3 : e # "down" \/ j # 2 => wire'[e][j] = wire[e][j]
  BY <1>0, <1>2, <1>3, <1>6, WireSet, TypesKept
<1>8. /\ buf' \in [Arrays -> Seq(Chunks)] /\ \A a \in Arrays : Len(buf'[a]) <= 1
      /\ buf'[Array("down", 2)] = h
      /\ \A e \in Dirs, j \in Hops :
            e # "down" \/ j # 2 => buf'[Array(e, j)] = buf[Array(e, j)]
  BY <1>0, <1>2, <1>3, <1>6, ArraySet
<1>9. /\ pc' \in Stands /\ pc'["agent"] = "reply"
      /\ \A n \in Nodes : n # "agent" => pc'[n] = pc[n]
  BY <1>4, TypesKept DEF Stands, Nodes
<1>10. TypesNext
  BY <1>4, <1>7, <1>8, <1>9, TypesKept DEF TypesNext
<1> QED BY <1>5, <1>7, <1>8, <1>9, <1>10

\* The client gets the answer, and the agent's loops start.
ReplyGoes ==
    /\ pc["agent"] = "reply" /\ CanWrite("down", 2) /\ IsOpen("agent")
    /\ pc' = [pc EXCEPT !["agent"] = "relay"] /\ loop' = Started("agent")
    /\ wire' = Written("down", 2) /\ buf' = Emptied("down", 2)
    /\ UNCHANGED <<tls, answer, cut, sent, pipelined, got, faults>>

ReplyFails ==
    /\ pc["agent"] = "reply" /\ CanWrite("down", 2)
    /\ ~IsOpen("agent") \/ Deaf("client")
    /\ Shutdown("agent", Written("down", 2))
    /\ UNCHANGED faults

LEMMA WriteReplyIs == WriteReply => ReplyGoes \/ ReplyFails
BY DEF WriteReply, ReplyGoes, ReplyFails

LEMMA ReplyGoesDoes ==
    ASSUME TypeOK, ReplyGoes
    PROVE  /\ TypesNext
           /\ pc'["agent"] = "relay"
           /\ \A n \in Nodes : n # "agent" => pc'[n] = pc[n]
           /\ buf'[Array("down", 2)] = <<>>
           /\ \A e \in Dirs, j \in Hops :
                 e # "down" \/ j # 2 => buf'[Array(e, j)] = buf[Array(e, j)]
           /\ \A e \in Dirs, j \in Hops :
                 loop'[e][j] = IF j = Hop("agent", e) THEN "read" ELSE loop[e][j]
<1>1. "down" \in Dirs /\ 2 \in Hops /\ "agent" \in Sides
  BY DEF Dirs, Hops, Sides
<1>2. WireOK(wire')
  <2>1. CanWrite("down", 2) /\ wire' = Written("down", 2)
    BY DEF ReplyGoes
  <2> QED BY <1>1, <2>1, WrittenOK
<1>3. /\ buf' \in [Arrays -> Seq(Chunks)] /\ \A a \in Arrays : Len(buf'[a]) <= 1
      /\ buf'[Array("down", 2)] = <<>>
      /\ \A e \in Dirs, j \in Hops :
            e # "down" \/ j # 2 => buf'[Array(e, j)] = buf[Array(e, j)]
  <2>1. buf' = Emptied("down", 2)
    BY DEF ReplyGoes
  <2> QED BY <1>1, <2>1, ArrayEmptied
<1>4. /\ loop' \in [Dirs -> [Hops -> {"off", "read", "write"}]]
      /\ \A e \in Dirs, j \in Hops :
            loop'[e][j] = IF j = Hop("agent", e) THEN "read" ELSE loop[e][j]
  <2>1. loop' = Started("agent")
    BY DEF ReplyGoes
  <2> QED BY <1>1, <2>1, StartedOK
<1>5. /\ pc' \in Stands /\ pc'["agent"] = "relay"
      /\ \A n \in Nodes : n # "agent" => pc'[n] = pc[n]
  BY TypesKept DEF ReplyGoes, Stands, Nodes
<1>6. TypesNext
  BY <1>2, <1>3, <1>4, <1>5, TypesKept DEF TypesNext, ReplyGoes
<1> QED BY <1>3, <1>4, <1>5, <1>6

\* The server reads what it takes for a request.
RawRead ==
    /\ pc["server"] = "http" /\ wire["up"][2] # <<>>
    /\ wire' = [wire EXCEPT !["up"][2] = Tail(@)]
    /\ \/ UNCHANGED <<pc, buf>>
       \/ /\ pc' = [pc EXCEPT !["server"] = "answering"]
          /\ buf' = [buf EXCEPT ![Array("down", 1)] = <<Rejected>>]
    /\ UNCHANGED <<tls, answer, cut, loop, sent, pipelined, got, faults>>

Behind == [wire EXCEPT !["up"][2] = Tail(@)]

RawFails ==
    /\ pc["server"] = "http" /\ wire["up"][2] # <<>>
    /\ Shutdown("server", Behind) /\ UNCHANGED faults

LEMMA ReadRawIs == ReadRaw => RawRead \/ RawFails
BY DEF ReadRaw, RawRead, RawFails, Behind

\* The wires with the first chunk of one of them taken off.
TailStep(w, d, k) == w = [wire EXCEPT ![d][k] = Tail(@)]

LEMMA TailOK ==
    ASSUME TypeOK, NEW d \in Dirs, NEW k \in 1..3, wire[d][k] # <<>>,
           NEW w, TailStep(w, d, k)
    PROVE  /\ WireOK(w) /\ w[d][k] = Tail(wire[d][k]) /\ w[d][k] \in Seq(Chunks)
           /\ Head(wire[d][k]) \in Chunks
           /\ \A e \in Dirs, j \in 1..3 : e # d \/ j # k => w[e][j] = wire[e][j]
<1> DEFINE q == wire[d][k]
           t == Tail(q)
<1>1. q \in Seq(Chunks) /\ Len(q) <= Window
  BY TypesKept DEF WireOK
<1>2. t \in Seq(Chunks) /\ Len(t) = Len(q) - 1 /\ Len(q) \in Nat /\ Head(q) \in Chunks
  BY <1>1, HeadMoves, LenProperties
<1>3. w = [wire EXCEPT ![d][k] = t]
  BY TypesKept DEF WireOK, TailStep
<1> HIDE DEF t
<1>4. Len(t) <= Window
  <2> DEFINE m == Len(q)
             n == Len(t)
  <2>1. m \in Nat /\ n = m - 1 /\ m <= Window /\ Window \in Nat
    BY <1>1, <1>2, TunnelAssumption
  <2> HIDE DEF m, n
  <2>2. n <= Window
    BY <2>1
  <2> QED BY <2>2 DEF n
<1>5. \A e \in Dirs, j \in 1..3 : w[e][j] = IF e = d /\ j = k THEN t ELSE wire[e][j]
  BY <1>3, TypesKept DEF WireOK
<1>6. w \in [Dirs -> [1..3 -> Seq(Chunks)]]
  BY <1>2, <1>3, TypesKept DEF WireOK
<1>7. WireOK(w)
  BY <1>4, <1>5, <1>6, TypesKept DEF WireOK
<1> QED BY <1>2, <1>5, <1>7 DEF t

LEMMA RawReadDoes ==
    ASSUME TypeOK, RawRead
    PROVE  /\ TypesNext
           /\ pc'["server"] \in {"http", "answering"}
           /\ \A n \in Nodes : n # "server" => pc'[n] = pc[n]
           /\ \A e \in Dirs, j \in Hops :
                 e # "down" \/ j # 1 => buf'[Array(e, j)] = buf[Array(e, j)]
<1>1. "up" \in Dirs /\ "down" \in Dirs /\ 2 \in 1..3 /\ 1 \in Hops
  BY DEF Dirs, Hops
<1>2. WireOK(wire')
  <2>1. wire["up"][2] # <<>> /\ TailStep(wire', "up", 2)
    BY DEF RawRead, TailStep
  <2> QED BY <1>1, <2>1, TailOK
<1>3. /\ pc' \in Stands /\ pc'["server"] \in {"http", "answering"}
      /\ \A n \in Nodes : n # "server" => pc'[n] = pc[n]
  BY TypesKept DEF RawRead, Stands, Nodes
<1>4. /\ buf' \in [Arrays -> Seq(Chunks)] /\ \A a \in Arrays : Len(buf'[a]) <= 1
      /\ \A e \in Dirs, j \in Hops :
            e # "down" \/ j # 1 => buf'[Array(e, j)] = buf[Array(e, j)]
  <2>1. CASE UNCHANGED buf
    BY <2>1, TypesKept
  <2>2. CASE ArrayStep("down", 1, <<Rejected>>)
    <3>1. <<Rejected>> \in Seq(Chunks) /\ Len(<<Rejected>>) <= 1
      BY DEF Chunks
    <3> QED BY <1>1, <2>2, <3>1, ArraySet
  <2> QED BY <2>1, <2>2 DEF RawRead, ArrayStep
<1>5. TypesNext
  BY <1>2, <1>3, <1>4, TypesKept DEF TypesNext, RawRead
<1> QED BY <1>3, <1>4, <1>5

LEMMA RawFailsDoes == ASSUME TypeOK, RawFails PROVE WireOK(Behind)
<1>1. "up" \in Dirs /\ 2 \in 1..3
  BY DEF Dirs
<1>2. wire["up"][2] # <<>> /\ TailStep(Behind, "up", 2)
  BY DEF RawFails, TailStep, Behind
<1> QED BY <1>1, <1>2, TailOK

\* The server's connect call returns.
LEMMA DialDoes ==
    ASSUME TypeOK, Dial
    PROVE  /\ TypesNext
           /\ pc["server"] = "dialing" /\ pc'["server"] = "answering"
           /\ answer' \in {Granted, Refused}
           /\ \A n \in Nodes : n # "server" => pc'[n] = pc[n]
           /\ buf'[Array("down", 1)] = <<answer'>>
           /\ \A e \in Dirs, j \in Hops :
                 e # "down" \/ j # 1 => buf'[Array(e, j)] = buf[Array(e, j)]
           /\ UNCHANGED <<tls, cut, loop, wire, sent, pipelined, got, faults>>
<1>1. "down" \in Dirs /\ 1 \in Hops
  BY DEF Dirs, Hops
<1>2. answer' \in {Granted, Refused} /\ ArrayStep("down", 1, <<answer'>>)
  BY DEF Dial, ArrayStep
<1>3. <<answer'>> \in Seq(Chunks) /\ Len(<<answer'>>) <= 1
  <2>1. answer' \in Chunks
    BY <1>2 DEF Chunks, Granted
  <2> QED BY <2>1
<1>4. /\ buf' \in [Arrays -> Seq(Chunks)] /\ \A a \in Arrays : Len(buf'[a]) <= 1
      /\ buf'[Array("down", 1)] = <<answer'>>
      /\ \A e \in Dirs, j \in Hops :
            e # "down" \/ j # 1 => buf'[Array(e, j)] = buf[Array(e, j)]
  <2> DEFINE q == <<answer'>>
  <2>1. q \in Seq(Chunks) /\ Len(q) <= 1 /\ ArrayStep("down", 1, q)
    BY <1>2, <1>3
  <2> HIDE DEF q
  <2>2. /\ buf' \in [Arrays -> Seq(Chunks)] /\ \A a \in Arrays : Len(buf'[a]) <= 1
        /\ buf'[Array("down", 1)] = q
        /\ \A e \in Dirs, j \in Hops :
              e # "down" \/ j # 1 => buf'[Array(e, j)] = buf[Array(e, j)]
    BY <1>1, <2>1, ArraySet
  <2> QED BY <2>2 DEF q
<1>5. /\ pc["server"] = "dialing" /\ pc' \in Stands /\ pc'["server"] = "answering"
      /\ \A n \in Nodes : n # "server" => pc'[n] = pc[n]
  BY TypesKept DEF Dial, Stands, Nodes
<1>6. UNCHANGED <<tls, cut, loop, wire, sent, pipelined, got, faults>>
  BY DEF Dial
<1>7. TypesNext
  BY <1>2, <1>4, <1>5, <1>6, TypesKept DEF TypesNext
<1> QED BY <1>2, <1>4, <1>5, <1>6, <1>7

-----------------------------------------------------------------------------
(* The two ends, and the late timer.                                       *)
LEMMA SendDoes ==
    ASSUME TypeOK, NEW d \in Dirs, Send(d)
    PROVE  /\ TypesNext
           /\ wire'[d][1] = Append(wire[d][1], sent[d] + 1)
           /\ \A e \in Dirs, j \in 1..3 : e # d \/ j # 1 => wire'[e][j] = wire[e][j]
           /\ sent'[d] = sent[d] + 1 /\ \A e \in Dirs : e # d => sent'[e] = sent[e]
<1> DEFINE w == wire[d][1]
           q == Append(w, sent[d] + 1)
<1>1. 1 \in 1..3 /\ w \in Seq(Chunks) /\ Len(w) < Window /\ sent[d] \in Nat /\ sent[d] + 1 \in Chunks
  BY TypesKept DEF Send, WireOK, Chunks
<1>2. q \in Seq(Chunks) /\ Len(q) = Len(w) + 1 /\ Len(w) \in Nat
  BY <1>1, AppendProperties, LenProperties
<1>3. WireStep(d, 1, q)
  BY <1>1, TypesKept DEF Send, WireStep, WireOK
<1>4. sent' = [sent EXCEPT ![d] = sent[d] + 1]
  BY DEF Send
<1>5. sent[d] < MaxSent(d) /\ MaxSent(d) \in Nat
  BY TunnelAssumption DEF Send, MaxSent
<1>6. wire'[d][1] = q => wire'[d][1] = Append(wire[d][1], sent[d] + 1)
  OBVIOUS
<1> HIDE DEF w, q
<1>7. Len(q) <= Window
  <2> DEFINE m == Len(w)
             n == Len(q)
  <2>1. m \in Nat /\ n = m + 1 /\ m < Window /\ Window \in Nat
    BY <1>1, <1>2, TunnelAssumption
  <2> HIDE DEF m, n
  <2>2. n <= Window
    BY <2>1
  <2> QED BY <2>2 DEF n
<1>8. /\ WireOK(wire') /\ wire'[d][1] = q
      /\ \A e \in Dirs, j \in 1..3 : e # d \/ j # 1 => wire'[e][j] = wire[e][j]
  BY <1>1, <1>2, <1>3, <1>7, WireSet, TypesKept
<1>9. /\ sent' \in [Dirs -> Nat] /\ \A e \in Dirs : sent'[e] <= MaxSent(e)
      /\ sent'[d] = sent[d] + 1 /\ \A e \in Dirs : e # d => sent'[e] = sent[e]
  BY <1>1, <1>4, <1>5, TypesKept
<1>10. /\ UNCHANGED <<tls, pc, answer, cut, loop, buf, pipelined, got>>
       /\ faults' \subseteq {"timeout", "spoke"}
  BY TypesKept DEF Send
<1>11. TypesNext
  BY <1>8, <1>9, <1>10, TypesKept DEF TypesNext
<1> QED BY <1>6, <1>8, <1>9, <1>11

LEMMA ReceiveDoes ==
    ASSUME TypeOK, NEW d \in Dirs, Receive(d)
    PROVE  /\ TypesNext
           /\ wire'[d][3] = Tail(wire[d][3])
           /\ \A e \in Dirs, j \in 1..3 : e # d \/ j # 3 => wire'[e][j] = wire[e][j]
           /\ got'[d] = Append(got[d], Head(wire[d][3]))
           /\ \A e \in Dirs : e # d => got'[e] = got[e]
<1>1. /\ WireOK(wire') /\ wire'[d][3] = Tail(wire[d][3])
      /\ Head(wire[d][3]) \in Chunks
      /\ \A e \in Dirs, j \in 1..3 : e # d \/ j # 3 => wire'[e][j] = wire[e][j]
  <2>1. wire[d][3] # <<>> /\ TailStep(wire', d, 3) /\ 3 \in 1..3
    BY DEF Receive, TailStep
  <2> QED BY <2>1, TailOK
<1>2. /\ got' \in [Dirs -> Seq(Chunks)]
      /\ got'[d] = Append(got[d], Head(wire[d][3]))
      /\ \A e \in Dirs : e # d => got'[e] = got[e]
  <2>1. Append(got[d], Head(wire[d][3])) \in Seq(Chunks)
    BY <1>1, TypesKept, AppendProperties
  <2> QED BY <2>1, TypesKept DEF Receive
<1>3. TypesNext
  BY <1>1, <1>2, TypesKept DEF TypesNext, Receive
<1> QED BY <1>1, <1>2, <1>3

\* Two wires at once.
TwoStep(w, d, k, q, e, j) == w = [wire EXCEPT ![d][k] = q, ![e][j] = <<>>]
TwoDiffer(w, d, k, q, e, j) ==
    /\ w[d][k] = q /\ w[e][j] = <<>>
    /\ \A f \in Dirs, i \in 1..3 :
          (f # d \/ i # k) /\ (f # e \/ i # j) => w[f][i] = wire[f][i]

LEMMA TwoWires ==
    ASSUME TypeOK, NEW d \in Dirs, NEW k \in 1..3, NEW e \in Dirs, NEW j \in 1..3, d # e,
           NEW q \in Prefixes(wire[d][k]), NEW w, TwoStep(w, d, k, q, e, j)
    PROVE  WireOK(w) /\ TwoDiffer(w, d, k, q, e, j)
<1>1. q \in Seq(Chunks) /\ Len(q) <= Window
  <2>1. wire[d][k] \in Seq(Chunks) /\ Len(wire[d][k]) <= Window
    BY TypesKept DEF WireOK
  <2>2. q \in Seq(Chunks) /\ Len(q) <= Len(wire[d][k])
    BY <2>1, PrefixIs
  <2> DEFINE m == Len(wire[d][k])
             n == Len(q)
  <2>3. m \in Nat /\ n \in Nat /\ n <= m /\ m <= Window /\ Window \in Nat
    BY <2>1, <2>2, LenProperties, TunnelAssumption
  <2> HIDE DEF m, n
  <2>4. n <= Window
    BY <2>3
  <2> QED BY <2>2, <2>4 DEF n
<1>2. <<>> \in Seq(Chunks) /\ Len(<<>>) <= Window
  BY EmptySeq, TunnelAssumption
<1>3. w[d][k] = q /\ w[e][j] = <<>>
  BY TypesKept DEF WireOK, TwoStep
<1>4. w \in [Dirs -> [1..3 -> Seq(Chunks)]]
  BY <1>1, <1>2, TypesKept DEF WireOK, TwoStep
<1>5. \A f \in Dirs, i \in 1..3 :
         (f # d \/ i # k) /\ (f # e \/ i # j) => w[f][i] = wire[f][i]
  BY TypesKept DEF WireOK, TwoStep
<1>6. WireOK(w)
  BY <1>1, <1>2, <1>3, <1>4, <1>5, TypesKept DEF WireOK
<1> QED BY <1>3, <1>5, <1>6 DEF TwoDiffer

LEMMA LateTimeoutDoes ==
    ASSUME TypeOK, NEW s \in Sides, LateTimeout(s)
    PROVE  /\ TypesNext
           /\ wire'["up"][Hop(s, "up") + 1] \in Prefixes(wire["up"][Hop(s, "up") + 1])
           /\ wire'["down"][Hop(s, "down")] = <<>>
           /\ \A f \in Dirs, i \in 1..3 :
                 /\ f # "up" \/ i # Hop(s, "up") + 1
                 /\ f # "down" \/ i # Hop(s, "down")
                 => wire'[f][i] = wire[f][i]
<1>1. "up" \in Dirs /\ "down" \in Dirs /\ "up" # "down"
      /\ Hop(s, "up") + 1 \in 1..3 /\ Hop(s, "down") \in 1..3
  BY Hops12 DEF Dirs
<1>2. PICK q \in Prefixes(wire["up"][Hop(s, "up") + 1]) :
          wire' = [wire EXCEPT !["up"][Hop(s, "up") + 1] = q, !["down"][Hop(s, "down")] = <<>>]
  BY DEF LateTimeout
<1>3. /\ WireOK(wire') /\ wire'["up"][Hop(s, "up") + 1] = q
      /\ wire'["down"][Hop(s, "down")] = <<>>
      /\ \A f \in Dirs, i \in 1..3 :
            (f # "up" \/ i # Hop(s, "up") + 1) /\ (f # "down" \/ i # Hop(s, "down"))
            => wire'[f][i] = wire[f][i]
  <2> DEFINE k == Hop(s, "up") + 1
             j == Hop(s, "down")
  <2>1. TwoStep(wire', "up", k, q, "down", j) /\ k \in 1..3 /\ j \in 1..3 /\ q \in Prefixes(wire["up"][k])
    BY <1>1, <1>2 DEF TwoStep
  <2> HIDE DEF k, j
  <2>2. /\ WireOK(wire') /\ wire'["up"][k] = q /\ wire'["down"][j] = <<>>
        /\ \A f \in Dirs, i \in 1..3 :
              (f # "up" \/ i # k) /\ (f # "down" \/ i # j) => wire'[f][i] = wire[f][i]
    <3>1. WireOK(wire') /\ TwoDiffer(wire', "up", k, q, "down", j)
      BY <1>1, <2>1, TwoWires
    <3> QED BY <3>1 DEF TwoDiffer
  <2> QED BY <2>2 DEF k, j
<1>4. TypesNext
  BY <1>3, TypesKept DEF TypesNext, LateTimeout
<1> QED BY <1>2, <1>3, <1>4

Other(d) == IF d = "up" THEN "down" ELSE "up"

LEMMA LeaveDoes ==
    ASSUME TypeOK, NEW d \in Dirs, Leave(d)
    PROVE  /\ TypesNext
           /\ pc[Source(d)] # "gone" /\ Present(d)
           /\ \A n \in Nodes : n # Source(d) => pc'[n] = pc[n]
           /\ \/ pc[Source(d)] = "open" /\ pc'[Source(d)] = "half" /\ UNCHANGED wire
              \/ /\ pc'[Source(d)] = "gone"
                 /\ wire'[d][1] \in Prefixes(wire[d][1]) /\ wire'[Other(d)][3] = <<>>
                 /\ \A f \in Dirs, i \in 1..3 :
                       /\ f # d \/ i # 1
                       /\ f # Other(d) \/ i # 3
                       => wire'[f][i] = wire[f][i]
<1>1. Source(d) \in {"client", "target"} /\ Other(d) \in Dirs /\ d # Other(d)
      /\ \A o \in Dirs \ {d} : o = Other(d)
  BY Ends DEF Source, Dirs, Other
<1>2. CASE pc' = [pc EXCEPT ![Source(d)] = "half"] /\ pc[Source(d)] = "open" /\ UNCHANGED wire
  <2>1. /\ pc' \in Stands /\ pc'[Source(d)] = "half"
        /\ \A n \in Nodes : n # Source(d) => pc'[n] = pc[n]
    BY <1>1, <1>2, TypesKept DEF Stands, Nodes
  <2>2. TypesNext
    BY <1>2, <2>1, TypesKept DEF TypesNext, Leave
  <2> QED BY <1>2, <2>1, <2>2 DEF Leave
<1>3. ASSUME pc' = [pc EXCEPT ![Source(d)] = "gone"],
             NEW q \in Prefixes(wire[d][1]), NEW o \in Dirs \ {d},
             TwoStep(wire', d, 1, q, o, 3)
      PROVE  /\ TypesNext
             /\ \A n \in Nodes : n # Source(d) => pc'[n] = pc[n]
             /\ pc'[Source(d)] = "gone"
             /\ wire'[d][1] \in Prefixes(wire[d][1]) /\ wire'[Other(d)][3] = <<>>
             /\ \A f \in Dirs, i \in 1..3 :
                   (f # d \/ i # 1) /\ (f # Other(d) \/ i # 3) => wire'[f][i] = wire[f][i]
  <2>1. /\ pc' \in Stands /\ pc'[Source(d)] = "gone"
        /\ \A n \in Nodes : n # Source(d) => pc'[n] = pc[n]
    BY <1>1, <1>3, TypesKept DEF Stands, Nodes
  <2>2. /\ WireOK(wire') /\ wire'[d][1] = q /\ wire'[Other(d)][3] = <<>>
        /\ \A f \in Dirs, i \in 1..3 :
              (f # d \/ i # 1) /\ (f # Other(d) \/ i # 3) => wire'[f][i] = wire[f][i]
    <3>1. o = Other(d) /\ 1 \in 1..3 /\ 3 \in 1..3
      BY <1>1
    <3>2. TwoStep(wire', d, 1, q, Other(d), 3)
      BY <1>3, <3>1
    <3>3. WireOK(wire') /\ TwoDiffer(wire', d, 1, q, Other(d), 3)
      BY <1>1, <3>1, <3>2, TwoWires
    <3> QED BY <3>3 DEF TwoDiffer
  <2>3. TypesNext
    BY <2>1, <2>2, TypesKept DEF TypesNext, Leave
  <2> QED BY <2>1, <2>2, <2>3
<1> QED BY <1>2, <1>3 DEF Leave, TwoStep

-----------------------------------------------------------------------------
(* The steps, sorted by what they do.                                      *)

\* What the loops and the arrays hold, by where their sides stand.
LoopInv ==
    \A d \in Dirs, k \in Hops :
        /\ loop[d][k] # "off" => Relaying(Reader(d, k))
        /\ loop[d][k] = "read" => buf[Array(d, k)] = <<>>

\* Why a side gives up: a timer of the open, a neighbour that has ended, a
\* refusal, its own TCPClient closed, or an answer spoilt by what came along.
Reason(s) ==
    \/ faults' # {}
    \/ \E n \in Nodes \ {s} : Ended(n)
    \/ s = "server" /\ (answer # Granted \/ pc["server"] = "http")
    \/ s \in cut
    \/ /\ pc["agent"] = "opening" /\ ~tls
       /\ \E n \in 1..Len(wire["down"][2]) : n > 1

\* What it may have written or read on the way out.
LastWords(s, w) ==
    \/ w = wire
    \/ CanWrite("down", Hop(s, "down")) /\ w = Written("down", Hop(s, "down"))
    \/ s = "server" /\ pc["server"] = "http" /\ w = Behind

Closes(s, w) ==
    /\ Shutdown(s, w) /\ WireOK(w) /\ Reason(s) /\ LastWords(s, w)
    /\ pc[s] # "closed" /\ (s = "server" => pc["server"] # "dialing")
    /\ faults \subseteq faults' /\ faults' \subseteq {"timeout", "spoke"}

LEMMA ClosesAlone ==
    ASSUME TypeOK, NEW s \in Sides, Shutdown(s, wire), Reason(s),
           pc[s] # "closed", s = "server" => pc["server"] # "dialing",
           UNCHANGED faults
    PROVE  Closes(s, wire)
BY TypesKept DEF Closes, LastWords

Opens == Dial \/ AnswerGoes \/ AnswerRead \/ ReplyGoes \/ RawRead

LEMMA Steps ==
    ASSUME TypeOK, LoopInv, [Next]_vars
    PROVE  \/ UNCHANGED vars
           \/ Opens
           \/ \E s \in Sides : \E w : Closes(s, w)
           \/ \E s \in Sides : LateTimeout(s)
           \/ \E d \in Dirs : End(d)
           \/ \E d \in Dirs, k \in Hops : LoopReads(d, k) \/ Passes(d, k)
<1> DEFINE Closing == \E s \in Sides : \E w : Closes(s, w)
<1>0. "agent" \in Sides /\ "server" \in Sides /\ "down" \in Dirs /\ 1 \in Hops /\ 2 \in Hops
  BY DEF Sides, Dirs, Hops
<1> HIDE DEF Closing
<1>1. ASSUME NEW s \in Sides, Closes(s, wire) PROVE Closing
  BY <1>1 DEF Closing
<1>2. CASE AgentTimeout
  <2>1. Closes("agent", wire)
    BY <1>0, <1>2, TypesKept DEF AgentTimeout, Closes, Reason, LastWords
  <2> QED BY <1>0, <1>1, <2>1 DEF Closing
<1>3. CASE AnswerMissing
  <2>1. Reason("agent")
    BY <1>3 DEF AnswerMissing, Reason, Nodes
  <2>2. Closes("agent", wire)
    BY <1>0, <1>3, <2>1, ClosesAlone DEF AnswerMissing
  <2> QED BY <1>0, <1>1, <2>2 DEF Closing
<1>4. CASE RawEnds
  <2>1. Reason("server") /\ pc["server"] # "dialing"
    BY <1>4 DEF RawEnds, Reason
  <2>2. Closes("server", wire)
    BY <1>0, <1>4, <2>1, ClosesAlone DEF RawEnds
  <2> QED BY <1>0, <1>1, <2>2 DEF Closing
<1>5. CASE AnswerSpoilt
  <2>1. Reason("agent")
    BY <1>5 DEF AnswerSpoilt, Reason
  <2>2. Closes("agent", wire)
    BY <1>0, <1>5, <2>1, ClosesAlone DEF AnswerSpoilt
  <2> QED BY <1>0, <1>1, <2>2 DEF Closing
<1>6. CASE AnswerFails
  <2>1. WireOK(Written("down", 1)) /\ Hop("server", "down") = 1
    BY <1>0, <1>6, WrittenOK, Ends DEF AnswerFails
  <2>2. Reason("server")
    BY <1>6 DEF AnswerFails, Reason, IsOpen, Deaf, Ended, Nodes
  <2>3. Closes("server", Written("down", 1))
    BY <1>6, <2>1, <2>2, TypesKept DEF AnswerFails, Closes, LastWords
  <2> QED BY <1>0, <2>3 DEF Closing
<1>7. CASE ReplyFails
  <2>1. WireOK(Written("down", 2)) /\ Hop("agent", "down") = 2
    BY <1>0, <1>7, WrittenOK, Ends DEF ReplyFails
  <2>2. Reason("agent")
    BY <1>7 DEF ReplyFails, Reason, IsOpen, Deaf, Ended, Nodes
  <2>3. Closes("agent", Written("down", 2))
    BY <1>7, <2>1, <2>2, TypesKept DEF ReplyFails, Closes, LastWords
  <2> QED BY <1>0, <2>3 DEF Closing
<1>8. CASE RawFails
  <2>1. Reason("server") /\ WireOK(Behind)
    BY <1>8, RawFailsDoes DEF RawFails, Reason
  <2>2. Closes("server", Behind)
    BY <1>8, <2>1, TypesKept DEF RawFails, Closes, LastWords
  <2> QED BY <1>0, <2>2 DEF Closing
<1>9. ASSUME NEW s \in Sides, OnTimeout(s) PROVE Closing
  <2>1. s = "server" /\ answer # Granted /\ pc["server"] # "dialing"
    BY <1>9, Standing DEF OnTimeout, Connect, Sides
  <2>2. Closes(s, wire)
    BY <1>9, <2>1, ClosesAlone DEF OnTimeout, Reason
  <2> QED BY <1>1, <2>2
<1>10. ASSUME NEW s \in Sides, Aborted(s) PROVE Closing
  <2>1. Reason(s) /\ pc[s] # "closed" /\ (s = "server" => pc["server"] # "dialing")
    BY <1>10 DEF Aborted, Relaying, IsOpen, Reason
  <2>2. Closes(s, wire)
    BY <1>10, <2>1, ClosesAlone DEF Aborted
  <2> QED BY <1>1, <2>2
<1>11. ASSUME NEW d \in Dirs, NEW k \in Hops, LoopWrites(d, k), ~Passes(d, k) PROVE Closing
  <2> DEFINE s == Reader(d, k)
  <2>1. s \in Sides /\ Reader(d, k + 1) \in Nodes \ {s}
    BY ReaderSide
  <2>2. Deaf(Reader(d, k + 1)) /\ Shutdown(s, wire) /\ UNCHANGED faults /\ loop[d][k] # "off"
    BY <1>11 DEF LoopWrites, Passes
  <2>3. Reason(s) /\ pc[s] = "relay"
    BY <2>1, <2>2 DEF Reason, Deaf, Ended, LoopInv, Relaying
  <2>4. Closes(s, wire)
    <3> HIDE DEF s
    <3> QED BY <2>1, <2>2, <2>3, ClosesAlone
  <2> QED BY <1>1, <2>1, <2>4
<1>12. ASSUME NEW d \in Dirs, NEW k \in Hops, LoopEnds(d, k) PROVE Closing
  <2> DEFINE s == Reader(d, k)
  <2>1. s \in Sides /\ Writer(d, k) \in Nodes \ {s}
    BY ReaderSide, Ends DEF Nodes, Dirs, Hops
  <2>2. Ended(Writer(d, k)) /\ Shutdown(s, wire) /\ UNCHANGED faults /\ loop[d][k] # "off"
    BY <1>12 DEF LoopEnds
  <2>3. Reason(s) /\ pc[s] = "relay"
    BY <2>1, <2>2 DEF Reason, LoopInv, Relaying
  <2>4. Closes(s, wire)
    <3> HIDE DEF s
    <3> QED BY <2>1, <2>2, <2>3, ClosesAlone
  <2> QED BY <1>1, <2>1, <2>4
<1>13. CASE UNCHANGED vars
  BY <1>13
<1>14. CASE AgentOpens
  BY <1>2, <1>3, <1>5, <1>7, <1>14, ReadAnswerIs, WriteReplyIs DEF AgentOpens, Opens, Closing
<1>15. CASE ServerOpens
  BY <1>4, <1>6, <1>8, <1>15, WriteAnswerIs, ReadRawIs DEF ServerOpens, Opens, Closing
<1>16. CASE \E s \in Sides : OnTimeout(s) \/ LateTimeout(s) \/ Aborted(s)
  BY <1>9, <1>10, <1>16 DEF Closing
<1>17. CASE \E d \in Dirs : End(d)
  BY <1>17
<1>18. CASE \E d \in Dirs, k \in Hops : Relay(d, k)
  BY <1>11, <1>12, <1>18 DEF Relay, Closing
<1> QED BY <1>13, <1>14, <1>15, <1>16, <1>17, <1>18 DEF Next

-----------------------------------------------------------------------------
(* The inductive invariant behind types, grant and refinement.             *)

\* Where the server stands, by what it made of the CONNECT.
ServerInv ==
    /\ pc["server"] = "dialing" <=> answer = NoAnswer
    /\ answer = Refused => pc["server"] \in {"answering", "http", "closed"}
    /\ answer = Granted => pc["server"] \in {"answering", "relay", "closed"}

\* Before the server has dialled nothing has come past it.
QuietInv ==
    answer = NoAnswer =>
        /\ cut = {} /\ pc["agent"] \in {"opening", "closed"} /\ pc["target"] = "open"
        /\ \A k \in 1..3 : wire["down"][k] = <<>>
        /\ \A k \in Hops : buf[Array("down", k)] = <<>>
        /\ wire["up"][3] = <<>>
        /\ sent["down"] = 0 /\ \A d \in Dirs : got[d] = <<>>

\* The arrays of a side that does not relay yet.
ArraysInv ==
    /\ pc["agent"] = "opening" => "agent" \notin cut /\ buf[Array("down", 2)] = <<>>
    /\ pc["agent"] \in {"opening", "reply"} => buf[Array("up", 1)] = <<>>
    /\ pc["server"] \in {"dialing", "answering", "http"} => buf[Array("up", 2)] = <<>>

TunnelInv == TypeOK /\ LoopInv /\ ServerInv /\ QuietInv /\ ArraysInv

LEMMA TunnelInit == Init => TunnelInv
<1> SUFFICES ASSUME Init PROVE TunnelInv
  OBVIOUS
<1>1. /\ tls \in BOOLEAN
      /\ pc = [client |-> "open", agent |-> "opening", server |-> "dialing", target |-> "open"]
      /\ answer = NoAnswer /\ cut = {} /\ faults = {}
      /\ loop = [d \in Dirs |-> [k \in Hops |-> "off"]]
      /\ buf = [a \in Arrays |-> <<>>]
      /\ wire = [d \in Dirs |-> [k \in 1..3 |-> <<>>]]
      /\ pipelined \in 0..1 /\ pipelined <= MaxUp
      /\ sent = [up |-> pipelined, down |-> 0]
      /\ got = [d \in Dirs |-> <<>>]
  BY DEF Init
<1>2. <<>> \in Seq(Chunks) /\ Len(<<>>) = 0
  BY EmptySeq
<1>3. sent \in [Dirs -> Nat] /\ \A d \in Dirs : sent[d] <= MaxSent(d)
  BY <1>1, TunnelAssumption DEF Dirs, MaxSent
<1>4. pc \in Stands
  BY <1>1 DEF Stands
<1>5. wire \in [Dirs -> [1..3 -> Seq(Chunks)]] /\ got \in [Dirs -> Seq(Chunks)]
      /\ buf \in [Arrays -> Seq(Chunks)] /\ loop \in [Dirs -> [Hops -> {"off", "read", "write"}]]
  BY <1>1, <1>2
<1>6. /\ \A a \in Arrays : Len(buf[a]) <= 1
      /\ \A d \in Dirs, k \in 1..3 : Len(wire[d][k]) <= Window
  BY <1>1, <1>2, TunnelAssumption
<1>7. TypeOK
  BY <1>1, <1>3, <1>4, <1>5, <1>6 DEF TypeOK
<1>8. LoopInv
  BY <1>1 DEF LoopInv
<1>9. ServerInv
  BY <1>1 DEF ServerInv, NoAnswer, Granted, Refused
<1>10. QuietInv
  <2>1. \A d \in Dirs, k \in Hops : Array(d, k) \in Arrays
    BY DEF Array, Arrays
  <2>2. "up" \in Dirs /\ "down" \in Dirs /\ sent["down"] = 0
    BY <1>1 DEF Dirs
  <2>3. /\ \A k \in 1..3 : wire["down"][k] = <<>>
        /\ \A k \in Hops : buf[Array("down", k)] = <<>>
        /\ wire["up"][3] = <<>>
    BY <1>1, <2>1, <2>2
  <2> QED BY <1>1, <2>2, <2>3 DEF QuietInv
<1>11. ArraysInv
  <2>1. \A d \in Dirs, k \in Hops : Array(d, k) \in Arrays
    BY DEF Array, Arrays
  <2>2. \A d \in Dirs, k \in Hops : buf[Array(d, k)] = <<>>
    BY <1>1, <2>1
  <2> QED BY <1>1, <2>2 DEF ArraysInv, Dirs, Hops
<1> QED BY <1>7, <1>8, <1>9, <1>10, <1>11 DEF TunnelInv

\* A side that shuts down only empties what there is.
LEMMA ClosesKeeps ==
    ASSUME TunnelInv, NEW s \in Sides, NEW w, Closes(s, w)
    PROVE  TunnelInv'
<1> USE DEF TunnelInv
<1>1. Shutdown(s, w) /\ WireOK(w) /\ (s = "server" => pc["server"] # "dialing")
  BY DEF Closes
<1>2. /\ pc' \in Stands /\ pc'[s] = "closed"
      /\ \A n \in Nodes : n # s => pc'[n] = pc[n]
      /\ WireOK(wire')
      /\ \A d \in Dirs, k \in 1..3 : wire'[d][k] \in Prefixes(w[d][k])
      /\ loop' \in [Dirs -> [Hops -> {"off", "read", "write"}]]
      /\ \A d \in Dirs, k \in Hops :
             loop'[d][k] = IF k = Hop(s, d) THEN "off" ELSE loop[d][k]
      /\ buf' \in [Arrays -> Seq(Chunks)]
      /\ \A a \in Arrays : Len(buf'[a]) <= 1
      /\ \A d \in Dirs, k \in Hops :
             buf'[Array(d, k)] = IF k = Hop(s, d) THEN <<>> ELSE buf[Array(d, k)]
      /\ UNCHANGED <<tls, answer, cut, sent, pipelined, got>>
  BY <1>1, ShutdownLeaves
<1>3. TypesNext
  BY <1>2, TypesKept DEF TypesNext, Closes
<1>4. LoopInv'
  <2> SUFFICES ASSUME NEW d \in Dirs, NEW k \in Hops
               PROVE  /\ loop'[d][k] # "off" => pc'[Reader(d, k)] = "relay"
                      /\ loop'[d][k] = "read" => buf'[Array(d, k)] = <<>>
    BY DEF LoopInv, Relaying, Reader, Array
  <2>1. CASE k = Hop(s, d)
    BY <1>2, <2>1
  <2>2. CASE k # Hop(s, d)
    <3>1. Reader(d, k) # s /\ Reader(d, k) \in Nodes
      BY <2>2, Hops12, ReaderSide DEF Sides, Nodes
    <3>2. loop'[d][k] = loop[d][k] /\ buf'[Array(d, k)] = buf[Array(d, k)] /\ pc'[Reader(d, k)] = pc[Reader(d, k)]
      BY <1>2, <2>2, <3>1
    <3> QED BY <3>2 DEF LoopInv, Relaying
  <2> QED BY <2>1, <2>2
<1>5. /\ pc'["agent"] = pc["agent"] \/ pc'["agent"] = "closed"
      /\ pc'["server"] = pc["server"] \/ (pc'["server"] = "closed" /\ pc["server"] # "dialing")
  BY <1>1, <1>2 DEF Nodes, Sides
<1>6. ServerInv'
  BY <1>2, <1>5 DEF ServerInv
<1>7. \A d \in Dirs, k \in Hops : buf[Array(d, k)] = <<>> => buf'[Array(d, k)] = <<>>
  BY <1>2
<1>8. ArraysInv'
  <2>1. UNCHANGED cut /\ "up" \in Dirs /\ "down" \in Dirs /\ 1 \in Hops /\ 2 \in Hops
    BY <1>2 DEF Dirs, Hops
  <2> QED BY <1>5, <1>7, <2>1 DEF ArraysInv, Array
<1>9. QuietInv'
  <2> SUFFICES ASSUME answer = NoAnswer PROVE QuietInv'
    BY <1>2 DEF QuietInv
  <2>1. s = "agent" /\ w = wire
    <3>1. pc["server"] = "dialing" /\ s = "agent"
      BY <1>1 DEF ServerInv, Sides
    <3>2. ASSUME w = Written("down", 2), CanWrite("down", 2) PROVE w = wire
      <4>1. buf[Array("down", 2)] = <<>> /\ "down" \in Dirs /\ 2 \in Hops
        BY DEF QuietInv, Dirs, Hops
      <4>2. wire["down"][3] \o Held("down", 2) = wire["down"][3]
        <5>1. wire["down"][3] \in Seq(Chunks) /\ Held("down", 2) = <<>>
          BY <4>1, TypesKept DEF Held, WireOK
        <5> QED BY <5>1, ConcatEmptySeq
      <4>3. [wire EXCEPT !["down"][3] = wire["down"][3]] = wire
        BY <4>1, TypesKept DEF WireOK
      <4> QED BY <3>2, <4>2, <4>3 DEF Written
    <3> QED BY <3>1, <3>2, Ends DEF Closes, LastWords
  <2>2. \A d \in Dirs, k \in 1..3 : wire[d][k] = <<>> => wire'[d][k] = <<>>
    <3> SUFFICES ASSUME NEW d \in Dirs, NEW k \in 1..3, wire[d][k] = <<>> PROVE wire'[d][k] = <<>>
      OBVIOUS
    <3>1. wire'[d][k] \in Prefixes(<<>>)
      BY <1>2, <2>1
    <3>2. <<>> \in Seq(Chunks) /\ Len(<<>>) = 0
      BY EmptySeq
    <3>3. wire'[d][k] \in Seq(Chunks) /\ Len(wire'[d][k]) <= 0
      BY <3>1, <3>2, PrefixIs
    <3> QED BY <3>3, EmptySeq
  <2>3. "up" \in Dirs /\ "down" \in Dirs /\ 3 \in 1..3
    BY DEF Dirs
  <2>4. /\ \A k \in 1..3 : wire'["down"][k] = <<>>
        /\ \A k \in Hops : buf'[Array("down", k)] = <<>>
        /\ wire'["up"][3] = <<>>
    BY <1>7, <2>2, <2>3 DEF QuietInv
  <2>5. /\ cut' = {} /\ pc'["agent"] \in {"opening", "closed"} /\ pc'["target"] = "open"
        /\ sent'["down"] = 0 /\ \A d \in Dirs : got'[d] = <<>>
    BY <1>2, <1>5 DEF QuietInv, Nodes, Sides
  <2> QED BY <2>4, <2>5 DEF QuietInv, Array
<1> QED BY <1>3, <1>4, <1>6, <1>8, <1>9, TypesEnough

\* LoopInv, ServerInv and ArraysInv look at pc, answer, cut, loop and buf only.
LEMMA ControlKept ==
    ASSUME TunnelInv, UNCHANGED <<pc, answer, cut, loop, buf>>
    PROVE  LoopInv' /\ ServerInv' /\ ArraysInv'
BY DEF TunnelInv, LoopInv, ServerInv, ArraysInv, Array, Relaying, Reader

LEMMA AnswerGoesKeeps == ASSUME TunnelInv, AnswerGoes PROVE TunnelInv'
<1> USE DEF TunnelInv
<1>0. "up" \in Dirs /\ "down" \in Dirs /\ 1 \in Hops /\ 2 \in Hops
  BY DEF Dirs, Hops
<1>1. pc["server"] = "answering" /\ UNCHANGED <<answer, cut>> /\ answer # NoAnswer
  BY DEF AnswerGoes, ServerInv
<1>2. /\ TypesNext
      /\ pc'["server"] = IF answer = Granted THEN "relay" ELSE "http"
      /\ \A n \in Nodes : n # "server" => pc'[n] = pc[n]
      /\ buf'[Array("down", 1)] = <<>>
      /\ \A e \in Dirs, j \in Hops :
            e # "down" \/ j # 1 => buf'[Array(e, j)] = buf[Array(e, j)]
      /\ \A e \in Dirs, j \in Hops :
            \/ loop'[e][j] = loop[e][j]
            \/ answer = Granted /\ j = Hop("server", e) /\ loop'[e][j] = "read"
  BY AnswerGoesDoes
<1>3. pc'["agent"] = pc["agent"]
  BY <1>2 DEF Nodes
<1>4. ServerInv'
  BY <1>1, <1>2 DEF ServerInv, Granted, Refused, NoAnswer, TypesNext
<1>5. QuietInv'
  BY <1>1 DEF QuietInv
<1>6. ArraysInv'
  BY <1>0, <1>1, <1>2, <1>3 DEF ArraysInv, Array
<1>7. LoopInv'
  <2> SUFFICES ASSUME NEW d \in Dirs, NEW k \in Hops
               PROVE  /\ loop'[d][k] # "off" => pc'[Reader(d, k)] = "relay"
                      /\ loop'[d][k] = "read" => buf'[Array(d, k)] = <<>>
    BY DEF LoopInv, Relaying, Reader, Array
  <2>1. Reader(d, k) \in Nodes
    BY ReaderSide DEF Sides, Nodes
  <2>2. CASE k = Hop("server", d)
    <3>1. Reader(d, k) = "server" /\ loop[d][k] = "off"
      <4>1. Reader(d, k) = "server"
        BY <2>2, Hops12 DEF Sides
      <4> QED BY <1>1, <4>1 DEF LoopInv, Relaying
    <3>2. buf'[Array(d, k)] = <<>>
      BY <1>0, <1>1, <1>2, <2>2, Ends DEF ArraysInv, Dirs
    <3> QED BY <1>2, <3>1, <3>2
  <2>3. CASE k # Hop("server", d)
    <3>1. Reader(d, k) # "server" /\ loop'[d][k] = loop[d][k]
      BY <1>2, <2>3, Hops12, ReaderSide DEF Sides
    <3>2. pc'[Reader(d, k)] = pc[Reader(d, k)]
      BY <1>2, <2>1, <3>1
    <3>3. d # "down" \/ k # 1
      BY <2>3, Ends
    <3> QED BY <1>2, <3>1, <3>2, <3>3 DEF LoopInv, Relaying
  <2> QED BY <2>2, <2>3
<1> QED BY <1>2, <1>4, <1>5, <1>6, <1>7, TypesEnough

LEMMA AnswerReadKeeps == ASSUME TunnelInv, AnswerRead PROVE TunnelInv'
<1> USE DEF TunnelInv
<1>0. "up" \in Dirs /\ "down" \in Dirs /\ 1 \in Hops /\ 2 \in Hops
  BY DEF Dirs, Hops
<1>1. /\ pc["agent"] = "opening" /\ UNCHANGED <<answer, cut, loop, sent, got>>
      /\ answer # NoAnswer
  BY DEF AnswerRead, QuietInv
<1>2. /\ TypesNext
      /\ pc'["agent"] = "reply"
      /\ \A n \in Nodes : n # "agent" => pc'[n] = pc[n]
      /\ \A e \in Dirs, j \in Hops :
            e # "down" \/ j # 2 => buf'[Array(e, j)] = buf[Array(e, j)]
  BY AnswerReadDoes
<1>3. pc'["server"] = pc["server"]
  BY <1>2 DEF Nodes
<1>4. ServerInv' /\ QuietInv'
  BY <1>1, <1>3 DEF ServerInv, QuietInv
<1>5. ArraysInv'
  BY <1>0, <1>1, <1>2, <1>3 DEF ArraysInv, Array
<1>6. LoopInv'
  <2> SUFFICES ASSUME NEW d \in Dirs, NEW k \in Hops
               PROVE  /\ loop'[d][k] # "off" => pc'[Reader(d, k)] = "relay"
                      /\ loop'[d][k] = "read" => buf'[Array(d, k)] = <<>>
    BY DEF LoopInv, Relaying, Reader, Array
  <2>1. Reader(d, k) \in Nodes
    BY ReaderSide DEF Sides, Nodes
  <2>2. CASE k = Hop("agent", d)
    <3>1. Reader(d, k) = "agent"
      BY <2>2, Hops12 DEF Sides
    <3> QED BY <1>1, <3>1 DEF LoopInv, Relaying
  <2>3. CASE k # Hop("agent", d)
    <3>1. Reader(d, k) # "agent" /\ (d # "down" \/ k # 2)
      BY <2>3, Ends, Hops12, ReaderSide DEF Sides
    <3>2. pc'[Reader(d, k)] = pc[Reader(d, k)]
      BY <1>2, <2>1, <3>1
    <3> QED BY <1>1, <1>2, <3>1, <3>2 DEF LoopInv, Relaying
  <2> QED BY <2>2, <2>3
<1> QED BY <1>2, <1>4, <1>5, <1>6, TypesEnough

LEMMA ReplyGoesKeeps == ASSUME TunnelInv, ReplyGoes PROVE TunnelInv'
<1> USE DEF TunnelInv
<1>0. "up" \in Dirs /\ "down" \in Dirs /\ 1 \in Hops /\ 2 \in Hops
  BY DEF Dirs, Hops
<1>1. /\ pc["agent"] = "reply" /\ UNCHANGED <<answer, cut, sent, got>>
      /\ answer # NoAnswer
  BY DEF ReplyGoes, QuietInv
<1>2. /\ TypesNext
      /\ pc'["agent"] = "relay"
      /\ \A n \in Nodes : n # "agent" => pc'[n] = pc[n]
      /\ buf'[Array("down", 2)] = <<>>
      /\ \A e \in Dirs, j \in Hops :
            e # "down" \/ j # 2 => buf'[Array(e, j)] = buf[Array(e, j)]
      /\ \A e \in Dirs, j \in Hops :
            loop'[e][j] = IF j = Hop("agent", e) THEN "read" ELSE loop[e][j]
  BY ReplyGoesDoes
<1>3. pc'["server"] = pc["server"]
  BY <1>2 DEF Nodes
<1>4. ServerInv' /\ QuietInv'
  BY <1>1, <1>3 DEF ServerInv, QuietInv
<1>5. ArraysInv'
  BY <1>0, <1>1, <1>2, <1>3 DEF ArraysInv, Array
<1>6. LoopInv'
  <2> SUFFICES ASSUME NEW d \in Dirs, NEW k \in Hops
               PROVE  /\ loop'[d][k] # "off" => pc'[Reader(d, k)] = "relay"
                      /\ loop'[d][k] = "read" => buf'[Array(d, k)] = <<>>
    BY DEF LoopInv, Relaying, Reader, Array
  <2>1. Reader(d, k) \in Nodes
    BY ReaderSide DEF Sides, Nodes
  <2>2. CASE k = Hop("agent", d)
    <3>1. Reader(d, k) = "agent"
      BY <2>2, Hops12 DEF Sides
    <3>2. buf'[Array(d, k)] = <<>>
      BY <1>0, <1>1, <1>2, <2>2, Ends DEF ArraysInv, Dirs
    <3> QED BY <1>2, <3>1, <3>2
  <2>3. CASE k # Hop("agent", d)
    <3>1. Reader(d, k) # "agent" /\ (d # "down" \/ k # 2)
      BY <2>3, Ends, Hops12, ReaderSide DEF Sides
    <3>2. pc'[Reader(d, k)] = pc[Reader(d, k)]
      BY <1>2, <2>1, <3>1
    <3> QED BY <1>2, <2>3, <3>1, <3>2 DEF LoopInv, Relaying
  <2> QED BY <2>2, <2>3
<1> QED BY <1>2, <1>4, <1>5, <1>6, TypesEnough

LEMMA RawReadKeeps == ASSUME TunnelInv, RawRead PROVE TunnelInv'
<1> USE DEF TunnelInv
<1>0. "up" \in Dirs /\ "down" \in Dirs /\ 1 \in Hops /\ 2 \in Hops
  BY DEF Dirs, Hops
<1>1. /\ pc["server"] = "http" /\ UNCHANGED <<answer, cut, loop, sent, got>>
      /\ answer = Refused
  BY DEF RawRead, ServerInv, TypeOK
<1>2. /\ TypesNext
      /\ pc'["server"] \in {"http", "answering"}
      /\ \A n \in Nodes : n # "server" => pc'[n] = pc[n]
      /\ \A e \in Dirs, j \in Hops :
            e # "down" \/ j # 1 => buf'[Array(e, j)] = buf[Array(e, j)]
  BY RawReadDoes
<1>3. pc'["agent"] = pc["agent"]
  BY <1>2 DEF Nodes
<1>4. ServerInv' /\ QuietInv'
  BY <1>1, <1>2 DEF ServerInv, QuietInv, Refused, NoAnswer, Granted
<1>5. ArraysInv'
  BY <1>0, <1>1, <1>2, <1>3 DEF ArraysInv, Array
<1>6. LoopInv'
  <2> SUFFICES ASSUME NEW d \in Dirs, NEW k \in Hops
               PROVE  /\ loop'[d][k] # "off" => pc'[Reader(d, k)] = "relay"
                      /\ loop'[d][k] = "read" => buf'[Array(d, k)] = <<>>
    BY DEF LoopInv, Relaying, Reader, Array
  <2>1. Reader(d, k) \in Nodes
    BY ReaderSide DEF Sides, Nodes
  <2>2. CASE Reader(d, k) = "server"
    BY <1>1, <2>2 DEF LoopInv, Relaying
  <2>3. CASE Reader(d, k) # "server"
    <3>1. pc'[Reader(d, k)] = pc[Reader(d, k)] /\ (d # "down" \/ k # 1)
      BY <1>2, <2>1, <2>3, Ends
    <3> QED BY <1>1, <1>2, <3>1 DEF LoopInv, Relaying
  <2> QED BY <2>2, <2>3
<1> QED BY <1>2, <1>4, <1>5, <1>6, TypesEnough

LEMMA DialKeeps == ASSUME TunnelInv, Dial PROVE TunnelInv'
<1> USE DEF TunnelInv
<1>0. "up" \in Dirs /\ "down" \in Dirs /\ 1 \in Hops /\ 2 \in Hops
  BY DEF Dirs, Hops
<1>1. /\ TypesNext
      /\ pc["server"] = "dialing" /\ pc'["server"] = "answering"
      /\ answer' \in {Granted, Refused}
      /\ \A n \in Nodes : n # "server" => pc'[n] = pc[n]
      /\ \A e \in Dirs, j \in Hops :
            e # "down" \/ j # 1 => buf'[Array(e, j)] = buf[Array(e, j)]
      /\ UNCHANGED <<cut, loop>>
  BY DialDoes
<1>2. pc'["agent"] = pc["agent"]
  BY <1>1 DEF Nodes
<1>3. ServerInv' /\ QuietInv'
  BY <1>1 DEF ServerInv, QuietInv, Refused, NoAnswer, Granted
<1>4. ArraysInv'
  BY <1>0, <1>1, <1>2 DEF ArraysInv, Array
<1>5. LoopInv'
  <2> SUFFICES ASSUME NEW d \in Dirs, NEW k \in Hops
               PROVE  /\ loop'[d][k] # "off" => pc'[Reader(d, k)] = "relay"
                      /\ loop'[d][k] = "read" => buf'[Array(d, k)] = <<>>
    BY DEF LoopInv, Relaying, Reader, Array
  <2>1. Reader(d, k) \in Nodes
    BY ReaderSide DEF Sides, Nodes
  <2>2. CASE Reader(d, k) = "server"
    BY <1>1, <2>2 DEF LoopInv, Relaying
  <2>3. CASE Reader(d, k) # "server"
    <3>1. pc'[Reader(d, k)] = pc[Reader(d, k)] /\ (d # "down" \/ k # 1)
      BY <1>1, <2>1, <2>3, Ends
    <3> QED BY <1>1, <3>1 DEF LoopInv, Relaying
  <2> QED BY <2>2, <2>3
<1> QED BY <1>1, <1>3, <1>4, <1>5, TypesEnough

LEMMA LateTimeoutKeeps ==
    ASSUME TunnelInv, NEW s \in Sides, LateTimeout(s) PROVE TunnelInv'
<1> USE DEF TunnelInv
<1>1. /\ UNCHANGED <<pc, answer, loop, buf, sent, got>> /\ cut' = cut \cup {s}
      /\ pc[s] \in {"reply", "answering", "relay"} /\ Connect(s)
  BY DEF LateTimeout
<1>2. TypesNext
  BY LateTimeoutDoes
<1>3. answer # NoAnswer
  BY <1>1 DEF Connect, QuietInv, Sides, Granted, NoAnswer
<1>4. LoopInv' /\ ServerInv' /\ QuietInv'
  BY <1>1, <1>3 DEF LoopInv, ServerInv, QuietInv, Array, Relaying, Reader
<1>5. ArraysInv'
  BY <1>1 DEF ArraysInv, Array
<1> QED BY <1>2, <1>4, <1>5, TypesEnough

LEMMA EndKeeps == ASSUME TunnelInv, NEW d \in Dirs, End(d) PROVE TunnelInv'
<1> USE DEF TunnelInv
<1>0. "up" \in Dirs /\ "down" \in Dirs /\ 3 \in 1..3 /\ 1 \in 1..3
  BY DEF Dirs
<1>1. CASE Send(d)
  <2>1. /\ TypesNext
        /\ \A e \in Dirs, j \in 1..3 : e # d \/ j # 1 => wire'[e][j] = wire[e][j]
        /\ \A e \in Dirs : e # d => sent'[e] = sent[e]
    BY <1>1, SendDoes
  <2>2. UNCHANGED <<pc, answer, cut, loop, buf, got>> /\ Present(d)
    BY <1>1 DEF Send
  <2>3. QuietInv'
    <3> SUFFICES ASSUME answer = NoAnswer PROVE QuietInv'
      BY <2>2 DEF QuietInv
    <3>1. d = "up"
      BY <2>2 DEF Present, NoAnswer, Granted, Dirs
    <3> QED BY <1>0, <2>1, <2>2, <3>1 DEF QuietInv, Array
  <2> QED BY <2>1, <2>2, <2>3, ControlKept, TypesEnough
<1>2. CASE Receive(d)
  <2>1. TypesNext
    BY <1>2, ReceiveDoes
  <2>2. UNCHANGED <<pc, answer, cut, loop, buf>> /\ wire[d][3] # <<>>
    BY <1>2 DEF Receive
  <2>3. QuietInv'
    BY <1>0, <2>2 DEF QuietInv, Dirs
  <2> QED BY <2>1, <2>2, <2>3, ControlKept, TypesEnough
<1>3. CASE Leave(d)
  <2>1. /\ TypesNext /\ Present(d)
        /\ \A n \in Nodes : n # Source(d) => pc'[n] = pc[n]
        /\ \/ UNCHANGED wire
           \/ /\ wire'[d][1] \in Prefixes(wire[d][1]) /\ wire'[Other(d)][3] = <<>>
              /\ \A f \in Dirs, i \in 1..3 :
                    (f # d \/ i # 1) /\ (f # Other(d) \/ i # 3) => wire'[f][i] = wire[f][i]
    BY <1>3, LeaveDoes
  <2>2. UNCHANGED <<answer, cut, loop, buf, sent, got>>
    BY <1>3 DEF Leave
  <2>3. pc'["agent"] = pc["agent"] /\ pc'["server"] = pc["server"]
    BY <2>1, Ends DEF Source, Nodes, Dirs
  <2>4. \A e \in Dirs, k \in Hops : pc'[Reader(e, k)] = pc[Reader(e, k)]
    BY <2>3, ReaderSide DEF Sides
  <2>5. LoopInv' /\ ServerInv' /\ ArraysInv'
    BY <2>2, <2>3, <2>4 DEF LoopInv, ServerInv, ArraysInv, Array, Relaying, Reader
  <2>6. QuietInv'
    <3> SUFFICES ASSUME answer = NoAnswer PROVE QuietInv'
      BY <2>2 DEF QuietInv
    <3>1. d = "up" /\ Other(d) = "down"
      BY <2>1 DEF Present, NoAnswer, Granted, Dirs, Other
    <3>2. /\ \A k \in 1..3 : wire'["down"][k] = <<>>
          /\ wire'["up"][3] = <<>>
      BY <1>0, <2>1, <3>1 DEF QuietInv
    <3>3. pc'["target"] = pc["target"]
      BY <2>1, <3>1, Ends DEF Source, Nodes
    <3> QED BY <2>2, <2>3, <3>2, <3>3 DEF QuietInv, Array
  <2> QED BY <2>1, <2>5, <2>6, TypesEnough
<1> QED BY <1>1, <1>2, <1>3 DEF End

LEMMA RelayKeeps ==
    ASSUME TunnelInv, NEW d \in Dirs, NEW k \in Hops, LoopReads(d, k) \/ Passes(d, k)
    PROVE  TunnelInv'
<1> USE DEF TunnelInv
<1>1. /\ TypesNext
      /\ loop'[d][k] = "read" => buf'[Array(d, k)] = <<>>
      /\ \A e \in Dirs, j \in Hops :
            e # d \/ j # k => buf'[Array(e, j)] = buf[Array(e, j)] /\ loop'[e][j] = loop[e][j]
  BY LoopReadsDoes, PassesDoes
<1>2. loop[d][k] # "off" /\ UNCHANGED <<pc, answer, cut>>
  BY DEF LoopReads, Passes
<1>3. pc[Reader(d, k)] = "relay"
  BY <1>2 DEF LoopInv, Relaying
<1>4. answer # NoAnswer
  <2>1. CASE Reader(d, k) = "agent"
    BY <1>3, <2>1 DEF QuietInv
  <2>2. CASE Reader(d, k) = "server"
    BY <1>3, <2>2 DEF ServerInv
  <2> QED BY <2>1, <2>2, ReaderSide DEF Sides
<1>5. LoopInv'
  <2> SUFFICES ASSUME NEW e \in Dirs, NEW j \in Hops
               PROVE  /\ loop'[e][j] # "off" => pc'[Reader(e, j)] = "relay"
                      /\ loop'[e][j] = "read" => buf'[Array(e, j)] = <<>>
    BY DEF LoopInv, Relaying, Reader, Array
  <2> QED BY <1>1, <1>2, <1>3 DEF LoopInv, Relaying
<1>6. ServerInv' /\ QuietInv'
  BY <1>2, <1>4 DEF ServerInv, QuietInv
<1>7. ArraysInv'
  <2>1. "up" \in Dirs /\ "down" \in Dirs /\ 1 \in Hops /\ 2 \in Hops
    BY DEF Dirs, Hops
  <2>2. pc["agent"] \in {"opening", "reply"} => Reader(d, k) # "agent"
    BY <1>3
  <2>3. pc["server"] \in {"dialing", "answering", "http"} => Reader(d, k) # "server"
    BY <1>3
  <2>4. pc["agent"] \in {"opening", "reply"} =>
           /\ buf'[Array("down", 2)] = buf[Array("down", 2)]
           /\ buf'[Array("up", 1)] = buf[Array("up", 1)]
    BY <1>1, <2>1, <2>2, Ends
  <2>5. pc["server"] \in {"dialing", "answering", "http"} =>
           buf'[Array("up", 2)] = buf[Array("up", 2)]
    BY <1>1, <2>1, <2>3, Ends
  <2> QED BY <1>2, <2>4, <2>5 DEF ArraysInv, Array
<1> QED BY <1>1, <1>5, <1>6, <1>7, TypesEnough

LEMMA TunnelNext == TunnelInv /\ [Next]_vars => TunnelInv'
<1> SUFFICES ASSUME TunnelInv, [Next]_vars PROVE TunnelInv'
  OBVIOUS
<1>1. CASE UNCHANGED vars
  <2>1. UNCHANGED <<tls, pc, answer, cut, loop, buf, wire, sent, pipelined, got, faults>>
    BY <1>1 DEF vars
  <2>2. TypesNext
    BY <2>1, TypesKept DEF TypesNext, TunnelInv
  <2>3. QuietInv'
    BY <2>1 DEF TunnelInv, QuietInv, Array
  <2> QED BY <2>1, <2>2, <2>3, ControlKept, TypesEnough DEF TunnelInv
<1>2. TypeOK /\ LoopInv
  BY DEF TunnelInv
<1> QED BY <1>1, <1>2, Steps, ClosesKeeps, AnswerGoesKeeps, AnswerReadKeeps, ReplyGoesKeeps,
           RawReadKeeps, DialKeeps, LateTimeoutKeeps, EndKeeps, RelayKeeps DEF Opens

\* Every variable has its type in every reachable state: no array, no wire and
\* no loop of the direct tunnel holds what the code could not store there.
THEOREM DirectTypesCorrect == Spec => []TypeOK
<1>1. Init => TunnelInv
  BY TunnelInit
<1>2. TunnelInv /\ [Next]_vars => TunnelInv'
  BY TunnelNext
<1>3. TunnelInv => TypeOK
  BY DEF TunnelInv
<1> QED BY <1>1, <1>2, <1>3, PTL DEF Spec

-----------------------------------------------------------------------------
(* What can still reach a sink: Transit as a function of the variables it  *)
(* reads, so that it can be compared before and after a step.              *)

\* One side: shut is CannotWrite, mute is CannotRead of DirectTunnel.
Pass(shut, held, mute, w, behind) ==
    IF shut THEN <<>> ELSE held \o IF mute THEN <<>> ELSE w \o behind

Shut(p, c, d, k) == p[Reader(d, k)] \in {"gone", "closed"} \/ (d = "up" /\ Reader(d, k) \in c)
Mute(c, d, k) == d = "down" /\ Reader(d, k) \in c
Lost(a, p, d) == a = Refused \/ p[Reader(d, 3)] \in {"gone", "closed"}

\* What the side of hop 1 lets through, what the side of hop 2 lets through.
First1(p, c, b, w, d) ==
    Pass(Shut(p, c, d, 1), b[Array(d, 1)], Mute(c, d, 1), w[d][1], <<>>)
Second2(p, c, b, w, d) ==
    Pass(Shut(p, c, d, 2), b[Array(d, 2)], Mute(c, d, 2), w[d][2], First1(p, c, b, w, d))
Flow(a, p, c, b, w, d) ==
    IF Lost(a, p, d) THEN <<>> ELSE w[d][3] \o Second2(p, c, b, w, d)

\* The values DirectTunnel gives to the variables of TunnelPipes.
NextOf == [d \in Dirs |-> IF d = "down" /\ answer # Granted THEN 0 ELSE sent[d] + 1]
TransitOf == [d \in Dirs |-> Transit(d)]
OutOf == [d \in Dirs |-> IF answer = Granted THEN got[d] ELSE <<>>]
BrokenOf == [d \in Dirs |-> answer = Refused \/ cut # {} \/ \E n \in DOMAIN pc : Deaf(n)]

LEMMA FlowIs ==
    ASSUME NEW d \in Dirs
    PROVE  /\ TransitOf[d] = Flow(answer, pc, cut, buf, wire, d)
           /\ TransitOf'[d] = Flow(answer', pc', cut', buf', wire', d)
BY DEF TransitOf, Transit, InHop, CannotWrite, CannotRead, IsOpen, Deaf, Sink, Held,
       Flow, First1, Second2, Pass, Shut, Mute, Lost, Array, Reader

LEMMA PassSeq ==
    ASSUME NEW S, NEW held \in Seq(S), NEW w \in Seq(S), NEW behind \in Seq(S),
           NEW shut \in BOOLEAN, NEW mute \in BOOLEAN
    PROVE  Pass(shut, held, mute, w, behind) \in Seq(S)
<1>1. <<>> \in Seq(S) /\ w \o behind \in Seq(S)
  BY EmptySeq, ConcatProperties
<1>2. held \o <<>> \in Seq(S) /\ held \o (w \o behind) \in Seq(S)
  BY <1>1, ConcatProperties
<1> QED BY <1>1, <1>2 DEF Pass

\* A side that passes on less of what comes passes on a prefix.
LEMMA PassLess ==
    ASSUME NEW S, NEW held \in Seq(S), NEW w \in Seq(S), NEW behind \in Seq(S),
           NEW shut \in BOOLEAN, NEW mute \in BOOLEAN,
           NEW shut2 \in BOOLEAN, NEW mute2 \in BOOLEAN, shut => shut2, mute => mute2,
           NEW held2 \in Seq(S), NEW w2 \in Seq(S), NEW behind2 \in Seq(S),
           shut2 \/ held2 = held,
           shut2 \/ mute2 \/ w2 \o behind2 \in Prefixes(w \o behind)
    PROVE  Pass(shut2, held2, mute2, w2, behind2) \in Prefixes(Pass(shut, held, mute, w, behind))
<1>1. Pass(shut, held, mute, w, behind) \in Seq(S) /\ w \o behind \in Seq(S) /\ <<>> \in Seq(S)
  BY PassSeq, ConcatProperties, EmptySeq
<1>2. CASE shut2
  BY <1>1, <1>2, PrefixSelf DEF Pass
<1>3. CASE ~shut2 /\ mute
  <2>1. /\ Pass(shut, held, mute, w, behind) = held \o <<>>
        /\ Pass(shut2, held2, mute2, w2, behind2) = held \o <<>>
    BY <1>3 DEF Pass
  <2> QED BY <1>1, <2>1, PrefixSelf
<1>4. CASE ~shut2 /\ ~mute /\ mute2
  <2>1. /\ Pass(shut, held, mute, w, behind) = held \o (w \o behind)
        /\ Pass(shut2, held2, mute2, w2, behind2) = held \o <<>>
    BY <1>4 DEF Pass
  <2>2. <<>> \in Prefixes(w \o behind)
    BY <1>1, PrefixSelf
  <2> QED BY <1>1, <2>1, <2>2, PrefixBehind
<1>5. CASE ~shut2 /\ ~mute /\ ~mute2
  <2>1. /\ Pass(shut, held, mute, w, behind) = held \o (w \o behind)
        /\ Pass(shut2, held2, mute2, w2, behind2) = held \o (w2 \o behind2)
    BY <1>5 DEF Pass
  <2> QED BY <1>1, <1>5, <2>1, PrefixBehind
<1> QED BY <1>2, <1>3, <1>4, <1>5

\* A wire with what is let through behind it: v and e are what a step leaves of
\* w and f.  Nothing comes any more when the side behind has shut, and it may
\* have written what it held.
LEMMA JoinLess ==
    ASSUME NEW S, NEW w \in Seq(S), NEW v \in Seq(S), NEW h \in Seq(S), NEW x \in Seq(S),
           NEW f \in Seq(S), NEW e \in Prefixes(f),
           \/ v = w
           \/ e = <<>> /\ v \in Prefixes(w)
           \/ e = <<>> /\ f = h \o x /\ v \in Prefixes(w \o h)
    PROVE  v \o e \in Prefixes(w \o f)
<1>1. CASE v = w
  BY <1>1, PrefixBehind
<1>2. CASE e = <<>> /\ v \in Prefixes(w)
  <2>1. v \o e = v
    BY <1>2, ConcatEmptySeq
  <2> QED BY <1>2, <2>1, PrefixFront
<1>3. CASE e = <<>> /\ f = h \o x /\ v \in Prefixes(w \o h)
  <2>1. v \o e = v /\ w \o h \in Seq(S)
    BY <1>3, ConcatEmptySeq, ConcatProperties
  <2>2. (w \o h) \o x = w \o (h \o x)
    <3>1. Regroups(w, h, x)
      BY Regroup
    <3> QED BY ONLY <3>1, Zenon DEF Regroups
  <2>3. v \in Prefixes((w \o h) \o x)
    BY <1>3, <2>1, PrefixFront
  <2> QED BY <1>3, <2>1, <2>2, <2>3
<1> QED BY <1>1, <1>2, <1>3

LEMMA FlowSeq ==
    ASSUME NEW p, NEW c, NEW b \in [Arrays -> Seq(Chunks)], NEW w, WireOK(w), NEW d \in Dirs
    PROVE  /\ First1(p, c, b, w, d) \in Seq(Chunks)
           /\ Second2(p, c, b, w, d) \in Seq(Chunks)
           /\ w[d][3] \o Second2(p, c, b, w, d) \in Seq(Chunks)
<1> DEFINE s1 == Shut(p, c, d, 1)
           s2 == Shut(p, c, d, 2)
           m1 == Mute(c, d, 1)
           m2 == Mute(c, d, 2)
           h1 == b[Array(d, 1)]
           h2 == b[Array(d, 2)]
           w1 == w[d][1]
           w2 == w[d][2]
           w3 == w[d][3]
           f1 == First1(p, c, b, w, d)
           f2 == Second2(p, c, b, w, d)
<1>1. h1 \in Seq(Chunks) /\ h2 \in Seq(Chunks)
  BY DEF Array, Arrays, Hops
<1>2. w1 \in Seq(Chunks) /\ w2 \in Seq(Chunks) /\ w3 \in Seq(Chunks)
  BY DEF WireOK
<1>3. s1 \in BOOLEAN /\ s2 \in BOOLEAN /\ m1 \in BOOLEAN /\ m2 \in BOOLEAN
  BY DEF Shut, Mute
<1>4. f1 = Pass(s1, h1, m1, w1, <<>>) /\ f2 = Pass(s2, h2, m2, w2, f1)
  BY DEF First1, Second2
<1>5. <<>> \in Seq(Chunks)
  BY EmptySeq
<1> HIDE DEF s1, s2, m1, m2, h1, h2, w1, w2, w3, f1, f2
<1>6. f1 \in Seq(Chunks)
  BY <1>1, <1>2, <1>3, <1>4, <1>5, PassSeq
<1>7. f2 \in Seq(Chunks)
  BY <1>1, <1>2, <1>3, <1>4, <1>6, PassSeq
<1>8. w3 \o f2 \in Seq(Chunks)
  BY <1>2, <1>7, ConcatProperties
<1> QED BY <1>6, <1>7, <1>8 DEF f1, f2, w3

-----------------------------------------------------------------------------
(* A step that cuts: the flow of d loses a suffix at most.                 *)

\* What a cut may do to what hop k holds.
CutAt(d, k) ==
    /\ Shut(pc, cut, d, k) => Shut(pc', cut', d, k)
    /\ Mute(cut, d, k) => Mute(cut', d, k)
    /\ Shut(pc', cut', d, k) \/ buf'[Array(d, k)] = buf[Array(d, k)]

\* And to the wire behind which hop k stands.
CutBefore(d, k) ==
    \/ wire'[d][k + 1] = wire[d][k + 1]
    \/ Shut(pc', cut', d, k) /\ wire'[d][k + 1] \in Prefixes(wire[d][k + 1])
    \/ /\ Shut(pc', cut', d, k) /\ ~Shut(pc, cut, d, k)
       /\ wire'[d][k + 1] \in Prefixes(wire[d][k + 1] \o buf[Array(d, k)])

Closed(d, k) == Shut(pc', cut', d, k) \/ Mute(cut', d, k)

Cuts(d) ==
    /\ Lost(answer, pc, d) => Lost(answer', pc', d)
    /\ CutAt(d, 1) /\ CutAt(d, 2)
    /\ Closed(d, 1) \/ wire'[d][1] \in Prefixes(wire[d][1])
    /\ Closed(d, 2) \/ CutBefore(d, 1)
    /\ Lost(answer', pc', d) \/ CutBefore(d, 2)

LEMMA CutsLess ==
    ASSUME TypeOK, TypeOK', NEW d \in Dirs, Cuts(d)
    PROVE  Flow(answer', pc', cut', buf', wire', d) \in Prefixes(Flow(answer, pc, cut, buf, wire, d))
<1> DEFINE s1 == Shut(pc, cut, d, 1)
           s2 == Shut(pc, cut, d, 2)
           m1 == Mute(cut, d, 1)
           m2 == Mute(cut, d, 2)
           h1 == buf[Array(d, 1)]
           h2 == buf[Array(d, 2)]
           w1 == wire[d][1]
           w2 == wire[d][2]
           w3 == wire[d][3]
           f1 == First1(pc, cut, buf, wire, d)
           f2 == Second2(pc, cut, buf, wire, d)
           t1 == Shut(pc', cut', d, 1)
           t2 == Shut(pc', cut', d, 2)
           n1 == Mute(cut', d, 1)
           n2 == Mute(cut', d, 2)
           g1 == buf'[Array(d, 1)]
           g2 == buf'[Array(d, 2)]
           v1 == wire'[d][1]
           v2 == wire'[d][2]
           v3 == wire'[d][3]
           e1 == First1(pc', cut', buf', wire', d)
           e2 == Second2(pc', cut', buf', wire', d)
           lost == Lost(answer, pc, d)
           gone == Lost(answer', pc', d)
<1>1. /\ buf \in [Arrays -> Seq(Chunks)] /\ buf' \in [Arrays -> Seq(Chunks)]
      /\ WireOK(wire) /\ WireOK(wire')
  BY DEF TypeOK, WireOK, Arrays, Chunks
<1>2. /\ h1 \in Seq(Chunks) /\ h2 \in Seq(Chunks) /\ g1 \in Seq(Chunks) /\ g2 \in Seq(Chunks)
  BY <1>1 DEF Array, Arrays, Hops
<1>3. /\ w1 \in Seq(Chunks) /\ w2 \in Seq(Chunks) /\ w3 \in Seq(Chunks)
      /\ v1 \in Seq(Chunks) /\ v2 \in Seq(Chunks) /\ v3 \in Seq(Chunks)
  BY <1>1 DEF WireOK
<1>4. /\ s1 \in BOOLEAN /\ s2 \in BOOLEAN /\ m1 \in BOOLEAN /\ m2 \in BOOLEAN
      /\ t1 \in BOOLEAN /\ t2 \in BOOLEAN /\ n1 \in BOOLEAN /\ n2 \in BOOLEAN
  BY DEF Shut, Mute
<1>5. /\ f1 = Pass(s1, h1, m1, w1, <<>>) /\ f2 = Pass(s2, h2, m2, w2, f1)
      /\ e1 = Pass(t1, g1, n1, v1, <<>>) /\ e2 = Pass(t2, g2, n2, v2, e1)
  BY DEF First1, Second2
<1>6. /\ f1 \in Seq(Chunks) /\ f2 \in Seq(Chunks) /\ w3 \o f2 \in Seq(Chunks)
      /\ e1 \in Seq(Chunks) /\ e2 \in Seq(Chunks) /\ v3 \o e2 \in Seq(Chunks)
  BY <1>1, FlowSeq
<1>7. /\ lost => gone
      /\ (s1 => t1) /\ (m1 => n1) /\ (t1 \/ g1 = h1)
      /\ (s2 => t2) /\ (m2 => n2) /\ (t2 \/ g2 = h2)
      /\ t1 \/ n1 \/ v1 \in Prefixes(w1)
      /\ t2 \/ n2 \/ v2 = w2 \/ (t1 /\ v2 \in Prefixes(w2))
         \/ (t1 /\ ~s1 /\ v2 \in Prefixes(w2 \o h1))
      /\ gone \/ v3 = w3 \/ (t2 /\ v3 \in Prefixes(w3))
         \/ (t2 /\ ~s2 /\ v3 \in Prefixes(w3 \o h2))
  BY DEF Cuts, CutAt, CutBefore, Closed
<1>8. /\ Flow(answer, pc, cut, buf, wire, d) = IF lost THEN <<>> ELSE w3 \o f2
      /\ Flow(answer', pc', cut', buf', wire', d) = IF gone THEN <<>> ELSE v3 \o e2
  BY DEF Flow
<1> HIDE DEF s1, s2, m1, m2, h1, h2, w1, w2, w3, f1, f2, t1, t2, n1, n2, g1, g2, v1, v2, v3,
             e1, e2, lost, gone
<1>9. <<>> \in Seq(Chunks) /\ w1 \o <<>> = w1 /\ v1 \o <<>> = v1
  BY <1>3, EmptySeq, ConcatEmptySeq
<1>10. e1 \in Prefixes(f1)
  <2>1. t1 \/ n1 \/ v1 \o <<>> \in Prefixes(w1 \o <<>>)
    BY <1>7, <1>9
  <2>2. /\ h1 \in Seq(Chunks) /\ g1 \in Seq(Chunks) /\ w1 \in Seq(Chunks) /\ v1 \in Seq(Chunks)
        /\ <<>> \in Seq(Chunks)
        /\ s1 \in BOOLEAN /\ t1 \in BOOLEAN /\ m1 \in BOOLEAN /\ n1 \in BOOLEAN
        /\ (s1 => t1) /\ (m1 => n1) /\ (t1 \/ g1 = h1)
    BY <1>2, <1>3, <1>4, <1>7, <1>9
  <2>3. Pass(t1, g1, n1, v1, <<>>) \in Prefixes(Pass(s1, h1, m1, w1, <<>>))
    BY ONLY <2>1, <2>2, PassLess
  <2> QED BY <1>5, <2>3
<1>11. e2 \in Prefixes(f2)
  <2>1. t2 \/ n2 \/ v2 \o e1 \in Prefixes(w2 \o f1)
    <3> DEFINE x == IF m1 THEN <<>> ELSE w1 \o <<>>
    <3>1. x \in Seq(Chunks) /\ (~s1 => f1 = h1 \o x) /\ (t1 => e1 = <<>>)
      BY <1>3, <1>5, <1>9 DEF Pass
    <3> HIDE DEF x
    <3>2. SUFFICES ASSUME ~t2, ~n2 PROVE v2 \o e1 \in Prefixes(w2 \o f1)
      OBVIOUS
    <3>3. \/ v2 = w2
          \/ e1 = <<>> /\ v2 \in Prefixes(w2)
          \/ e1 = <<>> /\ f1 = h1 \o x /\ v2 \in Prefixes(w2 \o h1)
      BY <1>7, <3>1, <3>2
    <3> QED BY ONLY <1>2, <1>3, <1>6, <1>10, <3>1, <3>3, JoinLess
  <2>2. /\ h2 \in Seq(Chunks) /\ g2 \in Seq(Chunks) /\ w2 \in Seq(Chunks) /\ v2 \in Seq(Chunks)
        /\ f1 \in Seq(Chunks) /\ e1 \in Seq(Chunks)
        /\ s2 \in BOOLEAN /\ t2 \in BOOLEAN /\ m2 \in BOOLEAN /\ n2 \in BOOLEAN
        /\ (s2 => t2) /\ (m2 => n2) /\ (t2 \/ g2 = h2)
    BY <1>2, <1>3, <1>4, <1>6, <1>7
  <2>3. Pass(t2, g2, n2, v2, e1) \in Prefixes(Pass(s2, h2, m2, w2, f1))
    BY ONLY <2>1, <2>2, PassLess
  <2> QED BY <1>5, <2>3
<1>12. gone \/ v3 \o e2 \in Prefixes(w3 \o f2)
  <2> DEFINE x == IF m2 THEN <<>> ELSE w2 \o f1
  <2>1. w2 \o f1 \in Seq(Chunks)
    BY <1>3, <1>6, ConcatProperties
  <2>2. x \in Seq(Chunks) /\ (~s2 => f2 = h2 \o x) /\ (t2 => e2 = <<>>)
    BY <1>5, <1>9, <2>1 DEF Pass
  <2> HIDE DEF x
  <2>3. SUFFICES ASSUME ~gone PROVE v3 \o e2 \in Prefixes(w3 \o f2)
    OBVIOUS
  <2>4. \/ v3 = w3
        \/ e2 = <<>> /\ v3 \in Prefixes(w3)
        \/ e2 = <<>> /\ f2 = h2 \o x /\ v3 \in Prefixes(w3 \o h2)
    BY <1>7, <2>2, <2>3
  <2> QED BY ONLY <1>2, <1>3, <1>6, <1>11, <2>2, <2>4, JoinLess
<1>13. <<>> \in Prefixes(w3 \o f2) /\ <<>> \in Prefixes(<<>>)
  BY <1>6, <1>9, PrefixSelf
<1> QED BY <1>7, <1>8, <1>12, <1>13

-----------------------------------------------------------------------------
(* Which steps cut.                                                        *)
Words(s, w, d, k) ==
    \/ w[d][k] = wire[d][k]
    \/ /\ d = "down" /\ k = Hop(s, d) + 1
       /\ w[d][k] = wire[d][k] \o buf[Array(d, Hop(s, d))]
    \/ k = Hop(s, d)

LEMMA WordsSay ==
    ASSUME TypeOK, NEW s \in Sides, NEW w, LastWords(s, w), NEW d \in Dirs, NEW k \in 1..3
    PROVE  Words(s, w, d, k)
<1>1. CASE w = wire
  BY <1>1 DEF Words
<1>2. CASE CanWrite("down", Hop(s, "down")) /\ w = Written("down", Hop(s, "down"))
  <2>1. Hop(s, "down") \in Hops /\ "down" \in Dirs
    BY Hops12 DEF Dirs
  <2>2. Written("down", Hop(s, "down"))[d][k] =
           IF ~Deaf(Reader("down", Hop(s, "down") + 1)) /\ d = "down" /\ k = Hop(s, "down") + 1
           THEN wire["down"][Hop(s, "down") + 1] \o Held("down", Hop(s, "down")) ELSE wire[d][k]
    BY <1>2, <2>1, WrittenOK
  <2> QED BY <1>2, <2>2 DEF Held, Words
<1>3. CASE s = "server" /\ w = Behind
  <2>1. (d # "up" \/ k # 2) => Behind[d][k] = wire[d][k]
    BY TypesKept DEF Behind, WireOK
  <2> QED BY <1>3, <2>1, Ends DEF Words
<1> QED BY <1>1, <1>2, <1>3 DEF LastWords

\* Nobody at an end is a side.
LEMMA SinkEnds ==
    ASSUME NEW d \in Dirs
    PROVE  Reader(d, 3) \in Nodes /\ Reader(d, 3) \notin Sides
BY Ends DEF Dirs, Nodes, Sides

LEMMA ClosesCuts ==
    ASSUME TypeOK, NEW s \in Sides, NEW w, Closes(s, w), NEW d \in Dirs
    PROVE  Cuts(d)
<1> DEFINE h == Hop(s, d)
<1>0. h \in Hops /\ Reader(d, h) = s /\ (h = 1 \/ h = 2)
  BY Hops12 DEF Hops
<1>1. /\ pc[s] # "gone" /\ pc[s] # "closed" /\ pc'[s] = "closed"
      /\ \A n \in Nodes : n # s => pc'[n] = pc[n]
      /\ \A k \in 1..3 : wire'[d][k] \in Prefixes(w[d][k])
      /\ \A k \in 1..3 : k \notin {h, h + 1} => wire'[d][k] = w[d][k]
      /\ \A k \in Hops : k # h => buf'[Array(d, k)] = buf[Array(d, k)]
      /\ UNCHANGED <<answer, cut>>
  <2>1. Shutdown(s, w) /\ WireOK(w) /\ pc[s] # "closed"
    BY DEF Closes
  <2>2. pc[s] # "gone"
    BY Standing DEF Sides
  <2>3. /\ pc'[s] = "closed"
        /\ \A n \in Nodes : n # s => pc'[n] = pc[n]
        /\ \A e \in Dirs, k \in 1..3 :
               /\ wire'[e][k] \in Prefixes(w[e][k])
               /\ k \notin {Hop(s, e), Hop(s, e) + 1} => wire'[e][k] = w[e][k]
        /\ \A e \in Dirs, k \in Hops :
               buf'[Array(e, k)] = IF k = Hop(s, e) THEN <<>> ELSE buf[Array(e, k)]
        /\ UNCHANGED <<answer, cut>>
    BY <2>1, ShutdownLeaves
  <2>4. \A k \in 1..3 : wire'[d][k] \in Prefixes(w[d][k])
    BY <2>3
  <2>5. \A k \in 1..3 : k \notin {h, h + 1} => wire'[d][k] = w[d][k]
    BY <2>3
  <2>6. \A k \in Hops : k # h => buf'[Array(d, k)] = buf[Array(d, k)]
    BY <2>3
  <2> QED BY ONLY <2>1, <2>2, <2>3, <2>4, <2>5, <2>6
<1>2. \A k \in 1..3 :
         \/ w[d][k] = wire[d][k]
         \/ k = h + 1 /\ w[d][k] = wire[d][k] \o buf[Array(d, h)] /\ d = "down"
         \/ k = h
  <2> SUFFICES ASSUME NEW k \in 1..3
               PROVE  \/ w[d][k] = wire[d][k]
                      \/ k = h + 1 /\ w[d][k] = wire[d][k] \o buf[Array(d, h)] /\ d = "down"
                      \/ k = h
    OBVIOUS
  <2>1. LastWords(s, w)
    BY DEF Closes
  <2>2. Words(s, w, d, k)
    BY <2>1, WordsSay
  <2> QED BY <2>2 DEF Words
<1>3. \A k \in Hops : k # h => Reader(d, k) \in Nodes \ {s}
  BY <1>0, ReaderSide, Hops12 DEF Sides, Nodes
<1>4. /\ \A k \in Hops : CutAt(d, k)
      /\ Shut(pc', cut', d, h)
      /\ d = "down" => ~Shut(pc, cut, d, h)
  BY <1>0, <1>1, <1>3 DEF CutAt, Shut, Mute
<1>5. Lost(answer, pc, d) => Lost(answer', pc', d)
  BY <1>1, SinkEnds DEF Lost
<1>6. CutBefore(d, h)
  <2>1. h + 1 \in 1..3 /\ h + 1 # h
    BY <1>0
  <2> QED BY <1>1, <1>2, <1>4, <2>1 DEF CutBefore
<1>7. h = 2 => wire'[d][1] = wire[d][1]
  BY <1>1, <1>2
<1>8. h = 1 => wire'[d][3] = wire[d][3]
  BY <1>1, <1>2
<1>9. wire[d][1] \in Prefixes(wire[d][1])
  BY TypesKept, PrefixSelf DEF WireOK
<1>10. 1 \in Hops /\ 2 \in Hops
  BY DEF Hops
<1>11. CASE h = 1
  BY <1>4, <1>5, <1>6, <1>8, <1>10, <1>11 DEF Cuts, Closed, CutBefore
<1>12. CASE h = 2
  BY <1>4, <1>5, <1>6, <1>7, <1>9, <1>10, <1>12 DEF Cuts, Closed
<1> QED BY <1>0, <1>11, <1>12

LEMMA LateTimeoutCuts ==
    ASSUME TypeOK, NEW s \in Sides, LateTimeout(s), NEW d \in Dirs
    PROVE  Cuts(d)
<1>1. UNCHANGED <<pc, answer, buf>> /\ cut' = cut \cup {s}
  BY DEF LateTimeout
<1>2. /\ wire'["up"][Hop(s, "up") + 1] \in Prefixes(wire["up"][Hop(s, "up") + 1])
      /\ \A f \in Dirs, i \in 1..3 :
             /\ f # "up" \/ i # Hop(s, "up") + 1
             /\ f # "down" \/ i # Hop(s, "down")
             => wire'[f][i] = wire[f][i]
  BY LateTimeoutDoes
<1>3. /\ CutAt(d, 1) /\ CutAt(d, 2)
      /\ Lost(answer, pc, d) => Lost(answer', pc', d)
  BY <1>1 DEF CutAt, Shut, Mute, Lost
<1>4. \/ s = "agent" /\ Hop(s, "up") = 1 /\ Hop(s, "down") = 2
      \/ s = "server" /\ Hop(s, "up") = 2 /\ Hop(s, "down") = 1
  BY Ends DEF Sides
<1>5. wire[d][1] \in Prefixes(wire[d][1])
  BY TypesKept, PrefixSelf DEF WireOK
<1>6. CASE d = "up"
  <2>1. wire'[d][1] = wire[d][1]
    BY <1>2, <1>4, <1>6
  <2>2. Shut(pc', cut', d, Hop(s, "up"))
    BY <1>1, <1>4, <1>6, Ends DEF Shut
  <2>3. CutBefore(d, 1) /\ CutBefore(d, 2)
    BY <1>2, <1>4, <1>6, <2>2 DEF CutBefore
  <2> QED BY <1>3, <1>5, <2>1, <2>3 DEF Cuts
<1>7. CASE d = "down"
  <2>1. Mute(cut', d, Hop(s, "down"))
    BY <1>1, <1>4, <1>7, Ends DEF Mute
  <2>2. \A i \in 1..3 : i # Hop(s, "down") => wire'[d][i] = wire[d][i]
    BY <1>2, <1>7
  <2> QED BY <1>3, <1>4, <1>5, <2>1, <2>2 DEF Cuts, Closed, CutBefore
<1> QED BY <1>6, <1>7 DEF Dirs

\* An end that has closed: what it sent may be cut, what comes is lost.
LEMMA LeaveCuts ==
    ASSUME TypeOK, NEW e \in Dirs, Leave(e), pc'[Source(e)] = "gone", NEW d \in Dirs
    PROVE  Cuts(d)
<1>1. UNCHANGED <<answer, cut, buf>>
  BY DEF Leave
<1>2. /\ \A n \in Nodes : n # Source(e) => pc'[n] = pc[n]
      /\ wire'[e][1] \in Prefixes(wire[e][1])
      /\ \A f \in Dirs, i \in 1..3 :
             (f # e \/ i # 1) /\ (f # Other(e) \/ i # 3) => wire'[f][i] = wire[f][i]
  BY LeaveDoes
<1>3. /\ Source(e) \in Nodes \ Sides /\ Reader(Other(e), 3) = Source(e)
      /\ Other(e) \in Dirs /\ Other(e) # e
  BY Ends DEF Source, Dirs, Nodes, Sides, Other
<1>4. /\ CutAt(d, 1) /\ CutAt(d, 2)
  <2>1. \A k \in Hops : pc'[Reader(d, k)] = pc[Reader(d, k)]
    BY <1>2, <1>3, ReaderSide DEF Sides, Nodes
  <2>2. 1 \in Hops /\ 2 \in Hops
    BY DEF Hops
  <2> QED BY <1>1, <2>1, <2>2 DEF CutAt, Shut, Mute
<1>5. Lost(answer, pc, d) => Lost(answer', pc', d)
  <2>1. pc'[Reader(d, 3)] = pc[Reader(d, 3)] \/ pc'[Reader(d, 3)] = "gone"
    BY <1>2, SinkEnds
  <2> QED BY <1>1, <2>1 DEF Lost
<1>6. Lost(answer', pc', Other(e))
  BY <1>3 DEF Lost
<1>7. wire[d][1] \in Prefixes(wire[d][1])
  BY TypesKept, PrefixSelf DEF WireOK
<1>8. CASE d = e
  <2>1. wire'[d][2] = wire[d][2] /\ wire'[d][3] = wire[d][3]
    BY <1>2, <1>3, <1>8
  <2> QED BY <1>2, <1>4, <1>5, <1>8, <2>1 DEF Cuts, CutBefore
<1>9. CASE d # e
  <2>1. d = Other(e)
    BY <1>9 DEF Other, Dirs
  <2>2. wire'[d][2] = wire[d][2] /\ wire'[d][1] = wire[d][1]
    BY <1>2, <1>3, <1>9
  <2> QED BY <1>4, <1>5, <1>6, <1>7, <2>1, <2>2 DEF Cuts, CutBefore
<1> QED BY <1>8, <1>9

-----------------------------------------------------------------------------
(* A step that moves a chunk along leaves the flow as it is.               *)
LEMMA PassReads ==
    ASSUME NEW S, NEW w \in Seq(S), w # <<>>, NEW x \in Seq(S),
           NEW s \in BOOLEAN, NEW m \in BOOLEAN, ~m
    PROVE  Pass(s, <<Head(w)>>, m, Tail(w), x) = Pass(s, <<>>, m, w, x)
<1> DEFINE h == <<Head(w)>>
           t == Tail(w)
<1>1. h \in Seq(S) /\ t \in Seq(S) /\ h \o t = w
  BY HeadMoves
<1> HIDE DEF h, t
<1>2. Regroups(h, t, x)
  BY <1>1, Regroup
<1>3. w \o x \in Seq(S) /\ <<>> \o (w \o x) = w \o x
  BY ConcatProperties, ConcatEmptySeq
<1>4. Pass(s, h, m, t, x) = Pass(s, <<>>, m, w, x)
  BY <1>1, <1>2, <1>3 DEF Pass, Regroups
<1> QED BY <1>4 DEF h, t

Joins(w, h, e, f) == (w \o h) \o e = w \o f

LEMMA PassWrites ==
    ASSUME NEW S, NEW w \in Seq(S), NEW h \in Seq(S), NEW v \in Seq(S), NEW x \in Seq(S),
           NEW s \in BOOLEAN, NEW m \in BOOLEAN, ~s
    PROVE  Joins(w, h, Pass(s, <<>>, m, v, x), Pass(s, h, m, v, x))
<1> DEFINE r == IF m THEN <<>> ELSE v \o x
<1>1. r \in Seq(S)
  BY EmptySeq, ConcatProperties
<1>2. Pass(s, <<>>, m, v, x) = <<>> \o r /\ Pass(s, h, m, v, x) = h \o r
  BY DEF Pass
<1> HIDE DEF r
<1>3. <<>> \o r = r
  BY <1>1, ConcatEmptySeq
<1>4. (w \o h) \o r = w \o (h \o r)
  BY <1>1, Regroup DEF Regroups
<1> QED BY <1>2, <1>3, <1>4 DEF Joins

FlagsKept(d) ==
    /\ Lost(answer', pc', d) = Lost(answer, pc, d)
    /\ Shut(pc', cut', d, 1) = Shut(pc, cut, d, 1) /\ Shut(pc', cut', d, 2) = Shut(pc, cut, d, 2)
    /\ Mute(cut', d, 1) = Mute(cut, d, 1) /\ Mute(cut', d, 2) = Mute(cut, d, 2)

NothingMoves(d) ==
    /\ FlagsKept(d)
    /\ \A k \in 1..3 : wire'[d][k] = wire[d][k]
    /\ \A k \in Hops : buf'[Array(d, k)] = buf[Array(d, k)]

ChunkTaken(d, k) ==
    /\ FlagsKept(d)
    /\ ~Mute(cut, d, k) /\ buf[Array(d, k)] = <<>> /\ wire[d][k] # <<>>
    /\ buf'[Array(d, k)] = <<Head(wire[d][k])>> /\ wire'[d][k] = Tail(wire[d][k])
    /\ \A j \in 1..3 : j # k => wire'[d][j] = wire[d][j]
    /\ \A j \in Hops : j # k => buf'[Array(d, j)] = buf[Array(d, j)]

\* The reader of what hop k writes reads no more.
Ahead(d, k) == IF k = 1 THEN Shut(pc, cut, d, 2) ELSE Lost(answer, pc, d)

ChunkGiven(d, k) ==
    /\ FlagsKept(d)
    /\ ~Shut(pc, cut, d, k)
    /\ buf'[Array(d, k)] = <<>>
    /\ \/ wire'[d][k + 1] = wire[d][k + 1] \o buf[Array(d, k)]
       \/ Ahead(d, k) /\ wire'[d][k + 1] = wire[d][k + 1]
    /\ \A j \in 1..3 : j # k + 1 => wire'[d][j] = wire[d][j]
    /\ \A j \in Hops : j # k => buf'[Array(d, j)] = buf[Array(d, j)]

LEMMA MovesSame ==
    ASSUME TypeOK, TypeOK', NEW d \in Dirs,
           \/ NothingMoves(d)
           \/ \E k \in Hops : ChunkTaken(d, k) \/ ChunkGiven(d, k)
    PROVE  Flow(answer', pc', cut', buf', wire', d) = Flow(answer, pc, cut, buf, wire, d)
<1> DEFINE s1 == Shut(pc, cut, d, 1)
           s2 == Shut(pc, cut, d, 2)
           m1 == Mute(cut, d, 1)
           m2 == Mute(cut, d, 2)
           h1 == buf[Array(d, 1)]
           h2 == buf[Array(d, 2)]
           w1 == wire[d][1]
           w2 == wire[d][2]
           w3 == wire[d][3]
           f1 == First1(pc, cut, buf, wire, d)
           f2 == Second2(pc, cut, buf, wire, d)
           g1 == buf'[Array(d, 1)]
           g2 == buf'[Array(d, 2)]
           v1 == wire'[d][1]
           v2 == wire'[d][2]
           v3 == wire'[d][3]
           e1 == First1(pc', cut', buf', wire', d)
           e2 == Second2(pc', cut', buf', wire', d)
           lost == Lost(answer, pc, d)
           old == Flow(answer, pc, cut, buf, wire, d)
           new == Flow(answer', pc', cut', buf', wire', d)
<1>1. /\ buf \in [Arrays -> Seq(Chunks)] /\ buf' \in [Arrays -> Seq(Chunks)]
      /\ WireOK(wire) /\ WireOK(wire')
  BY DEF TypeOK, WireOK, Arrays, Chunks
<1>2. /\ h1 \in Seq(Chunks) /\ h2 \in Seq(Chunks) /\ g1 \in Seq(Chunks) /\ g2 \in Seq(Chunks)
  BY <1>1 DEF Array, Arrays, Hops
<1>3. /\ w1 \in Seq(Chunks) /\ w2 \in Seq(Chunks) /\ w3 \in Seq(Chunks)
      /\ v1 \in Seq(Chunks) /\ v2 \in Seq(Chunks) /\ v3 \in Seq(Chunks)
  BY <1>1 DEF WireOK
<1>4. /\ s1 \in BOOLEAN /\ s2 \in BOOLEAN /\ m1 \in BOOLEAN /\ m2 \in BOOLEAN
  BY DEF Shut, Mute
<1>5. /\ f1 = Pass(s1, h1, m1, w1, <<>>) /\ f2 = Pass(s2, h2, m2, w2, f1)
  BY DEF First1, Second2
<1>6. /\ f1 \in Seq(Chunks) /\ f2 \in Seq(Chunks)
      /\ e1 \in Seq(Chunks) /\ e2 \in Seq(Chunks)
  BY <1>1, FlowSeq
<1>7. FlagsKept(d)
  BY DEF NothingMoves, ChunkTaken, ChunkGiven
<1>8. /\ e1 = Pass(s1, g1, m1, v1, <<>>) /\ e2 = Pass(s2, g2, m2, v2, e1)
  BY <1>7 DEF First1, Second2, FlagsKept
<1>9. old = (IF lost THEN <<>> ELSE w3 \o f2) /\ new = (IF lost THEN <<>> ELSE v3 \o e2)
  BY <1>7 DEF Flow, FlagsKept
<1>10. <<>> \in Seq(Chunks)
  BY EmptySeq
<1>11. 1 \in Hops /\ 2 \in Hops /\ \A k \in Hops : k = 1 \/ k = 2
  BY DEF Hops
<1>12. CASE NothingMoves(d)
  <2>1. v1 = w1 /\ v2 = w2 /\ v3 = w3 /\ g1 = h1 /\ g2 = h2
    BY <1>11, <1>12 DEF NothingMoves
  <2> HIDE DEF s1, s2, m1, m2, h1, h2, w1, w2, w3,
            f1, f2, g1, g2, v1, v2, v3, e1, e2, lost, old, new
  <2> QED BY <1>5, <1>8, <1>9, <2>1 DEF old, new
<1>13. CASE ChunkTaken(d, 1)
  <2>1. /\ v2 = w2 /\ v3 = w3 /\ g2 = h2
        /\ ~m1 /\ h1 = <<>> /\ w1 # <<>> /\ g1 = <<Head(w1)>> /\ v1 = Tail(w1)
    BY <1>11, <1>13 DEF ChunkTaken
  <2> HIDE DEF s1, s2, m1, m2, h1, h2, w1, w2, w3,
            f1, f2, g1, g2, v1, v2, v3, e1, e2, lost, old, new
  <2>2. Pass(s1, <<Head(w1)>>, m1, Tail(w1), <<>>) = Pass(s1, <<>>, m1, w1, <<>>)
    BY <1>3, <1>4, <1>10, <2>1, PassReads
  <2>3. e1 = f1
    BY <1>5, <1>8, <2>1, <2>2
  <2> QED BY <1>5, <1>8, <1>9, <2>1, <2>3 DEF old, new
<1>14. CASE ChunkTaken(d, 2)
  <2>1. /\ v1 = w1 /\ v3 = w3 /\ g1 = h1
        /\ ~m2 /\ h2 = <<>> /\ w2 # <<>> /\ g2 = <<Head(w2)>> /\ v2 = Tail(w2)
    BY <1>11, <1>14 DEF ChunkTaken
  <2> HIDE DEF s1, s2, m1, m2, h1, h2, w1, w2, w3,
            f1, f2, g1, g2, v1, v2, v3, e1, e2, lost, old, new
  <2>2. e1 = f1
    BY <1>5, <1>8, <2>1
  <2>3. Pass(s2, <<Head(w2)>>, m2, Tail(w2), f1) = Pass(s2, <<>>, m2, w2, f1)
    BY <1>3, <1>4, <1>6, <2>1, PassReads
  <2>4. e2 = f2
    BY <1>5, <1>8, <2>1, <2>2, <2>3
  <2> QED BY <1>9, <2>1, <2>4 DEF old, new
<1>15. CASE ChunkGiven(d, 1)
  <2>1. /\ v1 = w1 /\ v3 = w3 /\ g2 = h2 /\ ~s1 /\ g1 = <<>>
        /\ v2 = w2 \o h1 \/ s2
    <3>1. 1 + 1 = 2 /\ 2 \in 1..3 /\ 1 \in 1..3 /\ 3 \in 1..3
      OBVIOUS
    <3>2. v2 = w2 \o h1 \/ s2
      BY <1>15, <3>1, Zenon DEF ChunkGiven, Ahead
    <3>3. ~s1 /\ g1 = <<>> /\ v1 = w1 /\ v3 = w3
      BY <1>15, <3>1 DEF ChunkGiven
    <3>4. g2 = h2
      BY <1>11, <1>15 DEF ChunkGiven
    <3> QED BY <3>2, <3>3, <3>4
  <2> HIDE DEF s1, s2, m1, m2, h1, h2, w1, w2, w3,
            f1, f2, g1, g2, v1, v2, v3, e1, e2, lost, old, new
  <2>2. Joins(w2, h1, Pass(s1, <<>>, m1, w1, <<>>), Pass(s1, h1, m1, w1, <<>>))
    <3>1. /\ w2 \in Seq(Chunks) /\ h1 \in Seq(Chunks) /\ w1 \in Seq(Chunks)
          /\ <<>> \in Seq(Chunks) /\ s1 \in BOOLEAN /\ m1 \in BOOLEAN /\ ~s1
      BY <1>2, <1>3, <1>4, <1>10, <2>1
    <3> QED BY ONLY <3>1, PassWrites
  <2>3. s2 \/ v2 \o e1 = w2 \o f1
    BY <1>5, <1>8, <2>1, <2>2 DEF Joins
  <2>4. e2 = f2
    BY <1>5, <1>8, <2>1, <2>3 DEF Pass
  <2> QED BY <1>9, <2>1, <2>4 DEF old, new
<1>16. CASE ChunkGiven(d, 2)
  <2>1. /\ v1 = w1 /\ v2 = w2 /\ g1 = h1 /\ ~s2 /\ g2 = <<>>
        /\ v3 = w3 \o h2 \/ lost
    <3>1. 2 + 1 = 3 /\ 2 # 1 /\ 2 \in 1..3 /\ 1 \in 1..3 /\ 3 \in 1..3
      OBVIOUS
    <3>2. v3 = w3 \o h2 \/ lost
      BY <1>16, <3>1, Zenon DEF ChunkGiven, Ahead
    <3>3. ~s2 /\ g2 = <<>> /\ v1 = w1 /\ v2 = w2
      BY <1>16, <3>1 DEF ChunkGiven
    <3>4. g1 = h1
      BY <1>11, <1>16 DEF ChunkGiven
    <3> QED BY <3>2, <3>3, <3>4
  <2> HIDE DEF s1, s2, m1, m2, h1, h2, w1, w2, w3,
            f1, f2, g1, g2, v1, v2, v3, e1, e2, lost, old, new
  <2>2. e1 = f1
    BY <1>5, <1>8, <2>1
  <2>3. Joins(w3, h2, Pass(s2, <<>>, m2, w2, f1), Pass(s2, h2, m2, w2, f1))
    <3>1. /\ w3 \in Seq(Chunks) /\ h2 \in Seq(Chunks) /\ w2 \in Seq(Chunks)
          /\ f1 \in Seq(Chunks) /\ s2 \in BOOLEAN /\ m2 \in BOOLEAN /\ ~s2
      BY <1>2, <1>3, <1>4, <1>6, <2>1
    <3> QED BY ONLY <3>1, PassWrites
  <2>4. lost \/ v3 \o e2 = w3 \o f2
    BY <1>5, <1>8, <2>1, <2>2, <2>3 DEF Joins
  <2>5. CASE lost
    BY <1>9, <2>5 DEF old, new
  <2>6. CASE v3 \o e2 = w3 \o f2
    <3>1. old = new
      BY <1>9, <2>6
    <3> QED BY <3>1 DEF old, new
  <2> QED BY <2>4, <2>5, <2>6
<1> QED BY <1>11, <1>12, <1>13, <1>14, <1>15, <1>16

-----------------------------------------------------------------------------
(* Which steps move chunks along.                                          *)
StandsOn == \A n \in Nodes : \/ pc'[n] = pc[n]
                             \/ pc[n] \notin {"gone", "closed"} /\ pc'[n] \notin {"gone", "closed"}

LEMMA FlagsSame ==
    ASSUME StandsOn, UNCHANGED <<answer, cut>>, NEW d \in Dirs
    PROVE  FlagsKept(d)
<1>1. \A k \in {1, 2, 3} : Reader(d, k) \in Nodes
  BY Ends DEF Dirs, Nodes
<1>2. \A k \in {1, 2, 3} : pc'[Reader(d, k)] \in {"gone", "closed"} <=> pc[Reader(d, k)] \in {"gone", "closed"}
  BY <1>1 DEF StandsOn
<1>3. Lost(answer', pc', d) = Lost(answer, pc, d)
  BY <1>2 DEF Lost
<1>4. Shut(pc', cut', d, 1) = Shut(pc, cut, d, 1) /\ Shut(pc', cut', d, 2) = Shut(pc, cut, d, 2)
  BY <1>2 DEF Shut
<1>5. Mute(cut', d, 1) = Mute(cut, d, 1) /\ Mute(cut', d, 2) = Mute(cut, d, 2)
  BY DEF Mute
<1> QED BY <1>3, <1>4, <1>5 DEF FlagsKept

\* A write that succeeds, seen in both directions.
LEMMA WrittenMoves ==
    ASSUME TypeOK, NEW e \in Dirs, NEW k \in Hops, CanWrite(e, k), wire' = Written(e, k),
           StandsOn, UNCHANGED <<answer, cut>>, ~Shut(pc, cut, e, k),
           buf'[Array(e, k)] = <<>>,
           \A f \in Dirs, j \in Hops : f # e \/ j # k => buf'[Array(f, j)] = buf[Array(f, j)],
           NEW d \in Dirs
    PROVE  NothingMoves(d) \/ \E j \in Hops : ChunkTaken(d, j) \/ ChunkGiven(d, j)
<1>1. FlagsKept(d)
  BY FlagsSame
<1>2. \A f \in Dirs, j \in 1..3 :
         wire'[f][j] =
            IF ~Deaf(Reader(e, k + 1)) /\ f = e /\ j = k + 1
            THEN wire[e][k + 1] \o Held(e, k) ELSE wire[f][j]
  BY WrittenOK
<1>3. \A f \in Dirs, j \in 1..3 : f # e \/ j # k + 1 => wire'[f][j] = wire[f][j]
  BY <1>2
<1>4. CASE d # e
  <2>1. NothingMoves(d)
    BY <1>1, <1>3, <1>4 DEF NothingMoves
  <2> QED BY <2>1
<1>5. CASE d = e
  <2>1. Deaf(Reader(e, k + 1)) => Ahead(e, k)
    BY DEF Ahead, Deaf, Shut, Lost, Hops
  <2>2. \/ wire'[e][k + 1] = wire[e][k + 1] \o buf[Array(e, k)]
        \/ Ahead(e, k) /\ wire'[e][k + 1] = wire[e][k + 1]
    <3>1. k + 1 \in 1..3
      BY DEF Hops
    <3>2. CASE Deaf(Reader(e, k + 1))
      BY <1>2, <2>1, <3>1, <3>2
    <3>3. CASE ~Deaf(Reader(e, k + 1))
      <4>1. wire'[e][k + 1] = wire[e][k + 1] \o Held(e, k)
        BY <1>2, <3>1, <3>3
      <4> QED BY <4>1 DEF Held
    <3> QED BY <3>2, <3>3
  <2>3. ChunkGiven(e, k)
    BY <1>1, <1>3, <1>5, <2>2 DEF ChunkGiven
  <2> QED BY <1>5, <2>3
<1> QED BY <1>4, <1>5

\* A read, seen in both directions.
LEMMA TakenMoves ==
    ASSUME TypeOK, NEW e \in Dirs, NEW k \in Hops,
           StandsOn, UNCHANGED <<answer, cut>>, ~Mute(cut, e, k),
           buf[Array(e, k)] = <<>>, wire[e][k] # <<>>,
           buf'[Array(e, k)] = <<Head(wire[e][k])>>,
           wire'[e][k] = Tail(wire[e][k]),
           \A f \in Dirs, j \in Hops : f # e \/ j # k => buf'[Array(f, j)] = buf[Array(f, j)],
           \A f \in Dirs, j \in 1..3 : f # e \/ j # k => wire'[f][j] = wire[f][j],
           NEW d \in Dirs
    PROVE  NothingMoves(d) \/ \E j \in Hops : ChunkTaken(d, j) \/ ChunkGiven(d, j)
<1>1. FlagsKept(d)
  BY FlagsSame
<1>2. CASE d # e
  <2>1. NothingMoves(d)
    BY <1>1, <1>2 DEF NothingMoves
  <2> QED BY <2>1
<1>3. CASE d = e
  <2>1. ChunkTaken(d, k)
    BY <1>1, <1>3 DEF ChunkTaken
  <2> QED BY <2>1
<1> QED BY <1>2, <1>3

Along == \/ AnswerGoes \/ AnswerRead \/ ReplyGoes
         \/ \E e \in Dirs, k \in Hops : LoopReads(e, k) \/ Passes(e, k)

LEMMA AlongMoves ==
    ASSUME TunnelInv, Along, NEW d \in Dirs
    PROVE  NothingMoves(d) \/ \E j \in Hops : ChunkTaken(d, j) \/ ChunkGiven(d, j)
<1>0. TypeOK /\ "up" \in Dirs /\ "down" \in Dirs /\ 1 \in Hops /\ 2 \in Hops
  BY DEF TunnelInv, Dirs, Hops
<1>1. CASE AnswerGoes
  <2>1. /\ pc["server"] = "answering" /\ CanWrite("down", 1) /\ wire' = Written("down", 1)
        /\ UNCHANGED <<answer, cut>>
    BY <1>1 DEF AnswerGoes
  <2>2. /\ pc'["server"] = IF answer = Granted THEN "relay" ELSE "http"
        /\ \A n \in Nodes : n # "server" => pc'[n] = pc[n]
        /\ buf'[Array("down", 1)] = <<>>
        /\ \A e \in Dirs, j \in Hops :
              e # "down" \/ j # 1 => buf'[Array(e, j)] = buf[Array(e, j)]
    BY <1>0, <1>1, AnswerGoesDoes
  <2>3. StandsOn /\ ~Shut(pc, cut, "down", 1)
    BY <2>1, <2>2, Ends DEF StandsOn, Shut
  <2> QED BY <1>0, <2>1, <2>2, <2>3, WrittenMoves
<1>2. CASE AnswerRead
  <2>1. /\ pc["agent"] = "opening" /\ wire["down"][2] # <<>> /\ UNCHANGED <<answer, cut>>
    BY <1>2 DEF AnswerRead
  <2>2. /\ pc'["agent"] = "reply"
        /\ \A n \in Nodes : n # "agent" => pc'[n] = pc[n]
        /\ buf'[Array("down", 2)] = <<Head(wire["down"][2])>>
        /\ wire'["down"][2] = Tail(wire["down"][2])
        /\ \A e \in Dirs, j \in Hops :
              e # "down" \/ j # 2 => buf'[Array(e, j)] = buf[Array(e, j)]
        /\ \A e \in Dirs, j \in 1..3 : e # "down" \/ j # 2 => wire'[e][j] = wire[e][j]
    BY <1>0, <1>2, AnswerReadDoes
  <2>3. StandsOn /\ ~Mute(cut, "down", 2) /\ buf[Array("down", 2)] = <<>>
    BY <2>1, <2>2, Ends DEF StandsOn, Mute, TunnelInv, ArraysInv
  <2> QED BY <1>0, <2>1, <2>2, <2>3, TakenMoves
<1>3. CASE ReplyGoes
  <2>1. /\ pc["agent"] = "reply" /\ CanWrite("down", 2) /\ wire' = Written("down", 2)
        /\ UNCHANGED <<answer, cut>>
    BY <1>3 DEF ReplyGoes
  <2>2. /\ pc'["agent"] = "relay"
        /\ \A n \in Nodes : n # "agent" => pc'[n] = pc[n]
        /\ buf'[Array("down", 2)] = <<>>
        /\ \A e \in Dirs, j \in Hops :
              e # "down" \/ j # 2 => buf'[Array(e, j)] = buf[Array(e, j)]
    BY <1>0, <1>3, ReplyGoesDoes
  <2>3. StandsOn /\ ~Shut(pc, cut, "down", 2)
    BY <2>1, <2>2, Ends DEF StandsOn, Shut
  <2> QED BY <1>0, <2>1, <2>2, <2>3, WrittenMoves
<1>4. ASSUME NEW e \in Dirs, NEW k \in Hops, LoopReads(e, k)
      PROVE  NothingMoves(d) \/ \E j \in Hops : ChunkTaken(d, j) \/ ChunkGiven(d, j)
  <2>1. /\ UNCHANGED <<pc, answer, cut>> /\ wire[e][k] # <<>> /\ ~Mute(cut, e, k)
        /\ loop[e][k] = "read"
    BY <1>4 DEF LoopReads, Mute, IsOpen
  <2>2. /\ buf'[Array(e, k)] = <<Head(wire[e][k])>>
        /\ wire'[e][k] = Tail(wire[e][k])
        /\ \A f \in Dirs, j \in Hops :
              f # e \/ j # k => buf'[Array(f, j)] = buf[Array(f, j)]
        /\ \A f \in Dirs, j \in 1..3 : f # e \/ j # k => wire'[f][j] = wire[f][j]
    BY <1>0, <1>4, LoopReadsDoes
  <2>3. StandsOn /\ buf[Array(e, k)] = <<>>
    BY <2>1 DEF StandsOn, TunnelInv, LoopInv
  <2> QED BY <1>0, <2>1, <2>2, <2>3, TakenMoves
<1>5. ASSUME NEW e \in Dirs, NEW k \in Hops, Passes(e, k)
      PROVE  NothingMoves(d) \/ \E j \in Hops : ChunkTaken(d, j) \/ ChunkGiven(d, j)
  <2>1. /\ UNCHANGED <<pc, answer, cut>> /\ CanWrite(e, k) /\ wire' = Written(e, k)
        /\ loop[e][k] # "off"
    BY <1>5 DEF Passes
  <2>2. /\ buf'[Array(e, k)] = <<>>
        /\ \A f \in Dirs, j \in Hops :
              f # e \/ j # k => buf'[Array(f, j)] = buf[Array(f, j)]
    BY <1>0, <1>5, PassesDoes
  <2>3. StandsOn /\ pc[Reader(e, k)] = "relay"
    BY <2>1 DEF StandsOn, TunnelInv, LoopInv, Relaying
  <2>4. ~Shut(pc, cut, e, k)
    BY <1>5, <2>3 DEF Passes, Shut, IsOpen
  <2> QED BY <1>0, <2>1, <2>2, <2>3, <2>4, WrittenMoves
<1> QED BY <1>1, <1>2, <1>3, <1>4, <1>5 DEF Along

\* Steps that touch no wire and no array, and close nobody.
LEMMA RestMoves ==
    ASSUME StandsOn, UNCHANGED <<answer, cut, buf, wire>>, NEW d \in Dirs
    PROVE  NothingMoves(d)
BY FlagsSame DEF NothingMoves

-----------------------------------------------------------------------------
(* What the ends put in and take out.                                      *)
HeadOfJoin(w, f) ==
    w \o f # <<>> /\ Head(w \o f) = Head(w) /\ Tail(w \o f) = Tail(w) \o f

LEMMA HeadJoins ==
    ASSUME NEW S, NEW w \in Seq(S), w # <<>>, NEW f \in Seq(S)
    PROVE  HeadOfJoin(w, f)
<1> DEFINE q == w \o f
           t == Tail(w)
           r == t \o f
           u == Tail(q)
<1>1. /\ q \in Seq(S) /\ Len(q) = Len(w) + Len(f)
      /\ \A i \in 1..Len(w) + Len(f) : q[i] = IF i <= Len(w) THEN w[i] ELSE f[i - Len(w)]
  BY ConcatProperties
<1>2. /\ t \in Seq(S) /\ Len(t) = Len(w) - 1
      /\ \A i \in 1..Len(t) : t[i] = w[i + 1]
  BY HeadTailProperties
<1>3. Len(w) \in Nat \ {0} /\ Len(f) \in Nat
  BY EmptySeq, LenProperties
<1> HIDE DEF t
<1>4. /\ r \in Seq(S) /\ Len(r) = Len(t) + Len(f)
      /\ \A i \in 1..Len(t) + Len(f) : r[i] = IF i <= Len(t) THEN t[i] ELSE f[i - Len(t)]
  BY <1>2, ConcatProperties
<1> HIDE DEF q, r
<1>5. q # <<>>
  BY <1>1, <1>3, EmptySeq
<1>6. /\ u \in Seq(S) /\ Len(u) = Len(q) - 1
      /\ \A i \in 1..Len(u) : u[i] = q[i + 1]
  BY <1>1, <1>5, HeadTailProperties
<1>7. Head(q) = Head(w)
  <2>1. q[1] = w[1]
    BY <1>1, <1>3
  <2>2. Head(q) = q[1] /\ Head(w) = w[1]
    BY <1>1, <1>3, LenProperties
  <2> QED BY <2>1, <2>2
<1> HIDE DEF u
<1>8. Len(u) = Len(r)
  BY <1>1, <1>2, <1>3, <1>4, <1>6
<1>9. ASSUME NEW i \in 1..Len(u) PROVE u[i] = r[i]
  <2>1. i \in 1..Len(t) + Len(f) /\ i + 1 \in 1..Len(w) + Len(f)
    BY <1>1, <1>2, <1>3, <1>6
  <2>2. u[i] = q[i + 1]
    BY <1>6
  <2>3. CASE i <= Len(t)
    <3>1. i \in 1..Len(t) /\ i + 1 <= Len(w)
      BY <1>2, <1>3, <2>1, <2>3
    <3> QED BY <1>1, <1>2, <1>4, <2>1, <2>2, <2>3, <3>1
  <2>4. CASE ~(i <= Len(t))
    <3>1. ~(i + 1 <= Len(w)) /\ (i + 1) - Len(w) = i - Len(t)
      BY <1>2, <1>3, <2>1, <2>4
    <3> QED BY <1>1, <1>4, <2>1, <2>2, <2>4, <3>1
  <2> QED BY <2>3, <2>4
<1>10. u = r
  BY <1>4, <1>6, <1>8, <1>9, SeqEqual
<1> QED BY <1>5, <1>7, <1>10 DEF HeadOfJoin, q, r, u, t

\* An element that joins the last of several sequences joins all of them.
LEMMA AppendJoins ==
    ASSUME NEW S, NEW a \in Seq(S), NEW w \in Seq(S), NEW x \in S
    PROVE  /\ a \o Append(w, x) = Append(a \o w, x)
           /\ a \o w \in Seq(S) /\ Append(w, x) \in Seq(S)
<1>1. <<x>> \in Seq(S) /\ a \o w \in Seq(S) /\ Append(w, x) \in Seq(S)
  BY ConcatProperties, AppendProperties
<1>2. Append(w, x) = w \o <<x>> /\ Append(a \o w, x) = (a \o w) \o <<x>>
  BY <1>1, AppendIsConcat
<1> DEFINE o == <<x>>
<1>3. o \in Seq(S)
  BY <1>1
<1> HIDE DEF o
<1>4. (a \o w) \o o = a \o (w \o o)
  BY <1>3, Regroup DEF Regroups
<1> QED BY <1>1, <1>2, <1>4 DEF o

Free(d) ==
    /\ ~Lost(answer, pc, d)
    /\ ~Shut(pc, cut, d, 1) /\ ~Shut(pc, cut, d, 2) /\ ~Mute(cut, d, 1) /\ ~Mute(cut, d, 2)

\* A chunk of the source joins the flow, or nothing can come through.
LEMMA SendFlow ==
    ASSUME TypeOK, TypeOK', NEW d \in Dirs, UNCHANGED <<pc, answer, cut, buf>>,
           NEW x \in Chunks, wire'[d][1] = Append(wire[d][1], x),
           wire'[d][2] = wire[d][2], wire'[d][3] = wire[d][3]
    PROVE  Flow(answer', pc', cut', buf', wire', d) =
              IF Free(d) THEN Append(Flow(answer, pc, cut, buf, wire, d), x)
                         ELSE Flow(answer, pc, cut, buf, wire, d)
<1> DEFINE s1 == Shut(pc, cut, d, 1)
           s2 == Shut(pc, cut, d, 2)
           m1 == Mute(cut, d, 1)
           m2 == Mute(cut, d, 2)
           h1 == buf[Array(d, 1)]
           h2 == buf[Array(d, 2)]
           w1 == wire[d][1]
           w2 == wire[d][2]
           w3 == wire[d][3]
           f1 == First1(pc, cut, buf, wire, d)
           f2 == Second2(pc, cut, buf, wire, d)
           v1 == wire'[d][1]
           e1 == First1(pc', cut', buf', wire', d)
           e2 == Second2(pc', cut', buf', wire', d)
           lost == Lost(answer, pc, d)
           old == Flow(answer, pc, cut, buf, wire, d)
           new == Flow(answer', pc', cut', buf', wire', d)
<1>1. buf \in [Arrays -> Seq(Chunks)] /\ WireOK(wire)
  BY DEF TypeOK, WireOK, Arrays, Chunks
<1>2. /\ h1 \in Seq(Chunks) /\ h2 \in Seq(Chunks)
  BY <1>1 DEF Array, Arrays, Hops
<1>3. /\ w1 \in Seq(Chunks) /\ w2 \in Seq(Chunks) /\ w3 \in Seq(Chunks)
  BY <1>1 DEF WireOK
<1>4. /\ f1 = Pass(s1, h1, m1, w1, <<>>) /\ f2 = Pass(s2, h2, m2, w2, f1)
      /\ e1 = Pass(s1, h1, m1, v1, <<>>) /\ e2 = Pass(s2, h2, m2, w2, e1)
  BY DEF First1, Second2
<1>5. /\ f1 \in Seq(Chunks) /\ f2 \in Seq(Chunks)
  BY <1>1, FlowSeq
<1>6. old = (IF lost THEN <<>> ELSE w3 \o f2) /\ new = (IF lost THEN <<>> ELSE w3 \o e2)
  BY DEF Flow
<1>7. Free(d) <=> ~lost /\ ~s1 /\ ~s2 /\ ~m1 /\ ~m2
  BY DEF Free
<1>8. v1 = Append(w1, x)
  OBVIOUS
<1> HIDE DEF s1, s2, m1, m2, h1, h2, w1, w2, w3, f1, f2, v1, e1, e2, lost, old, new
<1>9. w1 \o <<>> = w1 /\ v1 \in Seq(Chunks) /\ v1 \o <<>> = v1
  BY <1>3, <1>8, AppendProperties, ConcatEmptySeq
<1>10. CASE Free(d)
  <2>1. f1 = h1 \o w1 /\ e1 = h1 \o Append(w1, x)
    BY <1>4, <1>7, <1>8, <1>9, <1>10 DEF Pass
  <2>2. e1 = Append(f1, x)
    BY <1>2, <1>3, <2>1, AppendJoins
  <2>3. f2 = h2 \o (w2 \o f1) /\ e2 = h2 \o (w2 \o e1)
    BY <1>4, <1>7, <1>10 DEF Pass
  <2>4. w2 \o e1 = Append(w2 \o f1, x) /\ w2 \o f1 \in Seq(Chunks)
    BY <1>3, <1>5, <2>2, AppendJoins
  <2>5. e2 = Append(f2, x)
    <3> DEFINE r == w2 \o f1
    <3>1. r \in Seq(Chunks) /\ f2 = h2 \o r /\ e2 = h2 \o Append(r, x)
      BY <2>3, <2>4
    <3> HIDE DEF r
    <3> QED BY <1>2, <3>1, AppendJoins
  <2>6. w3 \o e2 = Append(w3 \o f2, x)
    BY <1>3, <1>5, <2>5, AppendJoins
  <2>7. new = Append(old, x)
    BY <1>6, <1>7, <1>10, <2>6
  <2> QED BY <1>10, <2>7 DEF old, new
<1>11. CASE ~Free(d)
  <2>1. lost \/ s2 \/ m2 \/ s1 \/ m1
    BY <1>7, <1>11
  <2>2. s1 \/ m1 => e1 = f1
    BY <1>4 DEF Pass
  <2>3. s2 \/ m2 \/ e1 = f1 => e2 = f2
    BY <1>4 DEF Pass
  <2>4. new = old
    BY <1>6, <2>1, <2>2, <2>3
  <2> QED BY <1>11, <2>4 DEF old, new
<1> QED BY <1>10, <1>11

\* The sink takes what is in front.
LEMMA ReceiveFlow ==
    ASSUME TypeOK, TypeOK', NEW d \in Dirs, UNCHANGED <<pc, answer, cut, buf>>,
           wire[d][3] # <<>>, wire'[d][3] = Tail(wire[d][3]),
           wire'[d][1] = wire[d][1], wire'[d][2] = wire[d][2], ~Lost(answer, pc, d)
    PROVE  /\ Flow(answer, pc, cut, buf, wire, d) # <<>>
           /\ Head(Flow(answer, pc, cut, buf, wire, d)) = Head(wire[d][3])
           /\ Flow(answer', pc', cut', buf', wire', d) = Tail(Flow(answer, pc, cut, buf, wire, d))
<1> DEFINE w3 == wire[d][3]
           f2 == Second2(pc, cut, buf, wire, d)
<1>1. buf \in [Arrays -> Seq(Chunks)] /\ WireOK(wire)
  BY DEF TypeOK, WireOK, Arrays, Chunks
<1>2. w3 \in Seq(Chunks) /\ f2 \in Seq(Chunks)
  <2>1. wire[d][3] \in Seq(Chunks)
    BY <1>1 DEF WireOK
  <2>2. Second2(pc, cut, buf, wire, d) \in Seq(Chunks)
    BY <1>1, FlowSeq
  <2> QED BY <2>1, <2>2
<1>3. Second2(pc', cut', buf', wire', d) = f2
  BY DEF Second2, First1
<1>4. HeadOfJoin(w3, f2)
  BY <1>2, HeadJoins
<1>5. /\ Flow(answer, pc, cut, buf, wire, d) = w3 \o f2
      /\ Flow(answer', pc', cut', buf', wire', d) = Tail(w3) \o f2
  BY <1>3 DEF Flow
<1> QED BY <1>4, <1>5 DEF HeadOfJoin

-----------------------------------------------------------------------------
(* The refinement, step by step.                                           *)
Broken == answer = Refused \/ cut # {} \/ \E n \in Nodes : Deaf(n)

SameFlow(d) == Flow(answer', pc', cut', buf', wire', d) = Flow(answer, pc, cut, buf, wire, d)
LessFlow(d) == Flow(answer', pc', cut', buf', wire', d) \in Prefixes(Flow(answer, pc, cut, buf, wire, d))

LEMMA BrokenIs ==
    ASSUME TypeOK, TypeOK'
    PROVE  \A d \in Dirs : /\ BrokenOf[d] <=> Broken
                           /\ BrokenOf'[d] <=> Broken'
<1>1. DOMAIN pc = Nodes /\ DOMAIN pc' = Nodes
  BY DEF TypeOK, Stands, Nodes
<1> QED BY <1>1 DEF BrokenOf, Broken, Deaf

\* The steps of TunnelPipes, over those values.
PipeBreak ==
    /\ \A d \in Dirs :
           /\ BrokenOf[d] => BrokenOf'[d]
           /\ \/ TransitOf'[d] = TransitOf[d]
              \/ BrokenOf'[d] /\ TransitOf'[d] \in Prefixes(TransitOf[d])
    /\ NextOf' = NextOf /\ OutOf' = OutOf

PipePut(d) ==
    /\ NextOf' = [NextOf EXCEPT ![d] = @ + 1]
    /\ TransitOf' = IF BrokenOf[d] THEN TransitOf
                    ELSE [TransitOf EXCEPT ![d] = Append(@, NextOf[d])]
    /\ OutOf' = OutOf /\ BrokenOf' = BrokenOf

PipeTake(d) ==
    /\ TransitOf[d] # <<>>
    /\ OutOf' = [OutOf EXCEPT ![d] = Append(@, Head(TransitOf[d]))]
    /\ TransitOf' = [TransitOf EXCEPT ![d] = Tail(@)]
    /\ NextOf' = NextOf /\ BrokenOf' = BrokenOf

LEMMA PipesAre ==
    /\ PipeBreak => Pipes!Break
    /\ \A d \in Dirs : d \in Pipes!Directions /\ (PipePut(d) => Pipes!Put(d))
                       /\ (PipeTake(d) => Pipes!Take(d))
<1>1. Pipes!Directions = Dirs
  BY DEF Pipes!Directions, Dirs
<1>2. PipeBreak => Pipes!Break
  BY <1>1, Zenon DEF PipeBreak, Pipes!Break, NextOf, TransitOf, OutOf, BrokenOf, Prefixes
<1>3. \A d \in Dirs : PipePut(d) => Pipes!Put(d)
  BY DEF PipePut, Pipes!Put, NextOf, TransitOf, OutOf, BrokenOf
<1>4. \A d \in Dirs : PipeTake(d) => Pipes!Take(d)
  BY DEF PipeTake, Pipes!Take, NextOf, TransitOf, OutOf, BrokenOf
<1> QED BY <1>1, <1>2, <1>3, <1>4

LEMMA FlowIsSeq ==
    ASSUME TypeOK, NEW d \in Dirs
    PROVE  Flow(answer, pc, cut, buf, wire, d) \in Seq(Chunks)
<1>1. buf \in [Arrays -> Seq(Chunks)] /\ WireOK(wire)
  BY DEF TypeOK, WireOK, Arrays, Chunks
<1>2. wire[d][3] \o Second2(pc, cut, buf, wire, d) \in Seq(Chunks) /\ <<>> \in Seq(Chunks)
  BY <1>1, FlowSeq, EmptySeq
<1> QED BY <1>2 DEF Flow

\* A step that puts nothing in and takes nothing out.
LEMMA BreakStep ==
    ASSUME TypeOK, TypeOK', Broken => Broken',
           \A d \in Dirs : SameFlow(d) \/ (Broken' /\ LessFlow(d)),
           UNCHANGED <<sent, got>>,
           \/ UNCHANGED answer
           \/ answer # Granted /\ answer' # Granted
    PROVE  PipeBreak
<1>1. NextOf' = NextOf /\ OutOf' = OutOf
  BY DEF NextOf, OutOf
<1>2. ASSUME NEW d \in Dirs
      PROVE  /\ BrokenOf[d] => BrokenOf'[d]
             /\ \/ TransitOf'[d] = TransitOf[d]
                \/ BrokenOf'[d] /\ TransitOf'[d] \in Prefixes(TransitOf[d])
  <2>1. (BrokenOf[d] <=> Broken) /\ (BrokenOf'[d] <=> Broken')
    BY BrokenIs
  <2>2. /\ TransitOf[d] = Flow(answer, pc, cut, buf, wire, d)
        /\ TransitOf'[d] = Flow(answer', pc', cut', buf', wire', d)
    BY FlowIs
  <2> QED BY <2>1, <2>2 DEF SameFlow, LessFlow
<1> QED BY <1>1, <1>2 DEF PipeBreak

LEMMA AlongSame == ASSUME TunnelInv, TunnelInv', Along PROVE PipeBreak
<1>1. TypeOK /\ TypeOK'
  BY DEF TunnelInv
<1>2. ASSUME NEW d \in Dirs PROVE SameFlow(d)
  BY <1>1, AlongMoves, MovesSame DEF SameFlow
<1>3. UNCHANGED <<answer, cut, sent, got>>
  BY DEF Along, AnswerGoes, AnswerRead, ReplyGoes, LoopReads, Passes
<1>4. \A n \in Nodes : Deaf(n) => pc'[n] = pc[n]
  <2>1. CASE AnswerGoes
    BY <1>1, <2>1, AnswerGoesDoes DEF AnswerGoes, Deaf
  <2>2. CASE AnswerRead
    BY <1>1, <2>2, AnswerReadDoes DEF AnswerRead, Deaf
  <2>3. CASE ReplyGoes
    BY <1>1, <2>3, ReplyGoesDoes DEF ReplyGoes, Deaf
  <2>4. CASE \E e \in Dirs, k \in Hops : LoopReads(e, k) \/ Passes(e, k)
    BY <2>4 DEF LoopReads, Passes
  <2> QED BY <2>1, <2>2, <2>3, <2>4 DEF Along
<1>5. Broken => Broken'
  BY <1>3, <1>4 DEF Broken, Deaf
<1> QED BY <1>1, <1>2, <1>3, <1>5, BreakStep

LEMMA ClosesBreaks ==
    ASSUME TunnelInv, TunnelInv', NEW s \in Sides, NEW w, Closes(s, w) PROVE PipeBreak
<1>1. TypeOK /\ TypeOK'
  BY DEF TunnelInv
<1>2. ASSUME NEW d \in Dirs PROVE LessFlow(d)
  BY <1>1, ClosesCuts, CutsLess DEF LessFlow
<1>3. UNCHANGED <<answer, sent, got>> /\ pc'[s] = "closed" /\ s \in Nodes
  BY <1>1, ShutdownLeaves DEF Closes, Sides, Nodes
<1>4. Broken'
  BY <1>3 DEF Broken, Deaf
<1> QED BY <1>1, <1>2, <1>3, <1>4, BreakStep

LEMMA LateTimeoutBreaks ==
    ASSUME TunnelInv, TunnelInv', NEW s \in Sides, LateTimeout(s) PROVE PipeBreak
<1>1. TypeOK /\ TypeOK'
  BY DEF TunnelInv
<1>2. ASSUME NEW d \in Dirs PROVE LessFlow(d)
  BY <1>1, LateTimeoutCuts, CutsLess DEF LessFlow
<1>3. UNCHANGED <<answer, sent, got>> /\ s \in cut'
  BY DEF LateTimeout
<1>4. Broken'
  BY <1>3 DEF Broken
<1> QED BY <1>1, <1>2, <1>3, <1>4, BreakStep

LEMMA LeaveBreaks ==
    ASSUME TunnelInv, TunnelInv', NEW e \in Dirs, Leave(e) PROVE PipeBreak
<1>1. TypeOK /\ TypeOK' /\ UNCHANGED <<answer, cut, buf, sent, got>>
  BY DEF TunnelInv, Leave
<1>2. /\ pc[Source(e)] # "gone" /\ Source(e) \in Nodes
      /\ \A n \in Nodes : n # Source(e) => pc'[n] = pc[n]
      /\ \/ pc[Source(e)] = "open" /\ pc'[Source(e)] = "half" /\ UNCHANGED wire
         \/ pc'[Source(e)] = "gone"
  BY <1>1, LeaveDoes, Ends DEF Dirs, Source, Nodes
<1>3. CASE pc[Source(e)] = "open" /\ pc'[Source(e)] = "half" /\ UNCHANGED wire
  <2>1. StandsOn
    BY <1>2, <1>3 DEF StandsOn
  <2>2. ASSUME NEW d \in Dirs PROVE SameFlow(d)
    BY <1>1, <1>3, <2>1, RestMoves, MovesSame DEF SameFlow
  <2>3. Broken => Broken'
    BY <1>1, <2>1 DEF Broken, StandsOn, Deaf
  <2> QED BY <1>1, <2>2, <2>3, BreakStep
<1>4. CASE pc'[Source(e)] = "gone"
  <2>1. ASSUME NEW d \in Dirs PROVE LessFlow(d)
    BY <1>1, <1>4, LeaveCuts, CutsLess DEF LessFlow
  <2>2. Broken'
    BY <1>2, <1>4 DEF Broken, Deaf
  <2> QED BY <1>1, <2>1, <2>2, BreakStep
<1> QED BY <1>2, <1>3, <1>4

LEMMA RawReadBreaks == ASSUME TunnelInv, TunnelInv', RawRead PROVE PipeBreak
<1>1. TypeOK /\ TypeOK' /\ UNCHANGED <<answer, sent, got>> /\ pc["server"] = "http"
  BY DEF TunnelInv, RawRead
<1>2. answer = Refused
  BY <1>1 DEF TunnelInv, ServerInv, TypeOK
<1>3. ASSUME NEW d \in Dirs PROVE SameFlow(d)
  BY <1>1, <1>2 DEF SameFlow, Flow, Lost
<1>4. Broken'
  BY <1>1, <1>2 DEF Broken
<1> QED BY <1>1, <1>3, <1>4, BreakStep

LEMMA NothingBreaks == ASSUME TunnelInv, TunnelInv', UNCHANGED vars PROVE PipeBreak
<1>1. TypeOK /\ TypeOK' /\ UNCHANGED <<pc, answer, cut, buf, wire, sent, got>>
  BY DEF TunnelInv, vars
<1>2. ASSUME NEW d \in Dirs PROVE SameFlow(d)
  BY <1>1 DEF SameFlow
<1>3. Broken => Broken'
  BY <1>1 DEF Broken, Deaf
<1> QED BY <1>1, <1>2, <1>3, BreakStep

\* Nothing comes through exactly when somebody has closed.
LEMMA SendFree ==
    ASSUME TypeOK, NEW d \in Dirs, pc[Source(d)] = "open", Present(d)
    PROVE  Free(d) <=> ~Broken
<1>1. cut \subseteq {"agent", "server"}
  BY DEF TypeOK, Sides
<1>2. CASE d = "up"
  <2>1. pc["client"] = "open" /\ pc["agent"] # "closed"
    BY <1>2, Ends DEF Source, Present
  <2>2. Free(d) <=> /\ answer # Refused /\ pc["target"] \notin {"gone", "closed"}
                    /\ pc["agent"] \notin {"gone", "closed"} /\ "agent" \notin cut
                    /\ pc["server"] \notin {"gone", "closed"} /\ "server" \notin cut
    BY <1>2, Ends DEF Free, Lost, Shut, Mute
  <2> QED BY <1>1, <2>1, <2>2 DEF Broken, Deaf, Nodes
<1>3. CASE d = "down"
  <2>1. pc["target"] = "open" /\ pc["server"] # "closed" /\ answer = Granted
    BY <1>3, Ends DEF Source, Present
  <2>2. Free(d) <=> /\ answer # Refused /\ pc["client"] \notin {"gone", "closed"}
                    /\ pc["agent"] \notin {"gone", "closed"} /\ "agent" \notin cut
                    /\ pc["server"] \notin {"gone", "closed"} /\ "server" \notin cut
    BY <1>3, Ends DEF Free, Lost, Shut, Mute
  <2> QED BY <1>1, <2>1, <2>2 DEF Broken, Deaf, Nodes
<1> QED BY <1>2, <1>3 DEF Dirs

LEMMA SendPuts ==
    ASSUME TunnelInv, TunnelInv', NEW d \in Dirs, Send(d) PROVE PipePut(d)
<1>1. /\ TypeOK /\ TypeOK' /\ UNCHANGED <<pc, answer, cut, buf, got>>
      /\ pc[Source(d)] = "open" /\ Present(d)
  BY DEF TunnelInv, Send
<1>2. /\ wire'[d][1] = Append(wire[d][1], sent[d] + 1)
      /\ \A e \in Dirs, j \in 1..3 : e # d \/ j # 1 => wire'[e][j] = wire[e][j]
      /\ sent' = [sent EXCEPT ![d] = @ + 1] /\ sent \in [Dirs -> Nat]
  BY <1>1, SendDoes, TypesKept DEF Send
<1>3. d = "up" \/ answer = Granted
  BY <1>1 DEF Present, Dirs
<1>4. NextOf[d] = sent[d] + 1 /\ sent[d] + 1 \in Chunks
  BY <1>2, <1>3 DEF NextOf, Chunks
<1>5. NextOf' = [NextOf EXCEPT ![d] = @ + 1]
  BY <1>1, <1>2, <1>3 DEF NextOf
<1>6. OutOf' = OutOf /\ BrokenOf' = BrokenOf
  BY <1>1 DEF OutOf, BrokenOf, Deaf
<1>7. (BrokenOf[d] <=> Broken) /\ (Free(d) <=> ~Broken)
  BY <1>1, BrokenIs, SendFree
<1>8. TransitOf'[d] = IF BrokenOf[d] THEN TransitOf[d] ELSE Append(TransitOf[d], NextOf[d])
  <2> DEFINE x == sent[d] + 1
  <2>1. x \in Chunks /\ wire'[d][1] = Append(wire[d][1], x)
        /\ wire'[d][2] = wire[d][2] /\ wire'[d][3] = wire[d][3] /\ NextOf[d] = x
    BY <1>2, <1>4
  <2> HIDE DEF x
  <2>2. Flow(answer', pc', cut', buf', wire', d) =
           IF Free(d) THEN Append(Flow(answer, pc, cut, buf, wire, d), x)
                      ELSE Flow(answer, pc, cut, buf, wire, d)
    BY <1>1, <2>1, SendFlow
  <2> QED BY <1>7, <2>1, <2>2, FlowIs
<1>9. ASSUME NEW e \in Dirs, e # d PROVE TransitOf'[e] = TransitOf[e]
  <2>1. NothingMoves(e)
    <3>1. StandsOn
      BY <1>1 DEF StandsOn
    <3> QED BY <1>1, <1>2, <1>9, <3>1, FlagsSame DEF NothingMoves
  <2>2. Flow(answer', pc', cut', buf', wire', e) = Flow(answer, pc, cut, buf, wire, e)
    BY <1>1, <2>1, MovesSame
  <2> QED BY <2>2, FlowIs
<1>10. TransitOf' = IF BrokenOf[d] THEN TransitOf
                    ELSE [TransitOf EXCEPT ![d] = Append(@, NextOf[d])]
  <2>1. TransitOf = [e \in Dirs |-> TransitOf[e]] /\ TransitOf' = [e \in Dirs |-> TransitOf'[e]]
    BY DEF TransitOf
  <2>2. CASE BrokenOf[d]
    <3>1. \A e \in Dirs : TransitOf'[e] = TransitOf[e]
      BY <1>8, <1>9, <2>2
    <3> QED BY <2>1, <2>2, <3>1
  <2>3. CASE ~BrokenOf[d]
    <3> DEFINE q == Append(TransitOf[d], NextOf[d])
    <3>1. TransitOf'[d] = q
      BY <1>8, <2>3
    <3> HIDE DEF q
    <3>2. TransitOf' = [TransitOf EXCEPT ![d] = q]
      BY <1>9, <2>1, <3>1
    <3> QED BY <2>3, <3>2 DEF q
  <2> QED BY <2>2, <2>3
<1> QED BY <1>5, <1>6, <1>10 DEF PipePut

LEMMA ReceiveTakes ==
    ASSUME TunnelInv, TunnelInv', NEW d \in Dirs, Receive(d) PROVE PipeBreak \/ PipeTake(d)
<1>1. /\ TypeOK /\ TypeOK' /\ UNCHANGED <<pc, answer, cut, buf, sent>>
      /\ wire[d][3] # <<>> /\ ~Deaf(Sink(d))
  BY DEF TunnelInv, Receive
<1>2. /\ wire'[d][3] = Tail(wire[d][3])
      /\ \A e \in Dirs, j \in 1..3 : e # d \/ j # 3 => wire'[e][j] = wire[e][j]
      /\ got' = [got EXCEPT ![d] = Append(@, Head(wire[d][3]))] /\ got \in [Dirs -> Seq(Chunks)]
  BY <1>1, ReceiveDoes, TypesKept DEF Receive
<1>3. answer # NoAnswer
  BY <1>1 DEF TunnelInv, QuietInv, Dirs
<1>4. ASSUME NEW e \in Dirs, e # d PROVE TransitOf'[e] = TransitOf[e]
  <2>1. NothingMoves(e)
    <3>1. StandsOn
      BY <1>1 DEF StandsOn
    <3> QED BY <1>1, <1>2, <1>4, <3>1, FlagsSame DEF NothingMoves
  <2>2. Flow(answer', pc', cut', buf', wire', e) = Flow(answer, pc, cut, buf, wire, e)
    BY <1>1, <2>1, MovesSame
  <2> QED BY <2>2, FlowIs
<1>5. NextOf' = NextOf /\ BrokenOf' = BrokenOf
  BY <1>1 DEF NextOf, BrokenOf, Deaf
<1>6. CASE answer = Refused
  <2>1. TransitOf'[d] = <<>> /\ TransitOf[d] = <<>>
    BY <1>1, <1>6, FlowIs DEF Flow, Lost
  <2>2. OutOf' = OutOf
    BY <1>1, <1>6 DEF OutOf, Refused, Granted
  <2>3. \A e \in Dirs : TransitOf'[e] = TransitOf[e]
    BY <1>4, <2>1
  <2>4. PipeBreak
    BY <1>5, <2>2, <2>3 DEF PipeBreak
  <2> QED BY <2>4
<1>7. CASE answer = Granted
  <2>1. ~Lost(answer, pc, d)
    BY <1>1, <1>7 DEF Lost, Deaf, Sink, Refused, Granted
  <2>2. /\ Flow(answer, pc, cut, buf, wire, d) # <<>>
        /\ Head(Flow(answer, pc, cut, buf, wire, d)) = Head(wire[d][3])
        /\ Flow(answer', pc', cut', buf', wire', d) = Tail(Flow(answer, pc, cut, buf, wire, d))
    BY <1>1, <1>2, <2>1, ReceiveFlow
  <2>3. /\ TransitOf[d] # <<>> /\ Head(TransitOf[d]) = Head(wire[d][3])
        /\ TransitOf'[d] = Tail(TransitOf[d])
    BY <2>2, FlowIs
  <2>4. OutOf = got /\ OutOf' = got'
    BY <1>1, <1>2, <1>7, TypesKept DEF OutOf
  <2>5. OutOf' = [OutOf EXCEPT ![d] = Append(@, Head(TransitOf[d]))]
    BY <1>2, <2>3, <2>4
  <2>6. TransitOf' = [TransitOf EXCEPT ![d] = Tail(@)]
    <3>1. TransitOf = [e \in Dirs |-> TransitOf[e]] /\ TransitOf' = [e \in Dirs |-> TransitOf'[e]]
      BY DEF TransitOf
    <3> DEFINE q == Tail(TransitOf[d])
    <3>2. TransitOf'[d] = q
      BY <2>3
    <3> HIDE DEF q
    <3>3. TransitOf' = [TransitOf EXCEPT ![d] = q]
      BY <1>4, <3>1, <3>2
    <3> QED BY <3>3 DEF q
  <2>7. PipeTake(d)
    BY <1>5, <2>3, <2>5, <2>6 DEF PipeTake
  <2> QED BY <2>7
<1> QED BY <1>1, <1>3, <1>6, <1>7 DEF TypeOK

LEMMA DialPuts == ASSUME TunnelInv, TunnelInv', Dial PROVE PipeBreak \/ PipePut("down")
<1>0. "up" \in Dirs /\ "down" \in Dirs /\ 1 \in Hops /\ 2 \in Hops
  BY DEF Dirs, Hops
<1>1. /\ TypeOK /\ TypeOK'
      /\ pc["server"] = "dialing" /\ pc'["server"] = "answering"
      /\ answer' \in {Granted, Refused}
      /\ \A n \in Nodes : n # "server" => pc'[n] = pc[n]
      /\ buf'[Array("down", 1)] = <<answer'>>
      /\ \A e \in Dirs, j \in Hops :
            e # "down" \/ j # 1 => buf'[Array(e, j)] = buf[Array(e, j)]
      /\ UNCHANGED <<cut, wire, sent, got>>
  BY DialDoes DEF TunnelInv
<1>2. /\ answer = NoAnswer /\ cut = {} /\ pc["target"] = "open" /\ sent["down"] = 0
      /\ \A k \in 1..3 : wire["down"][k] = <<>>
      /\ buf[Array("down", 1)] = <<>> /\ buf[Array("down", 2)] = <<>>
      /\ \A d \in Dirs : got[d] = <<>>
  BY <1>0, <1>1 DEF TunnelInv, ServerInv, QuietInv
<1>3. OutOf' = OutOf
  BY <1>1, <1>2 DEF OutOf
<1>4. CASE answer' = Refused
  <2>1. Broken'
    BY <1>4 DEF Broken
  <2>2. ASSUME NEW d \in Dirs PROVE LessFlow(d)
    <3>1. Flow(answer', pc', cut', buf', wire', d) = <<>>
      BY <1>4 DEF Flow, Lost
    <3>2. Flow(answer, pc, cut, buf, wire, d) \in Seq(Chunks)
      BY <1>1, FlowIsSeq
    <3> QED BY <3>1, <3>2, PrefixSelf DEF LessFlow
  <2>3. answer # Granted /\ answer' # Granted
    BY <1>2, <1>4 DEF Granted, Refused, NoAnswer
  <2> QED BY <1>1, <2>1, <2>2, <2>3, BreakStep
<1>5. CASE answer' = Granted
  <2>1. NextOf["down"] = 0 /\ NextOf' = [NextOf EXCEPT !["down"] = @ + 1]
    <3>1. /\ NextOf["down"] = 0 /\ NextOf["up"] = sent["up"] + 1
          /\ NextOf'["down"] = 1 /\ NextOf'["up"] = sent["up"] + 1
      BY <1>0, <1>1, <1>2, <1>5 DEF NextOf, NoAnswer, Granted
    <3>2. NextOf = [d \in Dirs |-> NextOf[d]] /\ NextOf' = [d \in Dirs |-> NextOf'[d]]
      BY DEF NextOf
    <3> QED BY <1>0, <3>1, <3>2 DEF Dirs
  <2>2. BrokenOf' = BrokenOf
    <3>1. Broken <=> Broken'
      BY <1>1, <1>2, <1>5 DEF Broken, Deaf, Nodes, Granted, Refused, NoAnswer
    <3>2. DOMAIN pc = Nodes /\ DOMAIN pc' = Nodes
      BY <1>1 DEF TypeOK, Stands, Nodes
    <3> QED BY <3>1, <3>2 DEF BrokenOf, Broken, Deaf
  <2>3. TransitOf'["up"] = TransitOf["up"]
    <3>1. StandsOn
      BY <1>1 DEF StandsOn
    <3>2. \A n \in Nodes : pc'[n] \in {"gone", "closed"} <=> pc[n] \in {"gone", "closed"}
      BY <3>1 DEF StandsOn
    <3>3. FlagsKept("up")
      <4>1. Reader("up", 1) \in Nodes /\ Reader("up", 2) \in Nodes /\ Reader("up", 3) \in Nodes
        BY Ends DEF Nodes
      <4>2. Lost(answer', pc', "up") = Lost(answer, pc, "up")
        BY <1>2, <1>5, <3>2, <4>1 DEF Lost, Granted, Refused, NoAnswer
      <4>3. /\ Shut(pc', cut', "up", 1) = Shut(pc, cut, "up", 1)
            /\ Shut(pc', cut', "up", 2) = Shut(pc, cut, "up", 2)
        BY <1>1, <3>2, <4>1 DEF Shut
      <4>4. /\ Mute(cut', "up", 1) = Mute(cut, "up", 1) /\ Mute(cut', "up", 2) = Mute(cut, "up", 2)
        BY <1>1 DEF Mute
      <4> QED BY <4>2, <4>3, <4>4 DEF FlagsKept
    <3>4. NothingMoves("up")
      BY <1>0, <1>1, <3>3 DEF NothingMoves
    <3>5. Flow(answer', pc', cut', buf', wire', "up") = Flow(answer, pc, cut, buf, wire, "up")
      BY <1>0, <1>1, <3>4, MovesSame
    <3> QED BY <1>0, <3>5, FlowIs
  <2>4. TransitOf["down"] = <<>>
    <3>1. <<>> \o <<>> = <<>>
      BY EmptySeq, ConcatEmptySeq
    <3>2. Flow(answer, pc, cut, buf, wire, "down") = <<>>
      BY <1>2, <3>1 DEF Flow, First1, Second2, Pass
    <3> QED BY <1>0, <3>2, FlowIs
  <2>5. TransitOf'["down"] = IF Broken THEN <<>> ELSE <<Granted>>
    <3> DEFINE q == <<answer'>>
    <3>0. q \in Seq(Chunks)
      <4>1. answer' \in Chunks
        BY <1>5 DEF Granted, Chunks
      <4> QED BY <4>1
    <3>1. /\ buf'[Array("down", 1)] = q /\ buf'[Array("down", 2)] = <<>>
          /\ \A k \in 1..3 : wire'["down"][k] = <<>>
      BY <1>0, <1>1, <1>2
    <3>2. Broken <=> pc["client"] = "gone" \/ pc["agent"] = "closed"
      BY <1>1, <1>2, Standing DEF Broken, Deaf, Nodes, Granted, Refused, NoAnswer
    <3>3. /\ Lost(answer', pc', "down") <=> pc["client"] = "gone"
          /\ Shut(pc', cut', "down", 2) <=> pc["agent"] = "closed"
          /\ ~Shut(pc', cut', "down", 1) /\ ~Mute(cut', "down", 1) /\ ~Mute(cut', "down", 2)
      BY <1>1, <1>2, <1>5, Ends, Standing DEF Lost, Shut, Mute, Nodes, Granted, Refused
    <3> HIDE DEF q
    <3>4. <<>> \o <<>> = <<>> /\ q \o <<>> = q /\ <<>> \o q = q
      BY <3>0, EmptySeq, ConcatEmptySeq
    <3> DEFINE f1 == First1(pc', cut', buf', wire', "down")
               f2 == Second2(pc', cut', buf', wire', "down")
               f3 == Flow(answer', pc', cut', buf', wire', "down")
               s1 == Shut(pc', cut', "down", 1)
               s2 == Shut(pc', cut', "down", 2)
               m1 == Mute(cut', "down", 1)
               m2 == Mute(cut', "down", 2)
               h1 == buf'[Array("down", 1)]
               h2 == buf'[Array("down", 2)]
               w1 == wire'["down"][1]
               w2 == wire'["down"][2]
               w3 == wire'["down"][3]
               lost == Lost(answer', pc', "down")
    <3>5. /\ f1 = Pass(s1, h1, m1, w1, <<>>) /\ f2 = Pass(s2, h2, m2, w2, f1)
          /\ f3 = IF lost THEN <<>> ELSE w3 \o f2
      BY DEF First1, Second2, Flow
    <3>6. /\ h1 = q /\ h2 = <<>> /\ w1 = <<>> /\ w2 = <<>> /\ w3 = <<>>
          /\ ~s1 /\ ~m1 /\ ~m2 /\ (lost <=> pc["client"] = "gone") /\ (s2 <=> pc["agent"] = "closed")
      BY <3>1, <3>3
    <3> HIDE DEF f1, f2, f3, s1, s2, m1, m2, h1, h2, w1, w2, w3, lost
    <3>7. f3 = IF Broken THEN <<>> ELSE q
      BY <3>2, <3>4, <3>5, <3>6 DEF Pass
    <3>8. TransitOf'["down"] = f3
      BY <1>0, FlowIs DEF f3
    <3> QED BY <1>5, <3>7, <3>8 DEF q
  <2>6. BrokenOf["down"] <=> Broken
    BY <1>0, <1>1, BrokenIs
  <2>7. Append(<<>>, 0) = <<Granted>>
    BY DEF Granted
  <2>8. TransitOf' = IF BrokenOf["down"] THEN TransitOf
                     ELSE [TransitOf EXCEPT !["down"] = Append(@, NextOf["down"])]
    <3>1. TransitOf = [e \in Dirs |-> TransitOf[e]] /\ TransitOf' = [e \in Dirs |-> TransitOf'[e]]
      BY DEF TransitOf
    <3>2. TransitOf'["down"] = IF BrokenOf["down"] THEN TransitOf["down"]
                               ELSE Append(TransitOf["down"], NextOf["down"])
      BY <2>1, <2>4, <2>5, <2>6, <2>7
    <3> DEFINE r == Append(TransitOf["down"], NextOf["down"])
    <3>3. CASE BrokenOf["down"]
      <4>1. \A e \in Dirs : TransitOf'[e] = TransitOf[e]
        BY <2>3, <3>2, <3>3 DEF Dirs
      <4> QED BY <3>1, <3>3, <4>1
    <3>4. CASE ~BrokenOf["down"]
      <4>1. TransitOf'["down"] = r
        BY <3>2, <3>4
      <4> HIDE DEF r
      <4>2. TransitOf' = [TransitOf EXCEPT !["down"] = r]
        BY <2>3, <3>1, <4>1 DEF Dirs
      <4> QED BY <3>4, <4>2 DEF r
    <3> QED BY <3>3, <3>4
  <2> QED BY <1>3, <2>1, <2>2, <2>8 DEF PipePut
<1> QED BY <1>1, <1>4, <1>5

LEMMA PipesStart == Init => Pipes!PipesInit
<1> SUFFICES ASSUME Init PROVE Pipes!PipesInit
  OBVIOUS
<1>1. /\ pc = [client |-> "open", agent |-> "opening", server |-> "dialing", target |-> "open"]
      /\ answer = NoAnswer /\ cut = {}
      /\ buf = [a \in Arrays |-> <<>>]
      /\ wire = [d \in Dirs |-> [k \in 1..3 |-> <<>>]]
      /\ pipelined \in 0..1
      /\ sent = [up |-> pipelined, down |-> 0]
      /\ got = [d \in Dirs |-> <<>>]
  BY DEF Init
<1>2. NextOf \in [Pipes!Directions -> 0..2]
  <2>1. NextOf["up"] = pipelined + 1 /\ NextOf["down"] = 0
    BY <1>1 DEF NextOf, NoAnswer, Granted, Dirs
  <2>2. NextOf["up"] \in 0..2 /\ NextOf["down"] \in 0..2
    BY <1>1, <2>1
  <2> QED BY <2>2 DEF NextOf, Dirs, Pipes!Directions
<1>3. TransitOf = [d \in Pipes!Directions |-> <<>>]
  <2>1. <<>> \o <<>> = <<>>
    BY EmptySeq, ConcatEmptySeq
  <2>2. ASSUME NEW d \in Dirs PROVE TransitOf[d] = <<>>
    <3>1. /\ wire[d][1] = <<>> /\ wire[d][2] = <<>> /\ wire[d][3] = <<>>
          /\ buf[Array(d, 1)] = <<>> /\ buf[Array(d, 2)] = <<>>
      BY <1>1 DEF Array, Arrays, Hops
    <3>2. Flow(answer, pc, cut, buf, wire, d) = <<>>
      BY <2>1, <3>1 DEF Flow, First1, Second2, Pass
    <3> QED BY <3>2, FlowIs
  <2> QED BY <2>2 DEF TransitOf, Dirs, Pipes!Directions
<1>4. OutOf = [d \in Pipes!Directions |-> <<>>]
  BY <1>1 DEF OutOf, NoAnswer, Granted, Dirs, Pipes!Directions
<1>5. BrokenOf = [d \in Pipes!Directions |-> FALSE]
  <2>1. DOMAIN pc = Nodes /\ \A n \in Nodes : ~Deaf(n)
    BY <1>1 DEF Nodes, Deaf
  <2>2. answer # Refused
    BY <1>1 DEF NoAnswer, Refused
  <2> QED BY <1>1, <2>1, <2>2 DEF BrokenOf, Dirs, Pipes!Directions
<1> QED BY <1>2, <1>3, <1>4, <1>5 DEF Pipes!PipesInit, NextOf, TransitOf, OutOf, BrokenOf

\* Every step of the tunnel breaks the pipes, puts one chunk in, takes one out,
\* or does none of this.
LEMMA PipeSteps ==
    ASSUME TunnelInv, TunnelInv', [Next]_vars
    PROVE  PipeBreak \/ \E d \in Dirs : PipePut(d) \/ PipeTake(d)
<1>1. TypeOK /\ LoopInv /\ "down" \in Dirs
  BY DEF TunnelInv, Dirs
<1>2. CASE Opens
  BY <1>1, <1>2, AlongSame, RawReadBreaks, DialPuts DEF Opens, Along
<1>3. CASE \E s \in Sides : \E w : Closes(s, w)
  BY <1>3, ClosesBreaks
<1>4. CASE \E s \in Sides : LateTimeout(s)
  BY <1>4, LateTimeoutBreaks
<1>5. CASE \E d \in Dirs : End(d)
  BY <1>5, SendPuts, ReceiveTakes, LeaveBreaks DEF End
<1>6. CASE \E d \in Dirs, k \in Hops : LoopReads(d, k) \/ Passes(d, k)
  BY <1>6, AlongSame DEF Along
<1>7. CASE UNCHANGED vars
  BY <1>7, NothingBreaks
<1> QED BY <1>1, <1>2, <1>3, <1>4, <1>5, <1>6, <1>7, Steps

\* The two relay loops on each side, the open before them and the two shutdowns
\* behind them implement the two FIFO pipes of TunnelPipes: whatever fails, and
\* in whatever order, an end receives an initial part of what was sent to it.
THEOREM PipesCorrect == Spec => PipesOK
<1>1. Init => TunnelInv /\ Pipes!PipesInit
  BY TunnelInit, PipesStart
<1>2. TunnelInv /\ [Next]_vars => TunnelInv'
  BY TunnelNext
<1>3. TunnelInv /\ TunnelInv' /\ [Next]_vars => [Pipes!PipesNext]_(Pipes!pipe_vars)
  <2> SUFFICES ASSUME TunnelInv, TunnelInv', [Next]_vars PROVE Pipes!PipesNext
    OBVIOUS
  <2>1. PipeBreak \/ \E d \in Dirs : PipePut(d) \/ PipeTake(d)
    BY PipeSteps
  <2> QED BY <2>1, PipesAre DEF Pipes!PipesNext
<1> QED BY <1>1, <1>2, <1>3, PTL DEF Spec, PipesOK, Pipes!PipesSpec

-----------------------------------------------------------------------------
(* What the pipes hold and delivered, compared with what was put in.       *)
Numbers(f, n) == [i \in 1..(n - f) |-> f + i - 1]

LEMMA NumbersAre ==
    ASSUME NEW f \in Nat, NEW n \in Nat, f <= n
    PROVE  /\ Numbers(f, n) \in Seq(Nat) /\ Len(Numbers(f, n)) = n - f
           /\ Append(Numbers(f, n), n) = Numbers(f, n + 1)
           /\ n = f => Numbers(f, n) = <<>>
<1> DEFINE q == Numbers(f, n)
           r == Numbers(f, n + 1)
<1>1. n - f \in Nat /\ (n + 1) - f = (n - f) + 1 /\ (n + 1) - f \in Nat /\ n \in Nat /\ n + 1 \in Nat
  OBVIOUS
<1>2. /\ q \in Seq(Nat) /\ Len(q) = n - f
      /\ \A i \in 1..(n - f) : q[i] = f + i - 1
  BY <1>1 DEF Numbers
<1>3. /\ r \in Seq(Nat) /\ Len(r) = (n - f) + 1
      /\ \A i \in 1..((n - f) + 1) : r[i] = f + i - 1
  BY <1>1 DEF Numbers
<1> HIDE DEF q, r
<1>4. /\ Append(q, n) \in Seq(Nat) /\ Len(Append(q, n)) = Len(q) + 1
      /\ \A i \in 1..Len(q) : Append(q, n)[i] = q[i]
      /\ Append(q, n)[Len(q) + 1] = n
  BY <1>2, AppendProperties
<1> DEFINE a == Append(q, n)
<1>5. a \in Seq(Nat) /\ Len(a) = Len(r)
  BY <1>2, <1>3, <1>4
<1>6. ASSUME NEW i \in 1..Len(a) PROVE a[i] = r[i]
  <2>1. i \in 1..((n - f) + 1) /\ r[i] = f + i - 1
    BY <1>2, <1>3, <1>4
  <2>2. CASE i \in 1..Len(q)
    BY <1>2, <1>4, <2>1, <2>2
  <2>3. CASE i = Len(q) + 1
    <3>1. a[i] = n /\ f + i - 1 = n
      BY <1>2, <1>4, <2>3
    <3> QED BY <2>1, <3>1
  <2> QED BY <1>1, <1>2, <2>1, <2>2, <2>3
<1> HIDE DEF a
<1>7. a = r
  BY <1>3, <1>5, <1>6, SeqEqual
<1>8. n = f => q = <<>>
  <2>1. <<>> \in Seq(Nat) /\ \A s \in Seq(Nat) : s # <<>> => Len(s) \in Nat \ {0}
    BY EmptySeq
  <2> QED BY <1>2, <2>1
<1> QED BY <1>2, <1>7, <1>8 DEF q, r, a

\* What was put into d so far, by the number of the next chunk.
PutIn(d) == Numbers(First(d), NextOf[d])

StreamOf(d) ==
    /\ First(d) <= NextOf[d]
    /\ OutOf[d] \o TransitOf[d] \in Prefixes(PutIn(d))
    /\ ~Broken => OutOf[d] \o TransitOf[d] = PutIn(d)

StreamInv == \A d \in Dirs : StreamOf(d)

LEMMA StreamTypes ==
    ASSUME TypeOK, NEW d \in Dirs
    PROVE  /\ OutOf[d] \in Seq(Chunks) /\ TransitOf[d] \in Seq(Chunks)
           /\ NextOf[d] \in Nat /\ First(d) \in Nat
<1>1. OutOf[d] \in Seq(Chunks)
  BY TypesKept, EmptySeq DEF OutOf
<1>2. TransitOf[d] \in Seq(Chunks)
  BY FlowIs, FlowIsSeq
<1>3. NextOf[d] \in Nat
  BY TypesKept DEF NextOf
<1>4. First(d) \in Nat
  BY DEF First, TypeOK, Granted, Dirs
<1> QED BY <1>1, <1>2, <1>3, <1>4

LEMMA StreamStart == Init => StreamInv
<1> SUFFICES ASSUME Init, NEW d \in Dirs PROVE StreamOf(d)
  BY DEF StreamInv
<1>1. TypeOK
  BY TunnelInit DEF TunnelInv
<1>2. NextOf[d] = First(d)
  BY DEF Init, NextOf, First, NoAnswer, Granted, Dirs
<1>3. OutOf[d] = <<>> /\ TransitOf[d] = <<>>
  <2>1. OutOf = [e \in Dirs |-> <<>>] /\ TransitOf = [e \in Dirs |-> <<>>]
    BY PipesStart DEF Pipes!PipesInit, OutOf, TransitOf, Dirs, Pipes!Directions
  <2> QED BY <2>1
<1>4. PutIn(d) = <<>> /\ First(d) <= NextOf[d]
  <2>1. First(d) \in Nat
    BY <1>1, StreamTypes
  <2>2. Numbers(First(d), First(d)) = <<>> /\ First(d) <= First(d)
    BY <2>1, NumbersAre
  <2> QED BY <1>2, <2>2 DEF PutIn
<1>5. <<>> \o <<>> = <<>> /\ <<>> \in Prefixes(<<>>)
  BY EmptySeq, ConcatEmptySeq, PrefixSelf
<1> QED BY <1>3, <1>4, <1>5 DEF StreamOf

LEMMA StreamNext ==
    ASSUME TypeOK, TypeOK', StreamInv, UNCHANGED pipelined,
           PipeBreak \/ \E d \in Dirs : PipePut(d) \/ PipeTake(d)
    PROVE  StreamInv'
<1> SUFFICES ASSUME NEW d \in Dirs PROVE StreamOf(d)'
  BY DEF StreamInv
<1> DEFINE o == OutOf[d]
           t == TransitOf[d]
           n == NextOf[d]
           o2 == OutOf'[d]
           t2 == TransitOf'[d]
           n2 == NextOf'[d]
           f == First(d)
<1>1. /\ o \in Seq(Chunks) /\ t \in Seq(Chunks) /\ n \in Nat /\ f \in Nat
      /\ o2 \in Seq(Chunks) /\ t2 \in Seq(Chunks) /\ n2 \in Nat
  <2>1. o \in Seq(Chunks) /\ t \in Seq(Chunks) /\ n \in Nat /\ f \in Nat
    BY StreamTypes
  <2>2. o2 \in Seq(Chunks)
    BY TypesKept, EmptySeq DEF OutOf, TypeOK, Chunks
  <2>3. t2 \in Seq(Chunks)
    <3>1. buf' \in [Arrays -> Seq(Chunks)] /\ WireOK(wire')
      BY DEF TypeOK, WireOK, Arrays, Chunks
    <3>2. /\ wire'[d][3] \o Second2(pc', cut', buf', wire', d) \in Seq(Chunks)
          /\ <<>> \in Seq(Chunks)
      BY <3>1, FlowSeq, EmptySeq
    <3>3. Flow(answer', pc', cut', buf', wire', d) \in Seq(Chunks)
      BY <3>2 DEF Flow
    <3> QED BY <3>3, FlowIs
  <2>4. n2 \in Nat
    BY DEF NextOf, TypeOK
  <2> QED BY <2>1, <2>2, <2>3, <2>4
<1>2. /\ f <= n /\ o \o t \in Prefixes(Numbers(f, n))
      /\ ~Broken => o \o t = Numbers(f, n)
  BY DEF StreamInv, StreamOf, PutIn
<1>3. (BrokenOf[d] <=> Broken) /\ (BrokenOf'[d] <=> Broken')
  BY BrokenIs
<1>4. SUFFICES /\ f <= n2 /\ o2 \o t2 \in Prefixes(Numbers(f, n2))
               /\ ~Broken' => o2 \o t2 = Numbers(f, n2)
  BY DEF StreamOf, PutIn, First
<1>5. Numbers(f, n) \in Seq(Nat) /\ o \o t \in Seq(Chunks)
  BY <1>1, <1>2, NumbersAre, ConcatProperties
<1>6. CASE PipeBreak
  <2>1. /\ n2 = n /\ o2 = o /\ (Broken => Broken')
        /\ t2 = t \/ (Broken' /\ t2 \in Prefixes(t))
    BY <1>3, <1>6 DEF PipeBreak
  <2>2. t2 \in Prefixes(t)
    BY <1>1, <2>1, PrefixSelf
  <2> HIDE DEF o, t, n, f, o2, t2, n2
  <2>3. o \o t2 \in Prefixes(o \o t)
    BY <1>1, <2>2, PrefixBehind
  <2>4. o \o t2 \in Prefixes(Numbers(f, n))
    BY <1>2, <1>5, <2>3, PrefixLater
  <2> QED BY <1>2, <2>1, <2>4
<1>7. CASE \E e \in Dirs : e # d /\ (PipePut(e) \/ PipeTake(e))
  <2>1. n2 = n /\ o2 = o /\ t2 = t /\ (Broken <=> Broken')
    <3>1. PICK e \in Dirs : e # d /\ (PipePut(e) \/ PipeTake(e))
      BY <1>7
    <3>2. /\ NextOf \in [Dirs -> {NextOf[k] : k \in Dirs}]
          /\ OutOf \in [Dirs -> {OutOf[k] : k \in Dirs}]
          /\ TransitOf \in [Dirs -> {TransitOf[k] : k \in Dirs}]
      BY DEF NextOf, OutOf, TransitOf
    <3>3. CASE PipePut(e)
      BY <1>3, <3>1, <3>2, <3>3 DEF PipePut
    <3>4. CASE PipeTake(e)
      BY <1>3, <3>1, <3>2, <3>4 DEF PipeTake
    <3> QED BY <3>1, <3>3, <3>4
  <2> QED BY <1>2, <2>1
<1>8. CASE PipePut(d)
  <2>1. /\ n2 = n + 1 /\ o2 = o /\ (Broken <=> Broken')
        /\ t2 = IF Broken THEN t ELSE Append(t, n)
    <3>1. TransitOf \in [Dirs -> {TransitOf[k] : k \in Dirs}] /\ NextOf \in [Dirs -> {NextOf[k] : k \in Dirs}]
      BY DEF TransitOf, NextOf
    <3> QED BY <1>3, <1>8, <3>1 DEF PipePut
  <2> HIDE DEF o, t, n, f, o2, t2, n2
  <2>2. /\ f <= n2 /\ Append(Numbers(f, n), n) = Numbers(f, n2) /\ Numbers(f, n2) \in Seq(Nat)
    <3>1. f <= n + 1 /\ n + 1 \in Nat
      BY <1>1, <1>2
    <3> QED BY <1>1, <1>2, <2>1, <3>1, NumbersAre
  <2>3. CASE Broken
    <3>1. Numbers(f, n) \in Prefixes(Numbers(f, n2))
      <4> DEFINE a == Numbers(f, n)
                 b == <<n>>
      <4>1. a \in Seq(Nat) /\ b \in Seq(Nat) /\ Numbers(f, n2) = a \o b
        <5>1. a \in Seq(Nat) /\ n \in Nat /\ Append(a, n) = Numbers(f, n2)
          BY <1>1, <1>5, <2>2
        <5> HIDE DEF a
        <5>2. Append(a, n) = a \o b
          BY ONLY <5>1, AppendIsConcat
        <5>3. b \in Seq(Nat)
          BY <5>1
        <5> QED BY <5>1, <5>2, <5>3
      <4> HIDE DEF a, b
      <4>2. a \in Prefixes(a \o b)
        BY <4>1, PrefixFront, PrefixSelf
      <4> QED BY <4>1, <4>2 DEF a
    <3>2. o \o t \in Prefixes(Numbers(f, n2))
      BY <1>2, <2>2, <3>1, PrefixLater
    <3> QED BY <2>1, <2>2, <2>3, <3>2
  <2>4. CASE ~Broken
    <3>1. n \in Chunks
      BY <1>1 DEF Chunks
    <3>2. o2 \o t2 = Append(o \o t, n)
      BY <1>1, <2>1, <2>4, <3>1, AppendJoins
    <3>3. o2 \o t2 = Numbers(f, n2)
      BY <1>2, <2>2, <2>4, <3>2
    <3> QED BY <2>2, <3>3, PrefixSelf
  <2> QED BY <2>3, <2>4
<1>9. CASE PipeTake(d)
  <2>1. /\ n2 = n /\ t # <<>> /\ o2 = Append(o, Head(t)) /\ t2 = Tail(t) /\ (Broken <=> Broken')
    <3>1. TransitOf \in [Dirs -> {TransitOf[k] : k \in Dirs}] /\ OutOf \in [Dirs -> {OutOf[k] : k \in Dirs}]
      BY DEF TransitOf, OutOf
    <3> QED BY <1>3, <1>9, <3>1 DEF PipeTake
  <2> HIDE DEF o, t, n, f, o2, t2, n2
  <2>2. o2 \o t2 = o \o t
    <3> DEFINE h == <<Head(t)>>
               r == Tail(t)
    <3>1. h \in Seq(Chunks) /\ r \in Seq(Chunks) /\ h \o r = t /\ Head(t) \in Chunks
      BY <1>1, <2>1, HeadMoves
    <3>2. o2 = o \o h
      BY <1>1, <2>1, <3>1, AppendIsConcat
    <3>3. t2 = r
      BY <2>1
    <3> HIDE DEF h, r
    <3>4. (o \o h) \o r = o \o (h \o r)
      <4>1. o \in Seq(Chunks) /\ h \in Seq(Chunks) /\ r \in Seq(Chunks)
        BY <1>1, <3>1
      <4> QED BY ONLY <4>1, Regroup DEF Regroups
    <3> QED BY <3>1, <3>2, <3>3, <3>4
  <2> QED BY <1>2, <2>1, <2>2
<1> QED BY <1>6, <1>7, <1>8, <1>9

LEMMA Streams == Spec => [](TunnelInv /\ StreamInv)
<1>1. Init => TunnelInv /\ StreamInv
  BY TunnelInit, StreamStart
<1>2. (TunnelInv /\ StreamInv) /\ [Next]_vars => (TunnelInv /\ StreamInv)'
  <2> SUFFICES ASSUME TunnelInv, StreamInv, [Next]_vars PROVE TunnelInv' /\ StreamInv'
    OBVIOUS
  <2>1. TunnelInv' /\ TypeOK /\ TypeOK'
    BY TunnelNext DEF TunnelInv
  <2>2. UNCHANGED pipelined
    <3>1. TypeOK /\ LoopInv
      BY DEF TunnelInv
    <3>2. Opens => UNCHANGED pipelined
      BY DEF Opens, Dial, AnswerGoes, AnswerRead, ReplyGoes, RawRead
    <3>3. \A s \in Sides : \A w : Closes(s, w) => UNCHANGED pipelined
      BY DEF Closes, Shutdown
    <3>4. \A s \in Sides : LateTimeout(s) => UNCHANGED pipelined
      BY DEF LateTimeout
    <3>5. \A d \in Dirs : End(d) => UNCHANGED pipelined
      BY DEF End, Send, Receive, Leave
    <3>6. \A d \in Dirs, k \in Hops : LoopReads(d, k) \/ Passes(d, k) => UNCHANGED pipelined
      BY DEF LoopReads, Passes
    <3> QED BY <3>1, <3>2, <3>3, <3>4, <3>5, <3>6, Steps DEF vars
  <2>3. PipeBreak \/ \E d \in Dirs : PipePut(d) \/ PipeTake(d)
    BY <2>1, PipeSteps
  <2> QED BY <2>1, <2>2, <2>3, StreamNext
<1> QED BY <1>1, <1>2, PTL DEF Spec

\* Whatever fails and whenever: what an end has received is an initial part of
\* what was sent to it, the answer to the CONNECT in front of the target's
\* chunks, and without the client's chunks that came together with the CONNECT.
ReceivedInOrder == answer = Granted => \A d \in Dirs : got[d] \in Prefixes(Counted(d))

LEMMA CountedIs == TypeOK /\ answer = Granted => \A d \in Dirs : PutIn(d) = Counted(d)
<1> SUFFICES ASSUME TypeOK, answer = Granted, NEW d \in Dirs PROVE PutIn(d) = Counted(d)
  OBVIOUS
<1>1. NextOf[d] = sent[d] + 1
  BY DEF NextOf
<1>2. PutIn(d) = Numbers(First(d), sent[d] + 1)
  BY <1>1 DEF PutIn
<1> DEFINE f == First(d)
           m == sent[d] + 1
<1>3. Numbers(f, m) = Counted(d)
  <2>1. sent[d] \in Nat /\ f \in Nat
    BY TypesKept, StreamTypes
  <2>2. sent[d] + (1 - f) = m - f
    BY <2>1
  <2>3. Counted(d) = [i \in 1..(sent[d] + (1 - f)) |-> f + (i - 1)]
    BY Zenon DEF Counted
  <2>4. Numbers(f, m) = [i \in 1..(m - f) |-> f + (i - 1)]
    BY Zenon DEF Numbers
  <2> QED BY <2>2, <2>3, <2>4, Zenon
<1> QED BY <1>2, <1>3

\* An end receives what was sent to it in order, from the first chunk on and
\* without a gap, however the tunnel ends: the answer, then what follows it.
THEOREM ReceivedInOrderAlways == Spec => []ReceivedInOrder
<1>1. TunnelInv /\ StreamInv => ReceivedInOrder
  <2> SUFFICES ASSUME TunnelInv, StreamInv, answer = Granted, NEW d \in Dirs
               PROVE  got[d] \in Prefixes(Counted(d))
    BY DEF ReceivedInOrder
  <2>1. OutOf[d] = got[d] /\ TypeOK
    BY DEF OutOf, TunnelInv
  <2>2. OutOf[d] \in Seq(Chunks) /\ TransitOf[d] \in Seq(Chunks)
    BY <2>1, StreamTypes
  <2>3. PutIn(d) \in Seq(Nat) /\ OutOf[d] \o TransitOf[d] \in Prefixes(PutIn(d))
    <3>1. First(d) \in Nat /\ NextOf[d] \in Nat /\ First(d) <= NextOf[d]
      BY <2>1, StreamTypes DEF StreamInv, StreamOf
    <3> QED BY <3>1, NumbersAre DEF PutIn, StreamInv, StreamOf
  <2>4. OutOf[d] \in Prefixes(OutOf[d] \o TransitOf[d])
    BY <2>2, PrefixSelf, PrefixFront
  <2>5. OutOf[d] \in Prefixes(PutIn(d))
    BY <2>3, <2>4, PrefixLater
  <2> QED BY <2>1, <2>5, CountedIs
<1> QED BY <1>1, Streams, PTL

\* While nothing can hold the flow up, it is all that is on the way.
LEMMA FreeFlow ==
    ASSUME TypeOK, NEW d \in Dirs, Free(d)
    PROVE  TransitOf[d] =
              wire[d][3] \o (Held(d, 2) \o (wire[d][2] \o (Held(d, 1) \o (wire[d][1] \o <<>>))))
<1>1. TransitOf[d] = Flow(answer, pc, cut, buf, wire, d)
  BY FlowIs
<1> DEFINE s1 == Shut(pc, cut, d, 1)
           s2 == Shut(pc, cut, d, 2)
           m1 == Mute(cut, d, 1)
           m2 == Mute(cut, d, 2)
           h1 == Held(d, 1)
           h2 == Held(d, 2)
           w1 == wire[d][1]
           w2 == wire[d][2]
           w3 == wire[d][3]
           f1 == First1(pc, cut, buf, wire, d)
           f2 == Second2(pc, cut, buf, wire, d)
           lost == Lost(answer, pc, d)
           all == Flow(answer, pc, cut, buf, wire, d)
<1>2. /\ f1 = Pass(s1, h1, m1, w1, <<>>) /\ f2 = Pass(s2, h2, m2, w2, f1)
      /\ all = IF lost THEN <<>> ELSE w3 \o f2
  BY DEF First1, Second2, Flow, Held
<1>3. ~s1 /\ ~s2 /\ ~m1 /\ ~m2 /\ ~lost
  BY DEF Free
<1> DEFINE r == w3 \o (h2 \o (w2 \o (h1 \o (w1 \o <<>>))))
<1>4. all = r
  <2> HIDE DEF s1, s2, m1, m2, h1, h2, w1, w2, w3, f1, f2, lost, all
  <2> QED BY <1>2, <1>3 DEF Pass
<1> QED BY <1>1, <1>4

LEMMA BrokenFrees ==
    ASSUME TypeOK, ~Broken, NEW d \in Dirs PROVE Free(d)
<1>1. Reader(d, 1) \in Nodes /\ Reader(d, 2) \in Nodes /\ Reader(d, 3) \in Nodes
  BY Ends DEF Nodes, Dirs
<1> QED BY <1>1 DEF Broken, Free, Lost, Shut, Mute, Deaf

Chain(g, c, h2, b, h1, a) ==
    g \o c \o h2 \o b \o h1 \o a = g \o (c \o (h2 \o (b \o (h1 \o (a \o <<>>)))))

LEMMA ChainAll ==
    ASSUME NEW S, NEW g \in Seq(S), NEW c \in Seq(S), NEW h2 \in Seq(S), NEW b \in Seq(S),
           NEW h1 \in Seq(S), NEW a \in Seq(S)
    PROVE  Chain(g, c, h2, b, h1, a)
<1> DEFINE t1 == h1 \o a
           t2 == b \o t1
           t3 == h2 \o t2
           l1 == g \o c
           l2 == l1 \o h2
           l3 == l2 \o b
<1>1. a \o <<>> = a
  BY ConcatEmptySeq
<1>2. l1 \in Seq(S) /\ t1 \in Seq(S)
  BY Regroup
<1>3. Regroups(g, c, t3) /\ l2 \in Seq(S) /\ t2 \in Seq(S)
  <2>1. l2 \in Seq(S) /\ t2 \in Seq(S)
    <3> HIDE DEF l1, t1
    <3> QED BY <1>2, Regroup
  <2>2. t3 \in Seq(S)
    <3> HIDE DEF t2
    <3> QED BY <2>1, Regroup
  <2> HIDE DEF t3
  <2> QED BY <2>1, <2>2, Regroup
<1>4. Regroups(l1, h2, t2)
  <2> HIDE DEF l1, t2
  <2> QED BY <1>2, <1>3, Regroup
<1>5. l3 \in Seq(S)
  <2> HIDE DEF l2
  <2> QED BY <1>3, Regroup
<1>6. Regroups(l2, b, t1)
  <2> HIDE DEF l2, t1
  <2> QED BY <1>2, <1>3, Regroup
<1>7. Regroups(l3, h1, a)
  <2> HIDE DEF l3
  <2> QED BY <1>5, Regroup
<1>8. g \o c \o h2 \o b \o h1 \o a = g \o (c \o t3)
  BY <1>3, <1>4, <1>6, <1>7, Zenon DEF Regroups
<1> QED BY <1>1, <1>8, Zenon DEF Chain

\* While nobody has closed, both directions hold exactly what was sent into
\* them: the loops and the handlers of the open lose, repeat and reorder nothing.
THEOREM ConservedAlways == Spec => []Conserved
<1>1. TunnelInv /\ StreamInv => Conserved
  <2> SUFFICES ASSUME TunnelInv, StreamInv, answer = Granted, Intact, NEW d \in Dirs
               PROVE  Path(d) = Counted(d)
    BY DEF Conserved
  <2>1. TypeOK /\ ~Broken
    BY Standing DEF TunnelInv, Intact, Broken, Granted, Refused
  <2>2. OutOf[d] \o TransitOf[d] = PutIn(d) /\ OutOf[d] = got[d]
    BY <2>1 DEF StreamInv, StreamOf, OutOf
  <2> DEFINE g == got[d]
             h1 == Held(d, 1)
             h2 == Held(d, 2)
             w1 == wire[d][1]
             w2 == wire[d][2]
             w3 == wire[d][3]
             all == w3 \o (h2 \o (w2 \o (h1 \o (w1 \o <<>>))))
             path == g \o w3 \o h2 \o w2 \o h1 \o w1
  <2>3. TransitOf[d] = all
    BY <2>1, BrokenFrees, FreeFlow
  <2>4. /\ g \in Seq(Chunks) /\ h1 \in Seq(Chunks) /\ h2 \in Seq(Chunks)
        /\ w1 \in Seq(Chunks) /\ w2 \in Seq(Chunks) /\ w3 \in Seq(Chunks)
    BY <2>1, TypesKept, HeldOK DEF WireOK, Hops
  <2>5. path = g \o all
    <3>1. Chain(g, w3, h2, w2, h1, w1)
      <4> HIDE DEF g, h1, h2, w1, w2, w3
      <4> QED BY ONLY <2>4, ChainAll
    <3> HIDE DEF g, h1, h2, w1, w2, w3
    <3> QED BY <3>1, Zenon DEF Chain
  <2>6. g \o all = PutIn(d)
    <3> HIDE DEF all
    <3> QED BY <2>2, <2>3
  <2>7. Path(d) = path
    BY DEF Path
  <2>8. PutIn(d) = Counted(d)
    BY <2>1, CountedIs
  <2> HIDE DEF path, all
  <2> QED BY <2>5, <2>6, <2>7, <2>8
<1> QED BY <1>1, Streams, PTL


-----------------------------------------------------------------------------
(* Why a granted tunnel stands.                                            *)

\* Nobody has left, no timer has interfered, and nothing was said too early.
Untouched(a, p, c, f) ==
    /\ a # Refused /\ c = {} /\ f = {}
    /\ p["client"] = "open" /\ p["target"] = "open"

\* While the tunnel is untouched both sides stand, and over TCP the agent
\* reads the answer before the target has said anything.
StandInv ==
    /\ Untouched(answer, pc, cut, faults) => pc["agent"] # "closed" /\ pc["server"] # "closed"
    /\ faults = {} /\ ~tls /\ pc["agent"] = "opening" => sent["down"] = 0

LEMMA StandStart == Init => StandInv
BY DEF Init, StandInv, Untouched

\* A piece of a join is no longer than the join.
LEMMA PieceShorter ==
    ASSUME NEW S, NEW a \in Seq(S), NEW b \in Seq(S), NEW c \in Seq(S), NEW e \in Seq(S)
    PROVE  Len(b) <= Len(a \o (c \o (b \o e)))
<1>1. b \o e \in Seq(S) /\ Len(b \o e) = Len(b) + Len(e)
  BY ConcatProperties
<1> DEFINE t1 == b \o e
           t2 == c \o t1
<1>2. t2 \in Seq(S) /\ Len(t2) = Len(c) + Len(t1)
  <2>1. t1 \in Seq(S)
    BY <1>1
  <2> HIDE DEF t1
  <2>2. c \o t1 \in Seq(S) /\ Len(c \o t1) = Len(c) + Len(t1)
    BY <2>1, ConcatProperties
  <2> QED BY <2>2
<1>3. Len(a \o t2) = Len(a) + Len(t2)
  <2> HIDE DEF t2
  <2> QED BY <1>2, ConcatProperties
<1>4. Len(a) \in Nat /\ Len(b) \in Nat /\ Len(c) \in Nat /\ Len(e) \in Nat
  BY LenProperties
<1> DEFINE n == Len(a \o t2)
           n1 == Len(t1)
           n2 == Len(t2)
<1>5. n = Len(a) + n2 /\ n2 = Len(c) + n1 /\ n1 = Len(b) + Len(e)
  BY <1>1, <1>2, <1>3
<1> HIDE DEF n, n1, n2
<1>6. Len(b) <= n
  BY <1>4, <1>5
<1> QED BY <1>6 DEF n

\* As long as the target has not spoken, only the answer can be on its way.
LEMMA AnswerAlone ==
    ASSUME TunnelInv, StreamInv, answer = Granted, ~Broken, sent["down"] = 0
    PROVE  Len(wire["down"][2]) <= 1
<1> DEFINE d == "down"
           h1 == Held(d, 1)
           h2 == Held(d, 2)
           w1 == wire[d][1]
           w2 == wire[d][2]
           w3 == wire[d][3]
           e1 == w1 \o <<>>
           e2 == h1 \o e1
           all == w3 \o (h2 \o (w2 \o e2))
<1>1. TypeOK /\ d \in Dirs
  BY DEF TunnelInv, Dirs
<1>2. TransitOf[d] = all
  BY <1>1, BrokenFrees, FreeFlow
<1>3. /\ h1 \in Seq(Chunks) /\ h2 \in Seq(Chunks)
      /\ w1 \in Seq(Chunks) /\ w2 \in Seq(Chunks) /\ w3 \in Seq(Chunks)
  BY <1>1, TypesKept, HeldOK DEF WireOK, Hops
<1>4. OutOf[d] \o TransitOf[d] = PutIn(d) /\ Len(PutIn(d)) = 1
  <2>1. OutOf[d] \o TransitOf[d] = PutIn(d)
    BY <1>1 DEF StreamInv, StreamOf
  <2>2. NextOf[d] = 1 /\ First(d) = 0
    BY <1>1 DEF NextOf, First, Granted
  <2>3. 0 \in Nat /\ 1 \in Nat /\ 0 <= 1
    OBVIOUS
  <2>4. Len(Numbers(0, 1)) = 1 - 0
    BY ONLY <2>3, NumbersAre
  <2> QED BY <2>1, <2>2, <2>4 DEF PutIn
<1>5. OutOf[d] \in Seq(Chunks) /\ TransitOf[d] \in Seq(Chunks)
  BY <1>1, StreamTypes
<1>6. Len(TransitOf[d]) <= 1
  <2> DEFINE o == OutOf[d]
             t == TransitOf[d]
             n == Len(o \o t)
  <2>1. n = 1
    BY <1>4
  <2> HIDE DEF o, t
  <2>2. n = Len(o) + Len(t) /\ Len(o) \in Nat /\ Len(t) \in Nat
    BY <1>5, ConcatProperties, LenProperties DEF o, t
  <2> HIDE DEF n
  <2>3. Len(t) <= 1
    BY <2>1, <2>2
  <2> QED BY <2>3 DEF t
<1>7. e2 \in Seq(Chunks)
  <2>1. e1 \in Seq(Chunks)
    BY <1>3, EmptySeq, ConcatProperties
  <2> HIDE DEF e1
  <2> QED BY <1>3, <2>1, ConcatProperties
<1>8. Len(w2) <= Len(all)
  <2> HIDE DEF h1, h2, w1, w2, w3, e2
  <2> QED BY <1>3, <1>7, PieceShorter
<1>9. Len(all) <= 1
  <2> HIDE DEF all
  <2> QED BY <1>2, <1>6
<1>10. Len(w2) \in Nat /\ Len(all) \in Nat
  <2>1. all \in Seq(Chunks)
    <3> HIDE DEF all
    <3> QED BY <1>2, <1>5
  <2> HIDE DEF w2, all
  <2> QED BY <1>3, <2>1, LenProperties
<1> DEFINE n2 == Len(w2)
           na == Len(all)
<1>11. n2 <= na /\ na <= 1 /\ n2 \in Nat /\ na \in Nat
  BY <1>8, <1>9, <1>10
<1> HIDE DEF n2, na
<1>12. n2 <= 1
  BY <1>11
<1> QED BY <1>12 DEF n2

\* In an untouched tunnel neither side has a reason to give up.
LEMMA NoReason ==
    ASSUME TunnelInv, StreamInv, StandInv, NEW s \in Sides, NEW w, Closes(s, w)
    PROVE  ~Untouched(answer', pc', cut', faults')
<1> SUFFICES ASSUME Untouched(answer', pc', cut', faults') PROVE FALSE
  OBVIOUS
<1>1. answer' = answer /\ cut' = cut /\ pc' = [pc EXCEPT ![s] = "closed"] /\ pc \in Stands
  BY DEF Closes, Shutdown, TunnelInv, TypeOK
<1>2. answer # Refused /\ cut = {} /\ faults' = {} /\ faults = {}
  BY <1>1 DEF Untouched, Closes
<1>3. pc["client"] = "open" /\ pc["target"] = "open"
  BY <1>1 DEF Untouched, Sides, Stands
<1>4. pc["agent"] # "closed" /\ pc["server"] # "closed"
  BY <1>2, <1>3 DEF StandInv, Untouched
<1>5. \A n \in Nodes : ~Ended(n) /\ ~Deaf(n)
  BY <1>1, <1>3, <1>4 DEF Nodes, Ended, Deaf, Stands
<1>6. ~Broken
  BY <1>2, <1>5 DEF Broken
<1>7. answer = NoAnswer \/ answer = Granted
  BY <1>2 DEF TunnelInv, TypeOK
<1>8. s = "server" => answer = Granted /\ pc["server"] # "http"
  BY <1>7 DEF Closes, TunnelInv, ServerInv
<1>9. pc["agent"] = "opening" /\ ~tls /\ \E n \in 1..Len(wire["down"][2]) : n > 1
  BY <1>2, <1>5, <1>8 DEF Closes, Reason
<1>10. sent["down"] = 0
  BY <1>2, <1>9 DEF StandInv
<1> DEFINE m == Len(wire["down"][2])
<1>11. m <= 1 /\ m \in Nat
  <2>1. CASE answer = NoAnswer
    <3>1. wire["down"][2] = <<>>
      BY <2>1 DEF TunnelInv, QuietInv
    <3>2. m = 0
      BY <3>1
    <3> HIDE DEF m
    <3> QED BY <3>2
  <2>2. CASE answer = Granted
    <3>1. m <= 1
      BY <1>6, <1>10, <2>2, AnswerAlone
    <3>2. wire["down"][2] \in Seq(Chunks)
      BY TypesKept DEF WireOK, TunnelInv, Dirs
    <3>3. m \in Nat
      BY <3>2, LenProperties
    <3> QED BY <3>1, <3>3
  <2> QED BY <1>7, <2>1, <2>2
<1>12. \E n \in 1..m : n > 1
  BY <1>9
<1> HIDE DEF m
<1> QED BY <1>11, <1>12

\* No other step closes a side, or makes a touched tunnel untouched.
Stays ==
    /\ answer = Refused => answer' = Refused
    /\ cut \subseteq cut' /\ faults \subseteq faults'
    /\ \A n \in {"client", "target"} : pc'[n] = "open" => pc[n] = "open"
    /\ \A s \in Sides : pc'[s] = "closed" => pc[s] = "closed"

LEMMA StaysStands ==
    ASSUME Stays, Untouched(answer, pc, cut, faults) =>
                     pc["agent"] # "closed" /\ pc["server"] # "closed"
    PROVE  Untouched(answer', pc', cut', faults') =>
                     pc'["agent"] # "closed" /\ pc'["server"] # "closed"
BY DEF Stays, Untouched, Sides

\* The agent opens only once, and its target speaks only after the answer,
\* or the history says that it spoke.
Hushed == faults' = {} /\ ~tls' /\ pc'["agent"] = "opening" => sent'["down"] = 0

LEMMA StandNext ==
    ASSUME TunnelInv, StreamInv, StandInv, [Next]_vars PROVE StandInv'
<1>1. TypeOK /\ LoopInv /\ pc \in Stands
  BY DEF TunnelInv, TypeOK
<1>2. ASSUME Stays, Hushed PROVE StandInv'
  BY <1>2, StaysStands DEF StandInv, Hushed
<1>3. ASSUME faults \subseteq faults', tls' = tls, sent' = sent,
             pc'["agent"] = "opening" => pc["agent"] = "opening"
      PROVE  Hushed
  BY <1>3 DEF Hushed, StandInv
<1>4. CASE UNCHANGED vars
  BY <1>2, <1>3, <1>4 DEF vars, Stays
<1>5. CASE Opens
  <2>1. Dial => answer # Refused
    BY DEF Dial, TunnelInv, ServerInv, NoAnswer, Refused
  <2>2. Stays
    BY <1>1, <1>5, <2>1 DEF Opens, Dial, AnswerGoes, AnswerRead, ReplyGoes, RawRead, Stays, Stands, Sides
  <2>3. faults' = faults /\ tls' = tls /\ sent' = sent /\ (pc'["agent"] = "opening" => pc["agent"] = "opening")
    BY <1>1, <1>5 DEF Opens, Dial, AnswerGoes, AnswerRead, ReplyGoes, RawRead, Stands
  <2> QED BY <1>2, <1>3, <2>2, <2>3
<1>6. ASSUME NEW s \in Sides, NEW w, Closes(s, w) PROVE StandInv'
  <2>1. ~Untouched(answer', pc', cut', faults')
    BY <1>6, NoReason
  <2>2. pc' = [pc EXCEPT ![s] = "closed"] /\ faults \subseteq faults' /\ tls' = tls /\ sent' = sent
    BY <1>6 DEF Closes, Shutdown
  <2>3. Hushed
    BY <1>1, <1>3, <2>2 DEF Stands, Sides
  <2> QED BY <2>1, <2>3 DEF StandInv, Hushed
<1>7. ASSUME NEW s \in Sides, LateTimeout(s) PROVE StandInv'
  BY <1>2, <1>3, <1>7 DEF LateTimeout, Stays
<1>8. ASSUME NEW d \in Dirs, End(d) PROVE StandInv'
  <2>1. CASE Send(d)
    <3>1. Stays
      BY <2>1 DEF Send, Stays
    <3>2. Hushed
      <4>1. CASE d = "down" /\ pc["agent"] = "opening" /\ ~tls
        BY <2>1, <4>1 DEF Send, Hushed
      <4>2. CASE d = "up"
        <5>1. sent'["down"] = sent["down"] /\ UNCHANGED <<pc, tls, faults>>
          BY <1>1, <2>1, <4>2 DEF Send, TypeOK, Dirs
        <5> QED BY <5>1 DEF Hushed, StandInv
      <4>3. CASE ~(pc["agent"] = "opening" /\ ~tls)
        BY <2>1, <4>3 DEF Send, Hushed
      <4> QED BY <4>1, <4>2, <4>3 DEF Dirs
    <3> QED BY <1>2, <3>1, <3>2
  <2>2. CASE Receive(d)
    BY <1>2, <1>3, <2>2 DEF Receive, Stays
  <2>3. CASE Leave(d)
    <3>1. Source(d) \in {"client", "target"}
      BY Ends DEF Source, Dirs
    <3>2. UNCHANGED <<tls, answer, cut, sent, faults>>
          /\ (pc' = [pc EXCEPT ![Source(d)] = "half"] \/ pc' = [pc EXCEPT ![Source(d)] = "gone"])
          /\ (pc'[Source(d)] = "open" => pc[Source(d)] = "open")
      BY <1>1, <2>3, <3>1 DEF Leave, Stands
    <3>3. Stays
      BY <1>1, <3>1, <3>2 DEF Stays, Stands, Sides
    <3>4. Hushed
      BY <1>1, <1>3, <3>1, <3>2 DEF Stands
    <3> QED BY <1>2, <3>3, <3>4
  <2> QED BY <1>8, <2>1, <2>2, <2>3 DEF End
<1>9. ASSUME NEW d \in Dirs, NEW k \in Hops, LoopReads(d, k) \/ Passes(d, k) PROVE StandInv'
  BY <1>2, <1>3, <1>9 DEF LoopReads, Passes, Stays
<1> QED BY <1>1, <1>4, <1>5, <1>6, <1>7, <1>8, <1>9, Steps

\* A granted tunnel stands until an end closes its sending half, a timer of a
\* TCPClient interferes or the target speaks too early.
THEOREM GrantStandsAlways == Spec => []GrantStands
<1>1. StandInv => GrantStands
  BY DEF StandInv, GrantStands, Untouched, Granted, Refused
<1>2. Init => TunnelInv /\ StreamInv /\ StandInv
  BY TunnelInit, StreamStart, StandStart
<1>3. (TunnelInv /\ StreamInv) /\ StandInv /\ [Next]_vars => StandInv'
  BY StandNext
<1> QED BY <1>1, <1>2, <1>3, Streams, PTL DEF Spec
====
