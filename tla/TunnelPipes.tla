----------------------------- MODULE TunnelPipes -----------------------------
(***************************************************************************)
(* What a direct tunnel promises its two ends: each direction is a FIFO    *)
(* pipe of numbered chunks.  A pipe may break at any moment; it then loses *)
(* a suffix of what it holds and everything put in later, but never a      *)
(* chunk in front of one it delivers, and it repeats nothing.              *)
(***************************************************************************)
EXTENDS Integers, Sequences

VARIABLES
    next,     \* number of the next chunk put into a pipe
    transit,  \* what the pipe holds and will deliver unless it breaks
    out,      \* what it delivered, in order
    broken    \* it accepts no more

pipe_vars == <<next, transit, out, broken>>

Directions == {"up", "down"}

PipesInit ==
    /\ next \in [Directions -> 0..2]
    /\ transit = [d \in Directions |-> <<>>]
    /\ out = [d \in Directions |-> <<>>]
    /\ broken = [d \in Directions |-> FALSE]

Put(d) ==
    /\ next' = [next EXCEPT ![d] = @ + 1]
    /\ transit' = IF broken[d] THEN transit
                               ELSE [transit EXCEPT ![d] = Append(@, next[d])]
    /\ UNCHANGED <<out, broken>>

Take(d) ==
    /\ transit[d] # <<>>
    /\ out' = [out EXCEPT ![d] = Append(@, Head(transit[d]))]
    /\ transit' = [transit EXCEPT ![d] = Tail(@)]
    /\ UNCHANGED <<next, broken>>

\* Pipes may break together, and lose more later.
Break ==
    /\ \A d \in Directions :
           /\ broken[d] => broken'[d]
           /\ \/ transit'[d] = transit[d]
              \/ /\ broken'[d]
                 /\ \E n \in 0..Len(transit[d]) :
                        transit'[d] = SubSeq(transit[d], 1, n)
    /\ UNCHANGED <<next, out>>

PipesNext == Break \/ \E d \in Directions : Put(d) \/ Take(d)

PipesSpec == PipesInit /\ [][PipesNext]_pipe_vars
=============================================================================
