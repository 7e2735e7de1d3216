----------------------------- MODULE TunnelStream -----------------------------
(***************************************************************************)
(* What a tunnel promises its two ends while no connection is cut in the   *)
(* middle of an exchange: each direction is a pipe that holds one chunk at *)
(* a time, keeps the order, loses nothing and invents nothing, for as long *)
(* as there is somebody at the far end.                                    *)
(***************************************************************************)
EXTENDS Naturals, Sequences

VARIABLES
    upTaken,    \* chunks read from the client
    upGiven,    \* chunks handed to the target, in order
    downTaken,  \* chunks read from the target
    downGiven,  \* chunks handed to the client, in order
    peer,       \* the target: "pending", "there" or "gone"
    ended       \* the tunnel reads the client no more

stream_vars == <<upTaken, upGiven, downTaken, downGiven, peer, ended>>

StreamInit ==
    /\ upTaken \in 0..1 /\ upGiven = <<>>   \* a client may pipeline one chunk
    /\ downTaken = 0 /\ downGiven = <<>>
    /\ peer = "pending" /\ ended = FALSE

\* The target answers the connection attempt; a pipelined chunk goes with it.
PeerJoins ==
    /\ peer = "pending" /\ peer' = "there"
    /\ upGiven' = IF upTaken = 1 THEN <<1>> ELSE upGiven
    /\ UNCHANGED <<upTaken, downTaken, downGiven, ended>>

PeerLeaves ==
    /\ peer # "gone" /\ peer' = "gone"
    /\ UNCHANGED <<upTaken, upGiven, downTaken, downGiven, ended>>

\* Backpressure: the next chunk is read once the last one is delivered, or
\* when nobody is left to deliver it to.
TakeUp ==
    /\ ~ended /\ peer # "pending"
    /\ peer = "there" => upTaken = Len(upGiven)
    /\ upTaken' = upTaken + 1
    /\ UNCHANGED <<upGiven, downTaken, downGiven, peer, ended>>

GiveUp ==
    /\ peer = "there" /\ Len(upGiven) < upTaken
    /\ upGiven' = Append(upGiven, upTaken)
    /\ UNCHANGED <<upTaken, downTaken, downGiven, peer, ended>>

TakeDown ==
    /\ peer # "pending"
    /\ downTaken = Len(downGiven)
    /\ downTaken' = downTaken + 1
    /\ UNCHANGED <<upTaken, upGiven, downGiven, peer, ended>>

GiveDown ==
    /\ Len(downGiven) < downTaken
    /\ downGiven' = Append(downGiven, downTaken)
    /\ UNCHANGED <<upTaken, upGiven, downTaken, peer, ended>>

End ==
    /\ ~ended /\ ended' = TRUE
    /\ UNCHANGED <<upTaken, upGiven, downTaken, downGiven, peer>>

StreamNext ==
    PeerJoins \/ PeerLeaves \/ TakeUp \/ GiveUp \/ TakeDown \/ GiveDown \/ End

StreamSpec == StreamInit /\ [][StreamNext]_stream_vars
=============================================================================
