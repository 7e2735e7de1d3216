----------------------------- MODULE MCPollTunnel -----------------------------
(* PollTunnel for TLC: connections are interchangeable, which the runs that  *)
(* check no liveness use.                                                    *)
EXTENDS PollTunnel, TLC

ConnSymmetry == Permutations(Conns)
=============================================================================
