----------------------------- MODULE MCPollFaults -----------------------------
(* PollTunnel for TLC under every fault, with connections reused and, in other *)
(* behaviours of the same run, not reused.                                     *)
EXTENDS PollTunnel, TLC

VARIABLE reuse      \* general.connectionReuse in this behaviour

\* The tunnel without reuse; PollTunnel itself is given Reuse = TRUE.
Single == INSTANCE PollTunnel WITH Reuse <- FALSE

\* With reuse, chunks are many downstream or upstream, not both: their product
\* is too large.
FewChunks == upRead' <= 1 \/ produced' = 0

FaultsInit ==
    /\ reuse \in BOOLEAN
    /\ IF reuse THEN Init ELSE Single!Init

FaultsNext ==
    /\ UNCHANGED reuse
    /\ \/ reuse /\ Next /\ FewChunks
       \/ ~reuse /\ Single!Next

FaultsSpec == FaultsInit /\ [][FaultsNext]_<<reuse, vars>>

ConnSymmetry == Permutations(Conns)

\* Without reuse nothing is repeated: while no two writes to the target
\* overlapped, no chunk reaches it twice.
SingleCopies == ~reuse => Single!BoundedCopies

\* Without reuse every post waits on a connection of its own.
SingleConnection == ~reuse => Single!OwnConnection
=============================================================================
