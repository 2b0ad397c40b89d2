-------------------------- MODULE MCBroadcastJoin --------------------------
EXTENDS BroadcastJoin, SequencesExt

CONSTANT MaxRows    \* bound on the rows of a partition

MCKey == {"a", "b", "null"}
MCCode == [k \in MCKey |-> k]
MCParts == BoundedSeq(MCKey, MaxRows)
MCSmalls == BoundedSeq(MCKey, 2)
=============================================================================
