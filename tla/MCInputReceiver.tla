--------------------------- MODULE MCInputReceiver ---------------------------
(* Three peers; one text takes two reads, and only two peers may wait.      *)
EXTENDS InputReceiver

CONSTANTS p1, p2, p3

MCPeers == {p1, p2, p3}

MCBodySize == [p \in MCPeers |-> IF p = p1 THEN 3 ELSE 1]
=============================================================================
