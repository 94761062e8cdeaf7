--------------------------- MODULE MCRocksServer ---------------------------
(* Two clients that write, two that read, descriptors for three and the    *)
(* database, and texts that arrive whole, in part or not at all.           *)
EXTENDS RocksServer

CONSTANTS c1, c2, c3, c4

MCClients == {c1, c2, c3, c4}

MCWants == [c \in MCClients |-> IF c \in {c1, c2} THEN "w" ELSE "r"]
=============================================================================
