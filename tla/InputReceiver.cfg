SPECIFICATION Spec
CONSTANTS
    p1 = p1
    p2 = p2
    p3 = p3
    Peers <- MCPeers
    BodySize <- MCBodySize
    HeaderSize = 2
    BufSize = 3
    Width = 4
    Backlog = 1
INVARIANTS
    ParsesWholeText
    QueuedInOrder
PROPERTY
    ArrivedIsQueued
CHECK_DEADLOCK FALSE
