--------------------------- MODULE MCBufferSender ---------------------------
(* Four messages, sockets for two, and a manager that fails three times:   *)
(* two early closes leave no descriptor for the messages that follow.      *)
EXTENDS BufferSender
=============================================================================
