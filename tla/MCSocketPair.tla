---------------------------- MODULE MCSocketPair ----------------------------
(* Values for TLC: messages of one to three pieces, sockets that hold less    *)
(* than a message, exactly one, and more.                                     *)
EXTENDS SocketPair

Mixed ==
  [program : {"c"}, msg_size : {1}, capacity : {1, 2}, may_die : BOOLEAN]
  \cup [program : {"py"}, msg_size : {1, 2, 3}, capacity : {2, 4}, may_die : BOOLEAN]
=============================================================================
