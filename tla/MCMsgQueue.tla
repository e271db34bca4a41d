----------------------------- MODULE MCMsgQueue -----------------------------
(* Three slots hold two messages; five messages take both positions round  *)
(* the ring with the queue full and empty on the way.                      *)
EXTENDS MsgQueue
=============================================================================
