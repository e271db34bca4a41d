------------------------------ MODULE MCRWLock ------------------------------
(* Three threads: enough for two readers beside a waiting writer, and for  *)
(* a reader and a writer asleep together.                                  *)
EXTENDS RWLock
=============================================================================
