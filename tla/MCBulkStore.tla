---------------------------- MODULE MCBulkStore -----------------------------
(***************************************************************************)
(* The first log has a key of its own: a full first bulk mixes the keys,   *)
(* and if it was saved early the second bulk has one key twice.  A ring of *)
(* three slots with a threshold of two: logs enough for both positions to  *)
(* wrap and, with bulks of one log, for the ring to be full; ticks enough  *)
(* for each timer to fire before, between and after the other thread's     *)
(* steps.                                                                  *)
(***************************************************************************)
EXTENDS BulkStore

MCKeyOf(n) == IF n = 1 THEN "rare" ELSE "common"

(* What promises something until an autosave hits an append need not be    *)
(* looked at after it: hit stays TRUE.  The run of what holds for good     *)
(* goes on.                                                                *)
UntilHit == ~ hit
=============================================================================
