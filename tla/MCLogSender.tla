---------------------------- MODULE MCLogSender -----------------------------
(* Either sender; two descriptors, of which log_sender uses one at a time. *)
EXTENDS LogSender

MCMaxMessages(p) == IF p = "log_sender" THEN 4 ELSE 3
=============================================================================
