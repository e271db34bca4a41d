---------------------------- MODULE MCLogServer -----------------------------
(***************************************************************************)
(* A log_sender with two messages, a client that appends and then asks,    *)
(* one that only asks, with the same client id, and may give up, so that   *)
(* its descriptor comes to another, and one whose request is invalid.  An  *)
(* answered connection keeps its descriptor, and there are fewer than      *)
(* connections.  Answers of two or three blocks take several rounds of the *)
(* server's loop.                                                          *)
(***************************************************************************)
EXTENDS LogServer

MCScript(k) == CASE k = "sender" -> <<"append", "append">>
                 [] k = "both" -> <<"append", "query">>
                 [] k = "asker" -> <<"query">>
                 [] k = "wrong" -> <<"invalid">>
MCClientId(k) == CASE k = "sender" -> 1 [] k = "wrong" -> 3 [] OTHER -> 2
MCResultBlocks(k) == IF k = "both" THEN 2 ELSE 1

(* Any three of the four connect: there are two descriptors.  Nor is the   *)
(* run followed once log_server has exited or a client was cut short: then *)
(* only the types are promised.                                            *)
GoesOn == /\ \E k \in Conns : link[k] = "none"
          /\ ~ cutShort /\ spc # "exited"
=============================================================================
