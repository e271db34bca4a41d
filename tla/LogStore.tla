------------------------------ MODULE LogStore ------------------------------
(***************************************************************************)
(* What log_processor promises its clients: every log it has appended is   *)
(* found by every later query that asks for it, once, in order, wherever   *)
(* the log may be by then -- in a buffer, in a file, or read back from     *)
(* one.  Logs are numbered in the order they are stored.                   *)
(***************************************************************************)
EXTENDS Naturals, Sequences, SequencesExt, Ascending

CONSTANTS Keys, KeyOf(_), RecentCount

VARIABLES stored,   \* the number of logs stored
          answer    \* the last answer given

vars == <<stored, answer>>

QueryKinds == {"recent", "getkey", "search", "searchtime"}

OldestFirst(k) == Ascending({n \in 1 .. stored : KeyOf(n) = k})
NewestFirst(k) == Reverse(OldestFirst(k))
MostRecent == [i \in 1 .. (IF stored < RecentCount THEN stored ELSE RecentCount)
                 |-> stored + 1 - i]

Answer(kind, k) ==
    [kind |-> kind, key |-> k,
     logs |-> CASE kind = "recent" -> MostRecent
                [] kind = "searchtime" -> OldestFirst(k)
                [] OTHER -> NewestFirst(k)]

Init == stored = 0 /\ answer = [kind |-> "none"]

Store == stored' = stored + 1 /\ UNCHANGED answer

Query == \E kind \in QueryKinds, k \in Keys :
            answer' = Answer(kind, k) /\ UNCHANGED stored

Next == Store \/ Query

Spec == Init /\ [][Next]_vars
=============================================================================
