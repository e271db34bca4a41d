-------------------------- MODULE LogSearchProofs ---------------------------
(***************************************************************************)
(* The three binary searches of LogSearch find what they are for, for      *)
(* every list of times in order, whatever its length.                      *)
(*                                                                         *)
(* All three keep one loop invariant: what lies before left is not over    *)
(* the bound, what lies after right is.  Before the loop both parts are    *)
(* empty; after it they meet.  The early returns have ruled out that the   *)
(* two indexes run off the array on the side where that would be wrong.    *)
(***************************************************************************)
EXTENDS LogSearch, TLAPS

Searches == {"bulk", "start", "end"}

(* The times asked for are numbers as long as a search in time runs.       *)
ReqTimed ==
    pc \in {"find", "halve", "found", "bulk"} => req.start \in Times /\ req.end \in Times

(* The loop invariant, of a search f with the indexes l and r.             *)
Halves(f, l, r) ==
    LET n == Len(f.array)
    IN  /\ n > 0 /\ ~ AllOver(f) /\ ~ NoneOver(f, n)
        /\ l \in 0 .. n /\ r \in -1 .. n - 1 /\ l <= r + 1
        /\ \A i \in 1 .. n : i <= l => ~ IsOver(f, i)
        /\ \A i \in 1 .. n : i > r + 1 => IsOver(f, i)

(* What FoundRight says of the index k that a search f has found.          *)
Right(f, k) ==
    LET n == Len(f.array)
    IN  /\ f.kind = "start" =>
             /\ k \in -1 .. n - 1
             /\ \A i \in 1 .. n : IsOver(f, i) <=> k # -1 /\ i > k
        /\ f.kind = "end" =>
             /\ k \in -1 .. n - 1
             /\ \A i \in 1 .. n : IsOver(f, i) <=> i > k + 1
        /\ f.kind = "bulk" /\ n > 0 =>
             /\ k \in 0 .. n - 1
             /\ \A i \in 2 .. n : IsOver(f, i) <=> i > k + 1

FindInv ==
    /\ pc \in {"find", "halve", "found"} => find.kind \in Searches /\ find.bound \in Nat
    /\ pc = "find" => left = 0 /\ right = Len(find.array) - 1
    /\ pc = "halve" /\ Ordered(find.array) => Halves(find, left, right)
    /\ pc = "found" /\ Ordered(find.array) => Right(find, found)

IInv == ReqTimed /\ FindInv

-----------------------------------------------------------------------------
LEMMA TimesNat == Times \subseteq Nat
  BY SearchAssumption DEF Times

(* Whatever comes after a time that is over the bound is over it too.      *)
LEMMA OverUpward ==
    ASSUME NEW f, Ordered(f.array), f.bound \in Nat,
           NEW i \in 1 .. Len(f.array), NEW j \in 1 .. Len(f.array), i <= j, IsOver(f, i)
    PROVE  IsOver(f, j)
<1>1. f.array \in Seq(Nat) /\ f.array[i] <= f.array[j]
  BY DEF Ordered
<1>2. f.array[i] \in Nat /\ f.array[j] \in Nat
  BY <1>1
<1>3. \A s, t, bound \in Nat : s <= t => (s >= bound => t >= bound) /\ (s > bound => t > bound)
  OBVIOUS
<1> QED
  BY <1>1, <1>2, <1>3 DEF IsOver, Over

(* What is found before the loop.                                          *)
LEMMA EarlyRight ==
    ASSUME NEW f, f.kind \in Searches, f.bound \in Nat, Ordered(f.array),
           Early(f, Len(f.array))
    PROVE  Right(f, EarlyIndex(f, Len(f.array)))
<1> DEFINE n == Len(f.array)
           k == EarlyIndex(f, n)
<1>0. n \in Nat /\ \A i \in 1 .. n : f.array[i] \in Nat
  BY DEF Ordered
<1>1. CASE n = 0
  BY <1>0, <1>1 DEF EarlyIndex, Searches, Right
<1>2. CASE n > 0 /\ AllOver(f)
  <2>1. \A i \in 1 .. n : IsOver(f, i)
    <3>1. IsOver(f, 1)
      BY <1>2 DEF AllOver, IsOver
    <3> QED
      BY <3>1, <1>0, <1>2, OverUpward
  <2>2. k = IF f.kind = "end" THEN -1 ELSE 0
    BY <1>0, <1>2 DEF EarlyIndex
  <2> QED
    BY <1>0, <1>2, <2>1, <2>2 DEF Searches, Right
<1>3. CASE n > 0 /\ ~ AllOver(f) /\ NoneOver(f, n)
  <2>1. \A i \in 1 .. n : ~ IsOver(f, i)
    <3>1. ~ IsOver(f, n)
      BY <1>0, <1>3 DEF NoneOver, IsOver, Over, Searches
    <3> QED
      BY <3>1, <1>0, <1>3, OverUpward
  <2>2. k = IF f.kind = "start" THEN -1 ELSE n - 1
    BY <1>0, <1>3 DEF EarlyIndex
  <2> QED
    BY <1>0, <1>3, <2>1, <2>2 DEF Searches, Right
<1> QED
  BY <1>0, <1>1, <1>2, <1>3 DEF Early

(* The loop begins with the whole array between the two indexes ...        *)
LEMMA HalvesAtFirst ==
    ASSUME NEW f, Ordered(f.array), ~ Early(f, Len(f.array))
    PROVE  Halves(f, 0, Len(f.array) - 1)
<1>1. Len(f.array) \in Nat
  BY DEF Ordered
<1>2. Len(f.array) > 0 /\ ~ AllOver(f) /\ ~ NoneOver(f, Len(f.array))
  BY <1>1 DEF Early
<1> QED
  BY <1>1, <1>2 DEF Halves

(* ... each turn moves one of them past the middle, which it has compared, *)
LEMMA HalvesOn ==
    ASSUME NEW f, f.bound \in Nat, Ordered(f.array), NEW l, NEW r, Halves(f, l, r),
           NEW m \in Int, l <= m, m <= r
    PROVE  IF IsOver(f, m + 1) THEN Halves(f, l, m - 1) ELSE Halves(f, m + 1, r)
<1> DEFINE n == Len(f.array)
<1>0. n \in Nat /\ l \in Int /\ r \in Int /\ m + 1 \in 1 .. n
  BY DEF Ordered, Halves
<1>1. CASE IsOver(f, m + 1)
  <2>1. \A i \in 1 .. n : i > m => IsOver(f, i)
    BY <1>0, <1>1, OverUpward
  <2> QED
    BY <1>0, <1>1, <2>1 DEF Halves
<1>2. CASE ~ IsOver(f, m + 1)
  <2>1. \A i \in 1 .. n : i <= m + 1 => ~ IsOver(f, i)
    BY <1>0, <1>2, OverUpward
  <2> QED
    BY <1>0, <1>2, <2>1 DEF Halves
<1> QED
  BY <1>1, <1>2

(* ... and when they have met, the lower part ends where the upper begins. *)
LEMMA HalvesEnd ==
    ASSUME NEW f, f.kind \in Searches, f.bound \in Nat, Ordered(f.array),
           NEW l, NEW r, Halves(f, l, r), l > r
    PROVE  Right(f, IF f.kind = "start" THEN l ELSE r)
<1> DEFINE n == Len(f.array)
<1>0. n \in Nat /\ n > 0 /\ \A i \in 1 .. n : f.array[i] \in Nat
  BY DEF Ordered, Halves
<1>1. l \in 0 .. n /\ r \in -1 .. n - 1 /\ l = r + 1
  BY <1>0 DEF Halves
<1>2. \A i \in 1 .. n : IsOver(f, i) <=> i > l
  BY <1>0, <1>1 DEF Halves
<1>3. ~ IsOver(f, 1)
  BY DEF Halves, AllOver, IsOver
<1>4. f.kind = "start" => IsOver(f, n)
  BY <1>0 DEF Halves, NoneOver, IsOver, Over
<1>5. r >= 0
  BY <1>0, <1>1, <1>2, <1>3
<1>6. f.kind = "start" => l <= n - 1
  BY <1>0, <1>1, <1>2, <1>4
<1> QED
  BY <1>0, <1>1, <1>2, <1>5, <1>6 DEF Searches, Right

-----------------------------------------------------------------------------
LEMMA InitInv == Init => IInv
  BY DEF Init, IInv, ReqTimed, FindInv

(* Steps outside the searches: pc ends up where nothing is claimed.        *)
LEMMA ElsewhereKeeps ==
    ASSUME IInv, pc' \notin {"find", "halve", "found", "bulk"}
    PROVE  IInv'
  BY DEF IInv, ReqTimed, FindInv

LEMMA StutterKeeps ==
    ASSUME IInv, UNCHANGED vars
    PROVE  IInv'
  BY DEF IInv, ReqTimed, FindInv, vars, storeVars, queryVars, timeVars, findVars, outVars,
         Halves, Right, AllOver, NoneOver, IsOver

(* A search begins: in the list of bulks, in a bulk, or for the end after  *)
(* the start.                                                              *)
LEMMA BeginKeeps ==
    ASSUME NEW kind \in Searches, NEW array, NEW bound \in Times,
           FindIn(kind, array, bound), pc' = "find", ReqTimed'
    PROVE  IInv'
<1>1. find'.kind = kind /\ find'.array = array /\ find'.bound = bound
      /\ left' = 0 /\ right' = Len(array) - 1
  BY DEF FindIn
<1> QED
  BY <1>1, TimesNat DEF IInv, FindInv

LEMMA StartSearchTimeKeeps == IInv /\ StartSearchTime => IInv'
<1> SUFFICES ASSUME IInv, StartSearchTime PROVE IInv'
  OBVIOUS
<1>1. PICK key \in AskedKeys, start \in Times, end \in Times :
         /\ req' = [kind |-> "searchtime", key |-> key, start |-> start, end |-> end]
         /\ FindIn("bulk", [i \in DOMAIN list' |-> bulks[list'[i]].end_time_], start)
         /\ pc' = IF Found(globalTrie, key) THEN "find" ELSE "finish"
  BY DEF StartSearchTime
<1>2. req'.start \in Times /\ req'.end \in Times
  BY <1>1
<1>3. CASE pc' = "find"
  BY <1>1, <1>2, <1>3, BeginKeeps DEF ReqTimed, Searches
<1>4. CASE pc' = "finish"
  BY <1>4, ElsewhereKeeps
<1> QED
  BY <1>1, <1>3, <1>4

LEMMA SearchBulkKeeps == IInv /\ SearchBulk => IInv'
<1> SUFFICES ASSUME IInv, SearchBulk PROVE IInv'
  OBVIOUS
<1>1. pc = "bulk" /\ req' = req /\ req.start \in Times /\ req.end \in Times
  BY DEF SearchBulk, AtBulk, IInv, ReqTimed
<1>2. CASE Found(Loaded(CurrentBulk, "key"), req.key)
  <2>1. FindIn("start", KeyTimes, req.start) /\ pc' = "find"
    BY <1>2 DEF SearchBulk
  <2> QED
    BY <1>1, <2>1, BeginKeeps DEF ReqTimed, Searches
<1>3. CASE ~ Found(Loaded(CurrentBulk, "key"), req.key)
  <2>1. pc' = "bulk"
    BY <1>1, <1>3 DEF SearchBulk
  <2> QED
    BY <1>1, <2>1 DEF IInv, ReqTimed, FindInv
<1> QED
  BY <1>2, <1>3

LEMMA KeepStartKeeps == IInv /\ KeepStart => IInv'
<1> SUFFICES ASSUME IInv, KeepStart PROVE IInv'
  OBVIOUS
<1>1. req' = req /\ req.start \in Times /\ req.end \in Times
  BY DEF KeepStart, IInv, ReqTimed
<1>2. FindIn("end", find.array, req.end) /\ pc' = "find"
  BY DEF KeepStart
<1> QED
  BY <1>1, <1>2, BeginKeeps DEF ReqTimed, Searches

(* From one bulk to the next, no search is under way.                      *)
LEMMA BulkKeeps ==
    ASSUME IInv, pc' = "bulk", req' = req, pc \in {"found", "bulk"}
    PROVE  IInv'
  BY DEF IInv, ReqTimed, FindInv

-----------------------------------------------------------------------------
LEMMA FindAtOnceKeeps == IInv /\ FindAtOnce => IInv'
<1> SUFFICES ASSUME IInv, FindAtOnce PROVE IInv'
  OBVIOUS
<1>1. pc = "find" /\ pc' = "found" /\ find' = find /\ req' = req
      /\ Early(find, Len(find.array)) /\ found' = EarlyIndex(find, Len(find.array))
  BY DEF FindAtOnce
<1>2. find.kind \in Searches /\ find.bound \in Nat
  BY <1>1 DEF IInv, FindInv
<1>3. Ordered(find.array) => Right(find, found')
  BY <1>1, <1>2, EarlyRight
<1>4. ReqTimed'
  BY <1>1 DEF IInv, ReqTimed
<1> QED
  BY <1>1, <1>2, <1>3, <1>4 DEF IInv, FindInv, Right, IsOver

LEMMA FindByHalvesKeeps == IInv /\ FindByHalves => IInv'
<1> SUFFICES ASSUME IInv, FindByHalves PROVE IInv'
  OBVIOUS
<1>1. pc = "find" /\ pc' = "halve" /\ find' = find /\ req' = req
      /\ left' = left /\ right' = right /\ ~ Early(find, Len(find.array))
  BY DEF FindByHalves, queryVars, findVars
<1>2. find.kind \in Searches /\ find.bound \in Nat
      /\ left = 0 /\ right = Len(find.array) - 1
  BY <1>1 DEF IInv, FindInv
<1>3. Ordered(find.array) => Halves(find, left, right)
  BY <1>1, <1>2, HalvesAtFirst
<1>4. ReqTimed'
  BY <1>1 DEF IInv, ReqTimed
<1> QED
  BY <1>1, <1>2, <1>3, <1>4 DEF IInv, FindInv, Halves, AllOver, NoneOver, IsOver

LEMMA HalveKeeps == IInv /\ Halve => IInv'
<1> SUFFICES ASSUME IInv, Halve PROVE IInv'
  OBVIOUS
<1>1. pc = "halve" /\ pc' = "halve" /\ find' = find /\ req' = req /\ left <= right
  BY DEF Halve
<1>2. find.kind \in Searches /\ find.bound \in Nat
  BY <1>1 DEF IInv, FindInv
<1>3. Ordered(find.array) => Halves(find, left', right')
  <2> SUFFICES ASSUME Ordered(find.array) PROVE Halves(find, left', right')
    OBVIOUS
  <2>1. Halves(find, left, right)
    BY <1>1 DEF IInv, FindInv
  <2>2. left \in Int /\ right \in Int
    BY <2>1 DEF Halves, Ordered
  <2>3. Middle \in Int /\ left <= Middle /\ Middle <= right
    BY <1>1, <2>2 DEF Middle
  <2>4. GoesLeft(find.array[Middle + 1]) <=> IsOver(find, Middle + 1)
    BY DEF GoesLeft, IsOver
  <2>5. IF IsOver(find, Middle + 1) THEN Halves(find, left, Middle - 1)
                                    ELSE Halves(find, Middle + 1, right)
    BY <1>2, <2>1, <2>3, HalvesOn
  <2>6. CASE IsOver(find, Middle + 1)
    BY <2>4, <2>5, <2>6 DEF Halve
  <2>7. CASE ~ IsOver(find, Middle + 1)
    BY <2>4, <2>5, <2>7 DEF Halve
  <2> QED
    BY <2>6, <2>7
<1>4. ReqTimed'
  BY <1>1 DEF IInv, ReqTimed
<1> QED
  BY <1>1, <1>2, <1>3, <1>4 DEF IInv, FindInv, Halves, AllOver, NoneOver, IsOver

LEMMA EndHalvingKeeps == IInv /\ EndHalving => IInv'
<1> SUFFICES ASSUME IInv, EndHalving PROVE IInv'
  OBVIOUS
<1>1. pc = "halve" /\ pc' = "found" /\ find' = find /\ req' = req /\ left > right
      /\ found' = IF find.kind = "start" THEN left ELSE right
  BY DEF EndHalving
<1>2. find.kind \in Searches /\ find.bound \in Nat
  BY <1>1 DEF IInv, FindInv
<1>3. Ordered(find.array) => Right(find, found')
  <2> SUFFICES ASSUME Ordered(find.array) PROVE Right(find, found')
    OBVIOUS
  <2>1. Halves(find, left, right)
    BY <1>1 DEF IInv, FindInv
  <2> QED
    BY <1>1, <1>2, <2>1, HalvesEnd
<1>4. ReqTimed'
  BY <1>1 DEF IInv, ReqTimed
<1> QED
  BY <1>1, <1>2, <1>3, <1>4 DEF IInv, FindInv, Right, IsOver

-----------------------------------------------------------------------------
LEMMA NextInv == IInv /\ [Next]_vars => IInv'
<1> SUFFICES ASSUME IInv, [Next]_vars PROVE IInv'
  OBVIOUS
<1>1. CASE AppendLog \/ SaveBulk \/ ReleaseBulk
  <2>1. pc' = "idle"
    BY <1>1 DEF AppendLog, SaveBulk, ReleaseBulk
  <2> QED
    BY <2>1, ElsewhereKeeps
<1>2. CASE StartGetkey \/ StartSearch \/ VisitForKey \/ VisitForWords \/ VisitInVain
  <2>1. pc' = "visit"
    BY <1>2 DEF StartGetkey, StartSearch, VisitForKey, VisitForWords, VisitInVain, Visiting
  <2> QED
    BY <2>1, ElsewhereKeeps
<1>3. CASE RepeatNewest
  <2>1. pc' \in {"visit", "crashed"}
    BY <1>3 DEF RepeatNewest, Visiting
  <2> QED
    BY <2>1, ElsewhereKeeps
<1>4. CASE FinishVisits \/ FinishSearchTime
  <2>1. pc' = "idle"
    BY <1>4 DEF FinishVisits, FinishSearchTime
  <2> QED
    BY <2>1, ElsewhereKeeps
<1>5. CASE StartSearchTime
  BY <1>5, StartSearchTimeKeeps
<1>6. CASE BeginAtBulk \/ PassBulk \/ TakeRange
  <2>1. pc' = "bulk" /\ req' = req /\ pc \in {"found", "bulk"}
    BY <1>6 DEF BeginAtBulk, PassBulk, AtBulk, TakeRange
  <2> QED
    BY <2>1, BulkKeeps
<1>7. CASE ReadNoBulk
  <2>1. pc' = "crashed"
    BY <1>7 DEF ReadNoBulk
  <2> QED
    BY <2>1, ElsewhereKeeps
<1>8. CASE SearchBulk
  BY <1>8, SearchBulkKeeps
<1>9. CASE FindAtOnce
  BY <1>9, FindAtOnceKeeps
<1>10. CASE FindByHalves
  BY <1>10, FindByHalvesKeeps
<1>11. CASE Halve
  BY <1>11, HalveKeeps
<1>12. CASE EndHalving
  BY <1>12, EndHalvingKeeps
<1>13. CASE KeepStart
  BY <1>13, KeepStartKeeps
<1>14. CASE UNCHANGED vars
  BY <1>14, StutterKeeps
<1> QED
  BY <1>1, <1>2, <1>3, <1>4, <1>5, <1>6, <1>7, <1>8, <1>9, <1>10, <1>11, <1>12, <1>13,
     <1>14 DEF Next

LEMMA InvFoundRight == IInv => FoundRight
  BY DEF IInv, FindInv, FoundRight, Right

(* The binary searches of data_manager.cpp:685-804 and Search_time_key are *)
(* right for every array, bound and order of requests: FoundRight holds in *)
(* every state, however many logs there are and whatever times they have.  *)
THEOREM SearchesFindRight == Spec => []FoundRight
<1>1. Spec => []IInv
  BY InitInv, NextInv, PTL DEF Spec
<1> QED
  BY <1>1, InvFoundRight, PTL
=============================================================================
