----------------------------- MODULE LogSearch ------------------------------
(***************************************************************************)
(* How log_processor finds logs: the key and word tries and the times of   *)
(* the bulks, and the loops of Getkey_log, Search_log and SearchTime_log   *)
(* over them.  One thread appends and queries (module BulkStore has the    *)
(* other one); between its requests bulks are saved and evicted, so that   *)
(* tries go to their files, are read back, and are saved again.            *)
(*                                                                         *)
(* A log is a number, the order of its Append_log, and its serial number   *)
(* is one less.  Within a bulk serials are local, and a bulk is its place  *)
(* in bulk_handler_list.  The length of a log is one, BULKSIZE is BulkSize *)
(* logs.  Logs come in the order of their times, as from one clock: the    *)
(* searches in time take that for granted.                                 *)
(***************************************************************************)
EXTENDS Trie, FiniteSetsExt

CONSTANTS
    MaxLogs,          \* bound: logs appended
    MaxTime,          \* bound: the time of a log, and of a query
    MaxQueries,       \* bound: queries asked
    BulkSize,
    MAX_NUM_RESULT,
    Contents,         \* the keys and words of the logs that may come
    AskedKeys,        \* keys that queries name
    AskedWords        \* what search queries ask for: words, and whether the
                      \*   text holds delimiters besides

ASSUME SearchAssumption ==
    /\ {MaxLogs, MaxTime, MaxQueries, MAX_NUM_RESULT} \subseteq Nat
    /\ BulkSize \in Nat \ {0}
    /\ \A content \in Contents : content.key # <<>>

VARIABLES
    logs,             \* all logs stored: key, words, time
    bulks,            \* bulk_handler_list
    files,            \* the trie files of each bulk
    globalTrie,       \* Global_key_bulk_handler_trie
    pc, req,          \* the place in the query under way, and the query
    list, index,      \* SearchTime_log: the bulks of the key, and the one it is at
    todo,             \* Getkey_log, Search_log: bulks to visit
    end_search, start_index, result,
    find,             \* the binary search under way: its kind, array and bound
    left, right,      \* its two indexes
    found,            \* what it has found
    asked,            \* queries begun
    answer            \* the answer just given

storeVars == <<logs, globalTrie, files>>
timeVars == <<list, index, end_search, start_index>>
findVars == <<find, left, right, found>>
queryVars == <<req, todo, result, timeVars, findVars>>
outVars == <<asked, answer>>
vars == <<storeVars, bulks, pc, queryVars, outVars>>

Times == 1 .. MaxTime
NewBulk(n) ==
    [first |-> n, open |-> TRUE, key |-> NewTrie, word |-> NewTrie, times |-> <<>>,
     start_time_ |-> 0, end_time_ |-> 0]
NoFile == [key |-> <<>>, word |-> <<>>]
NoFind == [kind |-> "none", array |-> <<>>, bound |-> 0]
NoReq == [kind |-> "none"]
NoAnswer == [req |-> NoReq, logs |-> <<>>, none |-> FALSE]

Init ==
    /\ logs = <<>>
    /\ bulks = <<NewBulk(1)>> /\ files = <<NoFile>>
    /\ globalTrie = NewTrie
    /\ pc = "idle" /\ req = NoReq
    /\ list = <<>> /\ index = 0 /\ todo = <<>>
    /\ end_search = FALSE /\ start_index = 0 /\ result = <<>>
    /\ find = NoFind /\ left = 0 /\ right = 0 /\ found = 0
    /\ asked = 0 /\ answer = NoAnswer

-----------------------------------------------------------------------------
(* MemoryBulk::Build_index: the log's local serial under its key, and      *)
(* under each of its words as often as the word occurs; its time.          *)
InsertWord_as_is(trie, word, serial) == Insert(trie, word, serial)
InsertWord(trie, word, serial) == Insert(trie, LowerWord(word), serial)

(* The times of the first and the last log, if they come in order.         *)
EarlierStart(bulk, t) ==
    IF bulk.start_time_ > t \/ bulk.start_time_ = 0 THEN t ELSE bulk.start_time_
LaterEnd(bulk, t) == IF bulk.end_time_ < t THEN t ELSE bulk.end_time_

Indexed(bulk, content, t) ==
    LET size_ == Len(bulk.times)
    IN  [bulk EXCEPT
            !.key = Insert(@, content.key, size_),
            !.word = FoldLeft(LAMBDA trie, word : InsertWord(trie, word, size_), @, content.words),
            !.times = Append(@, t),
            !.start_time_ = EarlierStart(bulk, t),
            !.end_time_ = LaterEnd(bulk, t)]

(* Add_key_global_trie: a bulk is listed once under a key.                 *)
AddKey(trie, key, b) ==
    IF Found(trie, key) /\ Values(trie, key) # <<>> /\ Last(Values(trie, key)) = b
      THEN trie ELSE Insert(trie, key, b)

HasRoom_for_one_more(bulk) == bulk.open /\ Len(bulk.times) <= BulkSize    \* a slip
HasRoom(bulk) == bulk.open /\ Len(bulk.times) < BulkSize

(* Append_log: the newest bulk, or a new one if it is full or was saved.   *)
AppendLog ==
    /\ pc = "idle" /\ Len(logs) < MaxLogs
    /\ \E content \in Contents, t \in Times :
         /\ logs # <<>> => Last(logs).time <= t
         /\ LET newest == Last(bulks)
                room   == HasRoom(newest)
                fresh  == NewBulk(newest.first + Len(newest.times))
                rest   == IF room THEN Front(bulks)
                                  ELSE Append(Front(bulks), [newest EXCEPT !.open = FALSE])
            IN  /\ bulks' = Append(rest, Indexed(IF room THEN newest ELSE fresh, content, t))
                /\ files' = IF room THEN files ELSE Append(files, NoFile)
         /\ globalTrie' = AddKey(globalTrie, content.key, Len(bulks'))
         /\ logs' = Append(logs, [key |-> content.key, words |-> content.words, time |-> t])
    /\ answer' = NoAnswer
    /\ UNCHANGED <<pc, queryVars, asked>>

(* Persistence, by a pass over the ring or by the autosave timer, which    *)
(* both come to the oldest bulk first: the tries go to their files (module *)
(* BulkStore has the rest).                                                *)
SaveBulk ==
    /\ pc = "idle"
    /\ \E b \in DOMAIN bulks :
         /\ bulks[b].times # <<>> /\ files[b] = NoFile
         /\ \A older \in 1 .. b - 1 : files[older] # NoFile
         /\ bulks' = [bulks EXCEPT ![b].open = FALSE,
                                   ![b].key = Saved(@), ![b].word = Saved(@)]
         /\ files' = [files EXCEPT ![b] = [key  |-> Lines(bulks[b].key.nodes),
                                           word |-> Lines(bulks[b].word.nodes)]]
    /\ answer' = NoAnswer
    /\ UNCHANGED <<logs, globalTrie, pc, queryVars, asked>>

(* Release_space of a bulk that was read back.                             *)
ReleaseBulk ==
    /\ pc = "idle"
    /\ \E b \in DOMAIN bulks :
         /\ files[b] # NoFile /\ (bulks[b].key.valid \/ bulks[b].word.valid)
         /\ bulks' = [bulks EXCEPT ![b].key = Deleted(@), ![b].word = Deleted(@)]
    /\ answer' = NoAnswer
    /\ UNCHANGED <<storeVars, pc, queryVars, asked>>

-----------------------------------------------------------------------------
(* Getkey_log and Search_log visit bulks from the newest to the oldest.    *)
Newest == Reverse([b \in DOMAIN bulks |-> b])

StartGetkey ==
    /\ pc = "idle" /\ asked < MaxQueries
    /\ \E key \in AskedKeys :
         /\ req' = [kind |-> "getkey", key |-> key]
         /\ todo' = IF Found(globalTrie, key) THEN Reverse(Values(globalTrie, key)) ELSE <<>>
    /\ pc' = "visit" /\ answer' = NoAnswer /\ asked' = asked + 1
    /\ UNCHANGED <<storeVars, bulks, timeVars, result, findVars>>

StartSearch ==
    /\ pc = "idle" /\ asked < MaxQueries
    /\ \E text \in AskedWords :
         /\ req' = [kind |-> "search", words |-> text.words, padded |-> text.padded]
         /\ todo' = IF text.words = <<>> THEN <<>> ELSE Newest
    /\ pc' = "visit" /\ answer' = NoAnswer /\ asked' = asked + 1
    /\ UNCHANGED <<storeVars, bulks, timeVars, result, findVars>>

(* num counts down from MAX_NUM_RESULT, and a loop goes on while num >= 0. *)
Room == MAX_NUM_RESULT + 1 - Len(result)
Visiting == pc = "visit" /\ todo # <<>> /\ Room > 0

(* A trie that is not in memory is read from its file (index_state_).      *)
Loaded(b, trie) == IF bulks[b][trie].valid THEN bulks[b][trie]
                                           ELSE Read(bulks[b][trie], files[b][trie])
Load(b, trie) == bulks' = [bulks EXCEPT ![b][trie] = Loaded(b, trie)]

(* The logs with local serials s[1], s[2], ... of bulk b, the last first.  *)
LatestLogs(b, s, n) ==
    SubSeq(Reverse([i \in DOMAIN s |-> bulks[b].first + s[i]]), 1, Min({n, Len(s)}))

VisitForKey ==
    /\ Visiting /\ req.kind = "getkey"
    /\ LET b == Head(todo) IN
         /\ Load(b, "key")
         /\ result' = IF Found(Loaded(b, "key"), req.key)
                        THEN result \o LatestLogs(b, Values(Loaded(b, "key"), req.key), Room)
                        ELSE result
    /\ todo' = Tail(todo)
    /\ UNCHANGED <<storeVars, pc, req, timeVars, findVars, outVars>>

(* Join_search: an iterator for each word's list; while none is at its     *)
(* end, take the serial they agree on, or advance the smallest.            *)
Join_search(lists) ==
    LET here(at, i) == lists[i][at[i]]
        merged[at \in [DOMAIN lists -> Nat]] ==
            IF \E i \in DOMAIN lists : at[i] > Len(lists[i])
              THEN <<>>
            ELSE IF \A i \in DOMAIN lists : here(at, i) = here(at, 1)
              THEN <<here(at, 1)>> \o merged[[i \in DOMAIN lists |-> at[i] + 1]]
            ELSE LET smallest == CHOOSE i \in DOMAIN lists :
                         /\ \A j \in DOMAIN lists : here(at, i) <= here(at, j)
                         /\ \A j \in 1 .. i - 1 : here(at, i) < here(at, j)
                 IN  merged[[at EXCEPT ![smallest] = @ + 1]]
    IN  merged[[i \in DOMAIN lists |-> 1]]

VisitForWords ==
    /\ Visiting /\ req.kind = "search" /\ Len(req.words) > 1
    /\ LET b    == Head(todo)
           trie == Loaded(b, "word")
       IN  /\ Load(b, "word")
           /\ result' = IF \A i \in DOMAIN req.words : Found(trie, req.words[i])
                          THEN result \o LatestLogs(b,
                                   Join_search([i \in DOMAIN req.words |->
                                                   Values(trie, req.words[i])]), Room)
                          ELSE result
    /\ todo' = Tail(todo)
    /\ UNCHANGED <<storeVars, pc, req, timeVars, findVars, outVars>>

(* One word: the text is looked up as it came, delimiters included ...     *)
FoundWord(b) == ~ req.padded /\ Found(Loaded(b, "word"), req.words[1])
                             /\ Values(Loaded(b, "word"), req.words[1]) # <<>>

VisitInVain ==
    /\ Visiting /\ req.kind = "search" /\ Len(req.words) = 1
    /\ Load(Head(todo), "word")
    /\ ~ FoundWord(Head(todo))
    /\ todo' = Tail(todo)
    /\ UNCHANGED <<storeVars, pc, req, timeVars, result, findVars, outVars>>

(* ... and the loop over its list moves the pointer to the list, not the   *)
(* iterator.  The newest log is appended over and over, until num is below *)
(* zero, or what lies behind the list in memory looks like the end of one, *)
(* or is not the process's to read.                                        *)
RepeatNewest ==
    /\ Visiting /\ req.kind = "search" /\ Len(req.words) = 1
    /\ Load(Head(todo), "word")
    /\ FoundWord(Head(todo))
    /\ LET b == Head(todo)
           log == LatestLogs(b, Values(Loaded(b, "word"), req.words[1]), 1)[1]
       IN  \/ /\ \E n \in 1 .. Room : result' = result \o [i \in 1 .. n |-> log]
              /\ pc' = pc
           \/ /\ pc' = "crashed"
              /\ UNCHANGED result
    /\ todo' = Tail(todo)
    /\ UNCHANGED <<storeVars, req, timeVars, findVars, outVars>>

(* "No result found" is appended when num is 0: the counter counts down.   *)
FinishVisits ==
    /\ pc = "visit" /\ (todo = <<>> \/ Room = 0)
    /\ answer' = [req |-> req, logs |-> result, none |-> Len(result) = MAX_NUM_RESULT]
    /\ pc' = "idle" /\ req' = NoReq /\ todo' = <<>> /\ result' = <<>>
    /\ UNCHANGED <<storeVars, bulks, timeVars, findVars, asked>>

-----------------------------------------------------------------------------
(* The three binary searches: Find_start_time_bulkhandler over the end     *)
(* times of bulks, Find_start_time_serial and Find_end_time_serial over    *)
(* the times of one key's logs in a bulk.  Indexes count from 0, and -1 is *)
(* none.  The upper part of an array is what is over the bound.            *)
Over(kind, t, bound) == IF kind = "start" THEN t >= bound ELSE t > bound

FindIn(kind, array, bound) ==
    /\ find' = [kind |-> kind, array |-> array, bound |-> bound]
    /\ left' = 0 /\ right' = Len(array) - 1 /\ found' = 0
FindNothing == find' = NoFind /\ left' = 0 /\ right' = 0 /\ found' = 0

(* What each returns before its loop.                                      *)
AllOver(f) == Over(f.kind, f.array[1], f.bound)
NoneOver(f, n) == f.array[n] < f.bound \/ (f.kind = "end" /\ f.array[n] = f.bound)
Early(f, n) == n > 0 => AllOver(f) \/ NoneOver(f, n)
EarlyIndex(f, n) ==
    IF n = 0 THEN -1
    ELSE IF AllOver(f) THEN IF f.kind = "end" THEN -1 ELSE 0
    ELSE IF f.kind = "start" THEN -1 ELSE n - 1

FindAtOnce ==
    /\ pc = "find" /\ Early(find, Len(find.array))
    /\ found' = EarlyIndex(find, Len(find.array))
    /\ pc' = "found"
    /\ UNCHANGED <<storeVars, bulks, req, timeVars, todo, result, find, left, right, outVars>>

FindByHalves ==
    /\ pc = "find" /\ ~ Early(find, Len(find.array))
    /\ pc' = "halve"
    /\ UNCHANGED <<storeVars, bulks, queryVars, outVars>>

Middle == left + (right - left) \div 2

GoesLeft_if_above(t) == t > find.bound   \* a slip: the same test in every search
GoesLeft(t) == Over(find.kind, t, find.bound)

Halve ==
    /\ pc = "halve" /\ left <= right
    /\ IF GoesLeft(find.array[Middle + 1])
         THEN right' = Middle - 1 /\ UNCHANGED left
         ELSE left' = Middle + 1 /\ UNCHANGED right
    /\ UNCHANGED <<storeVars, bulks, pc, req, timeVars, todo, result, find, found, outVars>>

EndHalving ==
    /\ pc = "halve" /\ left > right
    /\ found' = IF find.kind = "start" THEN left ELSE right
    /\ pc' = "found"
    /\ UNCHANGED <<storeVars, bulks, req, timeVars, todo, result, find, left, right, outVars>>

-----------------------------------------------------------------------------
(* SearchTime_log: find the bulk to begin with in the list of the key ...  *)
StartSearchTime ==
    /\ pc = "idle" /\ asked < MaxQueries
    /\ \E key \in AskedKeys, start, end \in Times :
         /\ req' = [kind |-> "searchtime", key |-> key, start |-> start, end |-> end]
         /\ list' = IF Found(globalTrie, key) THEN Values(globalTrie, key) ELSE <<>>
         /\ FindIn("bulk", [i \in DOMAIN list' |-> bulks[list'[i]].end_time_], start)
         /\ pc' = IF Found(globalTrie, key) THEN "find" ELSE "finish"
    /\ answer' = NoAnswer /\ asked' = asked + 1
    /\ UNCHANGED <<storeVars, bulks, index, todo, end_search, start_index, result>>

BeginAtBulk ==
    /\ pc = "found" /\ find.kind = "bulk"
    /\ index' = found
    /\ pc' = "bulk"
    /\ FindNothing
    /\ UNCHANGED <<storeVars, bulks, req, list, todo, end_search, start_index, result, outVars>>

(* ... which is none, and read all the same, when the list is empty ...    *)
ReadNoBulk ==
    /\ pc = "bulk" /\ index = -1
    /\ pc' = "crashed"
    /\ UNCHANGED <<storeVars, bulks, queryVars, outVars>>

(* ... then look at each bulk from there on.  Search_time_key passes over  *)
(* a bulk that has ended before the start, and all that follow it ...      *)
AtBulk == pc = "bulk" /\ index \in 0 .. Len(list) - 1
CurrentBulk == list[index + 1]
Ended == req.start > bulks[CurrentBulk].end_time_
NotBegun == req.end < bulks[CurrentBulk].start_time_

PassBulk ==
    /\ AtBulk /\ (Ended \/ NotBegun)
    /\ end_search' = (end_search \/ Ended)
    /\ index' = index + 1
    /\ UNCHANGED <<storeVars, bulks, pc, req, list, todo, start_index, result, findVars, outVars>>

(* ... and otherwise takes the times of the key's logs ...                 *)
Serials == Values(Loaded(CurrentBulk, "key"), req.key)
KeyTimes_of_all ==                       \* a slip: the key's list is left out
    [i \in DOMAIN Serials |-> bulks[CurrentBulk].times[i]]
KeyTimes == [i \in DOMAIN Serials |-> bulks[CurrentBulk].times[Serials[i] + 1]]

SearchBulk ==
    /\ AtBulk /\ ~ Ended /\ ~ NotBegun
    /\ Load(CurrentBulk, "key")
    /\ IF Found(Loaded(CurrentBulk, "key"), req.key)
         THEN /\ FindIn("start", KeyTimes, req.start)
              /\ pc' = "find"
              /\ UNCHANGED index
         ELSE /\ index' = index + 1
              /\ UNCHANGED <<findVars, pc>>
    /\ UNCHANGED <<storeVars, req, list, todo, end_search, start_index, result, outVars>>

(* ... to find the first that is not too early and the last not too late.  *)
KeepStart ==
    /\ pc = "found" /\ find.kind = "start"
    /\ start_index' = found
    /\ FindIn("end", find.array, req.end)
    /\ pc' = "find"
    /\ UNCHANGED <<storeVars, bulks, req, list, index, todo, end_search, result, outVars>>

TakeRange ==
    /\ pc = "found" /\ find.kind = "end"
    /\ result' = IF end_search \/ start_index = -1 \/ found = -1 THEN result
                 ELSE result \o [i \in 1 .. found - start_index + 1 |->
                                    bulks[CurrentBulk].first + Serials[start_index + i]]
    /\ index' = index + 1 /\ start_index' = 0
    /\ FindNothing
    /\ pc' = "bulk"
    /\ UNCHANGED <<storeVars, bulks, req, list, todo, end_search, outVars>>

FinishSearchTime ==
    /\ pc = "finish" \/ (pc = "bulk" /\ index = Len(list))
    /\ answer' = [req |-> req, logs |-> result, none |-> result = <<>>]
    /\ pc' = "idle" /\ req' = NoReq /\ list' = <<>> /\ index' = 0
    /\ end_search' = FALSE /\ start_index' = 0 /\ result' = <<>> /\ FindNothing
    /\ UNCHANGED <<storeVars, bulks, todo, asked>>

-----------------------------------------------------------------------------
Next ==
    \/ AppendLog \/ SaveBulk \/ ReleaseBulk
    \/ StartGetkey \/ StartSearch
    \/ VisitForKey \/ VisitForWords \/ VisitInVain \/ RepeatNewest \/ FinishVisits
    \/ StartSearchTime \/ BeginAtBulk \/ ReadNoBulk \/ PassBulk \/ SearchBulk
    \/ FindAtOnce \/ FindByHalves \/ Halve \/ EndHalving
    \/ KeepStart \/ TakeRange \/ FinishSearchTime

Spec == Init /\ [][Next]_vars

-----------------------------------------------------------------------------
Logs == 1 .. MaxLogs
FindKinds == {"none", "bulk", "start", "end"}
Places == {"idle", "visit", "find", "halve", "found", "bulk", "finish", "crashed"}

TypeOK ==
    /\ logs \in Seq([key : {c.key : c \in Contents}, words : {c.words : c \in Contents},
                     time : Times])
    /\ Len(files) = Len(bulks)
    /\ \A b \in DOMAIN bulks :
         /\ bulks[b].first \in Logs \cup {MaxLogs + 1} /\ bulks[b].open \in BOOLEAN
         /\ bulks[b].times \in Seq(Times) /\ Len(bulks[b].times) <= BulkSize
         /\ bulks[b].start_time_ \in 0 .. MaxTime /\ bulks[b].end_time_ \in 0 .. MaxTime
         /\ \A kind \in {"key", "word"} : \A p \in DOMAIN bulks[b][kind].nodes :
                bulks[b][kind].nodes[p] \in Seq(0 .. BulkSize - 1)
    /\ pc \in Places
    /\ list \in Seq(DOMAIN bulks) /\ index \in -1 .. Len(list)
    /\ todo \in Seq(DOMAIN bulks)
    /\ end_search \in BOOLEAN /\ start_index \in -1 .. BulkSize
    /\ result \in Seq(Logs)
    /\ find.kind \in FindKinds /\ find.array \in Seq(Times) /\ find.bound \in 0 .. MaxTime
    /\ {left, right, found} \subseteq -1 .. Len(find.array)
    /\ asked \in 0 .. MaxQueries
    /\ answer.logs \in Seq(Logs) /\ answer.none \in BOOLEAN

(* What the answers ought to be, from the logs alone.                      *)
Number == [n \in DOMAIN logs |-> n]
WithKey(key) == SelectSeq(Number, LAMBDA n : logs[n].key = key)

(* How often a word of a query is among the words of a log, converted.     *)
Occurrences(word, n) == Cardinality({i \in DOMAIN logs[n].words :
                                        LowerWord(logs[n].words[i]) = word})
WithWords(words) ==
    FlattenSeq([n \in DOMAIN logs |->
        [i \in 1 .. Min({Occurrences(words[j], n) : j \in DOMAIN words}) |-> n]])
NewestOf(s) == SubSeq(Reverse(s), 1, Min({Len(s), MAX_NUM_RESULT + 1}))

(* Getkey_log answers with the newest logs of the key, newest first, and   *)
(* Search_log for two words or more with the newest logs that hold all of  *)
(* them, up to one more than MAX_NUM_RESULT, whatever bulks they are in    *)
(* and whether their tries are in memory or have to be read back.  (A log  *)
(* is repeated if it holds every word of the query repeatedly; a capital   *)
(* letter in a query finds nothing.)  A query for one word (data_manager   *)
(* .cpp:581) names no log that does not hold the word, and is answered     *)
(* with none only if there is none or the text held delimiters.            *)
AnswersExact ==
    /\ answer.req.kind = "getkey" => answer.logs = NewestOf(WithKey(answer.req.key))
    /\ answer.req.kind = "search" =>
         CASE Len(answer.req.words) > 1 -> answer.logs = NewestOf(WithWords(answer.req.words))
           [] Len(answer.req.words) = 1 ->
                LET holding == WithWords(answer.req.words)
                IN  /\ ToSet(answer.logs) \subseteq ToSet(holding)
                    /\ answer.logs = <<>> => holding = <<>> \/ answer.req.padded
           [] OTHER -> answer.logs = <<>>

(* SearchTime_log answers with logs of the key within the two times, in    *)
(* order, and with all of them if the search starts before the end of the  *)
(* first bulk with that key, or at the very end of just one of its bulks.  *)
(* (Otherwise the bulk that the search begins with has ended, end_search   *)
(* is set, and the later bulks, which may hold what is asked for, are      *)
(* passed over: data_manager.cpp:823.)  The process falls over a key only  *)
(* if no log has it, but it begins a key that some log has.                *)
InRange(q) == SelectSeq(WithKey(q.key), LAMBDA n : q.start <= logs[n].time
                                                   /\ logs[n].time <= q.end)
IsKeyBeginning(key) == \E n \in DOMAIN logs : IsStrictPrefix(key, logs[n].key)

TimeAnswers ==
    /\ answer.req.kind = "searchtime" =>
         LET q      == answer.req
             holder == {b \in DOMAIN bulks : \E n \in DOMAIN logs :
                            /\ logs[n].key = q.key
                            /\ bulks[b].first <= n /\ n < bulks[b].first + Len(bulks[b].times)}
             ending == {b \in holder : bulks[b].end_time_ = q.start}
         IN  /\ answer.logs = SelectSeq(InRange(q), LAMBDA n : n \in ToSet(answer.logs))
             /\ \/ holder # {} /\ q.start < bulks[Min(holder)].end_time_
                \/ Cardinality(ending) = 1
                => answer.logs = InRange(q)
    /\ pc = "crashed" /\ req.kind = "searchtime" =>
         WithKey(req.key) = <<>> /\ IsKeyBeginning(req.key)

(* Each binary search finds what it is for, if its times are in order: the *)
(* first time that is not before the start, the last that is not after the *)
(* end, and, among bulks, the last that has not ended after the start (or  *)
(* the first bulk of all).                                                 *)
Ordered(array) ==
    array \in Seq(Nat) /\ \A i, j \in 1 .. Len(array) : i <= j => array[i] <= array[j]
IsOver(f, i) == Over(f.kind, f.array[i], f.bound)

FoundRight ==
    pc = "found" /\ Ordered(find.array) =>
        LET n == Len(find.array)
            k == found
        IN  /\ find.kind = "start" =>
                 /\ k \in -1 .. n - 1
                 /\ \A i \in 1 .. n : IsOver(find, i) <=> k # -1 /\ i > k
            /\ find.kind = "end" =>
                 /\ k \in -1 .. n - 1
                 /\ \A i \in 1 .. n : IsOver(find, i) <=> i > k + 1
            /\ find.kind = "bulk" /\ n > 0 =>
                 /\ k \in 0 .. n - 1
                 /\ \A i \in 2 .. n : IsOver(find, i) <=> i > k + 1
=============================================================================
