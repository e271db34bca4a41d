----------------------------- MODULE BulkStore ------------------------------
(***************************************************************************)
(* The storage engine of log_processor: its main thread (P below), which   *)
(* appends logs to the newest bulk and answers queries, and the            *)
(* persistence thread (W), which saves bulks to files and evicts what      *)
(* queries have read back.                                                 *)
(*                                                                         *)
(* A bulk is born in a slot of the ring bulk_data_queue, is filled         *)
(* (Appending), closed (InQueue), saved (Saved) and, when a query needs    *)
(* it, read back to the heap (InMemory).  Both threads touch it: a         *)
(* reader-writer lock per bulk protects most of it, but P builds indexes   *)
(* and tests state_ without the lock, and W tests state_ and ticks the     *)
(* timer wheels without it.                                                *)
(*                                                                         *)
(* A step of a thread runs from one point where the other thread can see   *)
(* it to the next; what happens under the lock and touches nothing the     *)
(* other thread reads outside it belongs to one step.  A log is a number,  *)
(* the order of its Append_log; a bulk is its place in bulk_handler_list.  *)
(*                                                                         *)
(* hit, a history variable no step depends on, records that an autosave    *)
(* has saved a bulk while P was appending to it: after that a log may be   *)
(* lost to the index or the file, a saved bulk may go back to InQueue, and *)
(* the process may write through a null pointer (the violation run shows   *)
(* the first).  What the properties promise they promise until then.       *)
(***************************************************************************)
EXTENDS Integers, Sequences, FiniteSets, SequencesExt, Ascending

CONSTANTS
    MaxLogs,         \* bound: logs appended
    MaxQueries,      \* bound: queries asked
    Keys,            \* the keys of logs; a log's content holds its key as a word
    KeyOf(_),        \* the key of each log
    RecentCount,     \* the count a Recent query asks for
    BulkSize,        \* logs that fit a bulk (BULKSIZE in bytes)
    QueueLen,        \* BULK_QUEUE_LEN
    Threshold,       \* PERSISTENCE_THRESHOLD
    ReleaseTicks,    \* RELEASE_TIME, in ticks of the wheel
    AutosaveTicks    \* AUTOSAVE_TIME, in ticks of the wheel

ASSUME StoreAssumption ==
    /\ {MaxLogs, MaxQueries, RecentCount} \subseteq Nat
    /\ {BulkSize, QueueLen, Threshold, ReleaseTicks, AutosaveTicks} \subseteq Nat \ {0}
    /\ 1 < Threshold /\ Threshold < QueueLen
    /\ \A n \in 1 .. MaxLogs : KeyOf(n) \in Keys

Bulks == 1 .. MaxLogs + 1    \* an append makes one bulk at most
NoBulk == 0
Slots == 0 .. QueueLen - 1
Names == 0 .. MaxLogs        \* a file is named after the serial of its first log

Tries == {"key", "word"}
Kinds == Tries \cup {"offset", "timestamp"}
States == {"Init", "Appending", "InQueue", "InMemory", "Saved"}

VARIABLES
    bulks,            \* the length of bulk_handler_list; its last bulk is the newest
    state_,
    data_,            \* where bulk_->data_ points: "null", a ring "slot", the "heap"
    slot_,            \* the slot each bulk was given
    heap,             \* the content in each bulk's heap buffer
    offset_, size_, start_serial_,
    index,            \* the four indexes: logs by local serial (offsets, for "offset")
    inMemory,         \* index_state_: the indexes marked as read
    LogSerial,
    globalTrie,       \* for each key, the bulks that hold it
    buffer, handler,  \* the ring: the content of each slot, and its bulk_handler_
    write_position_, read_position_,
    disk,             \* files by name: the content and the four indexes
    releaseWheel,     \* timer units that wait in the two wheels
    autosaveWheel,
    ppc, query, todo, result,   \* P: where it is, its query, bulks to visit, logs found
    wpc, wb, wleft,   \* W: where it is, its bulk, slots left of this pass
    asked, stored, answer,      \* queries begun, logs stored, the last answer
    hit               \* history: an autosave saved the bulk of an append under way

bulkVars  == <<bulks, state_, data_, slot_, heap, offset_, size_, start_serial_, LogSerial>>
indexVars == <<index, inMemory, globalTrie>>
ringVars  == <<buffer, handler, write_position_, read_position_>>
wheelVars == <<releaseWheel, autosaveWheel>>
queryVars == <<query, todo, result>>
wVars     == <<wpc, wb, wleft>>
outVars   == <<asked, stored, answer, hit>>
vars == <<bulkVars, indexVars, ringVars, disk, wheelVars, ppc, queryVars, wVars,
          outVars>>

Unit(ticks) == [bulk : Bulks, left : 0 .. ticks, known : BOOLEAN]

NoQuery == [kind |-> "none"]
QueryKinds == {"recent", "getkey", "search", "searchtime"}

(* The process starts with one bulk, which has taken the first slot.       *)
Init ==
    /\ bulks = 1
    /\ state_ = [b \in Bulks |-> IF b = 1 THEN "Appending" ELSE "Init"]
    /\ data_ = [b \in Bulks |-> IF b = 1 THEN "slot" ELSE "null"]
    /\ slot_ = [b \in Bulks |-> 0]
    /\ heap = [b \in Bulks |-> <<>>]
    /\ offset_ = [b \in Bulks |-> 0]
    /\ size_ = [b \in Bulks |-> 0]
    /\ start_serial_ = [b \in Bulks |-> 0]
    /\ index = [b \in Bulks |-> [kind \in Kinds |-> <<>>]]
    /\ inMemory = [b \in Bulks |-> Kinds]
    /\ LogSerial = 0
    /\ globalTrie = [k \in Keys |-> <<>>]
    /\ buffer = [s \in Slots |-> <<>>]
    /\ handler = [s \in Slots |-> IF s = 0 THEN 1 ELSE NoBulk]
    /\ write_position_ = 1 /\ read_position_ = 0
    /\ disk = [name \in Names |-> [kind \in Kinds \cup {"content"} |-> <<>>]]
    /\ releaseWheel = {} /\ autosaveWheel = {}
    /\ ppc = "idle" /\ query = NoQuery /\ todo = <<>> /\ result = <<>>
    /\ wpc = "queue" /\ wb = NoBulk /\ wleft = 0
    /\ asked = 0 /\ stored = 0 /\ answer = NoQuery /\ hit = FALSE

-----------------------------------------------------------------------------
(* The ring (MsgQueue.h; module MsgQueue).                                 *)
NextPosition(p) == IF p + 1 >= QueueLen THEN 0 ELSE p + 1
Full == NextPosition(write_position_) = read_position_
Size == IF write_position_ >= read_position_
          THEN write_position_ - read_position_
          ELSE write_position_ + QueueLen - read_position_

(* The lock of a bulk (RWLock.h; module RWLock): P reads from "read" until *)
(* it has collected the bulk's logs, W writes while it saves.              *)
PReads(b)  == ppc = "read" /\ Head(todo) = b
WWrites(b) == wpc \in Kinds \cup {"detach"} /\ wb = b

(* A timer wheel as the set of its units: the bulk, the ticks until it     *)
(* fires, and whether the bulk's timer_unit_p still points to the unit.    *)
(* DelTimer finds a unit through that pointer only, and AddTimer makes a   *)
(* new unit the pointer points to.                                         *)
ResetTimer(wheel, b, ticks) ==
    {u \in wheel : ~ (u.bulk = b /\ u.known)} \cup {[bulk |-> b, left |-> ticks, known |-> TRUE]}
Ticked(wheel) == {[u EXCEPT !.left = @ - 1] : u \in wheel}
Due(wheel) == {u \in wheel : u.left = 0}

(* After a unit has acted, timer_unit_p is cleared, even when it points to *)
(* a younger unit: nothing can delete that one any more.                   *)
Forgotten(wheel, b) == {[u EXCEPT !.known = @ /\ u.bulk # b] : u \in wheel}

(* Set_timer: not for a bulk that is still in the ring.  (Slips: for every *)
(* bulk; only before the content has been read back.)                      *)
SetTimer_always(b, st) == ResetTimer(releaseWheel, b, ReleaseTicks)
SetTimer_when_saved(b, st) ==
    IF st = "Saved" THEN ResetTimer(releaseWheel, b, ReleaseTicks) ELSE releaseWheel
SetTimer(b, st) ==
    IF st \in {"Appending", "InQueue"} THEN releaseWheel
                                       ELSE ResetTimer(releaseWheel, b, ReleaseTicks)

(* Set_auto_persistence_timer: only for a bulk that still takes logs.      *)
SetAutosave_deleting_only(b, st) == {u \in autosaveWheel : ~ (u.bulk = b /\ u.known)}
SetAutosave(b, st) ==
    IF st = "Appending" THEN ResetTimer(autosaveWheel, b, AutosaveTicks) ELSE autosaveWheel

Content(b) == IF data_[b] = "slot" THEN buffer[slot_[b]] ELSE heap[b]
NewLog == stored + 1      \* the log an append under way is about

(* The process reads or writes through a null pointer, or past a list.     *)
Crash == ppc' = "crashed" /\ wpc' = "crashed"

-----------------------------------------------------------------------------
(* Append_log.  The newest bulk is tried if it is still Appending; the     *)
(* test of state_ comes before the lock.                                   *)
Appending == {"append", "index"} \cup Kinds

TakesLogs_always(b) == TRUE              \* a slip: closed bulks are tried too
TakesLogs(b) == state_[b] = "Appending"

AppendCheck ==
    /\ ppc = "idle" /\ stored < MaxLogs
    /\ ppc' = IF TakesLogs(bulks) THEN "append" ELSE "new"
    /\ UNCHANGED <<bulkVars, indexVars, ringVars, disk, wheelVars, queryVars, wVars,
                   outVars>>

(* Under the write lock: no room, and the bulk is closed ... *)
AppendFull ==
    /\ ppc = "append" /\ ~ WWrites(bulks)
    /\ offset_[bulks] >= BulkSize
    /\ state_' = [state_ EXCEPT ![bulks] = "InQueue"]
    /\ ppc' = "new"
    /\ UNCHANGED <<bulks, data_, slot_, heap, offset_, size_, start_serial_, LogSerial,
                   indexVars, ringVars, disk, wheelVars, queryVars, wVars, outVars>>

(* ... or room, but the buffer is gone since the test of state_ ...        *)
AppendToNull ==
    /\ ppc = "append" /\ ~ WWrites(bulks)
    /\ offset_[bulks] < BulkSize
    /\ data_[bulks] = "null"
    /\ Crash
    /\ UNCHANGED <<bulkVars, indexVars, ringVars, disk, wheelVars, queryVars, wb, wleft,
                   outVars>>

(* ... or the log is copied behind the others, and the bulk is hot again.  *)
AppendFits ==
    /\ ppc = "append" /\ ~ WWrites(bulks)
    /\ offset_[bulks] < BulkSize
    /\ data_[bulks] # "null"
    /\ buffer' = [buffer EXCEPT ![slot_[bulks]] = Append(@, NewLog)]
    /\ offset_' = [offset_ EXCEPT ![bulks] = @ + 1]
    /\ autosaveWheel' = SetAutosave(bulks, state_[bulks])
    /\ ppc' = "index"
    /\ UNCHANGED <<bulks, state_, data_, slot_, heap, size_, start_serial_, LogSerial,
                   indexVars, handler, write_position_, read_position_, disk, releaseWheel,
                   queryVars, wVars, outVars>>

(* New_memory_bulk: Get_Unit clears the next slot and takes it (spinning   *)
(* while the ring is full) before the slot has an owner ...                *)
NextSerial_by_capacity == LogSerial + BulkSize   \* a slip: every bulk taken for full
NextSerial == LogSerial + size_[bulks]

GetUnit ==
    /\ ppc = "new" /\ ~ Full
    /\ LogSerial' = NextSerial
    /\ start_serial_' = [start_serial_ EXCEPT ![bulks + 1] = LogSerial']
    /\ slot_' = [slot_ EXCEPT ![bulks + 1] = write_position_]
    /\ buffer' = [buffer EXCEPT ![write_position_] = <<>>]
    /\ handler' = [handler EXCEPT ![write_position_] = NoBulk]
    /\ write_position_' = NextPosition(write_position_)
    /\ ppc' = "bind"
    /\ UNCHANGED <<bulks, state_, data_, heap, offset_, size_, indexVars, read_position_,
                   disk, wheelVars, queryVars, wVars, outVars>>

(* ... and the second attempt, on an empty bulk, finds room.               *)
BindUnit ==
    /\ ppc = "bind"
    /\ bulks' = bulks + 1
    /\ data_' = [data_ EXCEPT ![bulks + 1] = "slot"]
    /\ state_' = [state_ EXCEPT ![bulks + 1] = "Appending"]
    /\ handler' = [handler EXCEPT ![slot_[bulks + 1]] = bulks + 1]
    /\ ppc' = "append"
    /\ UNCHANGED <<slot_, heap, offset_, size_, start_serial_, LogSerial, indexVars, buffer,
                   write_position_, read_position_, disk, wheelVars, queryVars, wVars,
                   outVars>>

(* Build_index, without the lock: nothing is indexed unless the bulk is    *)
(* still Appending; then the four indexes are extended one by one.         *)
BuildCheck ==
    /\ ppc = "index"
    /\ ppc' = IF TakesLogs(bulks) THEN "key" ELSE "global"
    /\ UNCHANGED <<bulkVars, indexVars, ringVars, disk, wheelVars, queryVars, wVars,
                   outVars>>

AfterBuild == [key |-> "word", word |-> "offset", offset |-> "timestamp", timestamp |-> "global"]

BuildIndex ==
    /\ ppc \in Kinds
    /\ LET entry == IF ppc = "offset" THEN offset_[bulks] - 1 ELSE NewLog
       IN  index' = IF ppc \in Tries \ inMemory[bulks]     \* a saved trie takes no insert
                      THEN index
                      ELSE [index EXCEPT ![bulks][ppc] = Append(@, entry)]
    /\ size_' = IF ppc = "timestamp" THEN [size_ EXCEPT ![bulks] = @ + 1] ELSE size_
    /\ ppc' = AfterBuild[ppc]
    /\ UNCHANGED <<bulks, state_, data_, slot_, heap, offset_, start_serial_, LogSerial,
                   inMemory, globalTrie, ringVars, disk, wheelVars, queryVars, wVars,
                   outVars>>

(* Add_key_global_trie, and Append_log returns. *)
AddedToGlobal_each_time(list, b) == Append(list, b)
AddedToGlobal(list, b) == IF list # <<>> /\ Last(list) = b THEN list ELSE Append(list, b)

FinishAppend ==
    /\ ppc = "global"
    /\ globalTrie' = [globalTrie EXCEPT ![KeyOf(NewLog)] = AddedToGlobal(@, bulks)]
    /\ stored' = stored + 1
    /\ ppc' = "idle"
    /\ UNCHANGED <<bulkVars, index, inMemory, ringVars, disk, wheelVars, queryVars, wVars,
                   asked, answer, hit>>

-----------------------------------------------------------------------------
(* The queries: Get_recent_log, Getkey_log, Search_log for two words or    *)
(* more (one of them the key's, the others in every log) and, over the     *)
(* whole range of times, SearchTime_log.  Each visits its bulks in turn.   *)
ToVisit(kind, k) ==
    CASE kind = "getkey"     -> Reverse(globalTrie[k])
      [] kind = "searchtime" -> globalTrie[k]
      [] OTHER               -> Reverse([b \in 1 .. bulks |-> b])

StartQuery ==
    /\ ppc = "idle" /\ asked < MaxQueries
    /\ \E kind \in QueryKinds, k \in Keys :
         /\ query' = [kind |-> kind, key |-> k]
         /\ todo' = ToVisit(kind, k)
    /\ result' = <<>>
    /\ asked' = asked + 1
    /\ ppc' = "visit"
    /\ UNCHANGED <<bulkVars, indexVars, ringVars, disk, wheelVars, wVars,
                   stored, answer, hit>>

Enough == query.kind = "recent" /\ Len(result) >= RecentCount

(* The indexes a query consults before it looks at single logs. *)
Consulted == CASE query.kind = "getkey"     -> {"key"}
               [] query.kind = "search"     -> {"word"}
               [] query.kind = "searchtime" -> {"key", "timestamp"}
               [] OTHER                     -> {}

(* An index that is not marked as read is read from its file.              *)
WithLoaded(b, kinds) ==
    [kind \in Kinds |-> IF kind \in kinds \ inMemory[b] THEN disk[start_serial_[b]][kind]
                                                        ELSE index[b][kind]]

(* Take the read lock, read what must be read, and put off the eviction.   *)
VisitBulk ==
    /\ ppc = "visit" /\ todo # <<>> /\ ~ Enough
    /\ LET b == Head(todo)
       IN  /\ ~ WWrites(b)
           /\ index' = [index EXCEPT ![b] = WithLoaded(b, Consulted)]
           /\ inMemory' = [inMemory EXCEPT ![b] = @ \cup Consulted]
           /\ releaseWheel' = IF query.kind = "recent" THEN releaseWheel
                                                       ELSE SetTimer(b, state_[b])
    /\ ppc' = "read"
    /\ UNCHANGED <<bulkVars, globalTrie, ringVars, disk, autosaveWheel, queryVars, wVars,
                   outVars>>

(* The local serials a query asks of a bulk, in the order it asks.         *)
Serials(b) ==
    LET matching(kind) == Ascending({i \in 0 .. Len(index[b][kind]) - 1 :
                                        KeyOf(index[b][kind][i + 1]) = query.key})
        wanted == RecentCount - Len(result)
    IN  CASE query.kind = "getkey"     -> Reverse(matching("key"))
          [] query.kind = "search"     -> Reverse(matching("word"))
          [] query.kind = "searchtime" -> matching("key")
          [] query.kind = "recent"     ->
               [i \in 1 .. (IF size_[b] < wanted THEN size_[b] ELSE wanted) |-> size_[b] - i]

(* Nothing in this bulk: the lock is dropped. *)
PassBulk ==
    /\ ppc = "read" /\ Serials(Head(todo)) = <<>>
    /\ todo' = Tail(todo)
    /\ ppc' = "visit"
    /\ UNCHANGED <<bulkVars, indexVars, ringVars, disk, wheelVars, query, result, wVars,
                   outVars>>

(* Each log is found through the offset list and read from the content,    *)
(* both read back from their files if need be.                             *)
OffsetsOf(b) == WithLoaded(b, {"offset"})["offset"]
MustLoad(b) == state_[b] = "Saved"
ContentOf(b) == IF MustLoad(b) THEN disk[start_serial_[b]]["content"] ELSE Content(b)
Readable(b) ==
    /\ MustLoad(b) \/ data_[b] # "null"
    /\ \A i \in 1 .. Len(Serials(b)) :
          LET serial == Serials(b)[i]
          IN  /\ serial < size_[b] /\ serial < Len(OffsetsOf(b))
              /\ OffsetsOf(b)[serial + 1] < Len(ContentOf(b))

ReadBulk ==
    /\ ppc = "read" /\ Serials(Head(todo)) # <<>>
    /\ LET b == Head(todo)
       IN  /\ Readable(b)
           /\ result' = result \o [i \in 1 .. Len(Serials(b)) |->
                                      ContentOf(b)[OffsetsOf(b)[Serials(b)[i] + 1] + 1]]
           /\ index' = [index EXCEPT ![b]["offset"] = OffsetsOf(b)]
           /\ inMemory' = [inMemory EXCEPT ![b] = @ \cup {"offset"}]
           /\ IF MustLoad(b)
                THEN /\ state_' = [state_ EXCEPT ![b] = "InMemory"]
                     /\ data_' = [data_ EXCEPT ![b] = "heap"]
                     /\ heap' = [heap EXCEPT ![b] = ContentOf(b)]
                     /\ releaseWheel' = SetTimer(b, "InMemory")
                ELSE UNCHANGED <<state_, data_, heap, releaseWheel>>
    /\ todo' = Tail(todo)
    /\ ppc' = "visit"
    /\ UNCHANGED <<bulks, slot_, offset_, size_, start_serial_, LogSerial, globalTrie,
                   ringVars, disk, autosaveWheel, query, wVars, outVars>>

ReadNothing ==
    /\ ppc = "read" /\ Serials(Head(todo)) # <<>>
    /\ ~ Readable(Head(todo))
    /\ Crash
    /\ UNCHANGED <<bulkVars, indexVars, ringVars, disk, wheelVars, queryVars, wb, wleft,
                   outVars>>

FinishQuery ==
    /\ ppc = "visit" /\ (todo = <<>> \/ Enough)
    /\ answer' = [kind |-> query.kind, key |-> query.key, logs |-> result]
    /\ query' = NoQuery /\ todo' = <<>> /\ result' = <<>>
    /\ ppc' = "idle"
    /\ UNCHANGED <<bulkVars, indexVars, ringVars, disk, wheelVars, wVars,
                   asked, stored, hit>>

(* LogCount_log. *)
LogCount == start_serial_[bulks] + size_[bulks]

-----------------------------------------------------------------------------
(* The persistence thread: after each sleep it looks at the ring, then     *)
(* ticks the wheel of evictions, then the wheel of autosaves.  A pass over *)
(* the ring saves and frees all slots but the last of a full threshold.    *)
PassDue_above == Size > Threshold        \* slips: off by one, here and below
PassDue == Size >= Threshold
PassLength_whole == Threshold
PassLength == Threshold - 1

CheckQueue ==
    /\ wpc = "queue"
    /\ IF PassDue THEN wpc' = "front" /\ wleft' = PassLength
                  ELSE wpc' = "tick" /\ wleft' = 0
    /\ UNCHANGED <<bulkVars, indexVars, ringVars, disk, wheelVars, ppc, queryVars, wb,
                   outVars>>

(* A slot whose bulk was autosaved has no handler any more. *)
FrontUnit ==
    /\ wpc = "front"
    /\ wb' = handler[read_position_]
    /\ wpc' = IF wb' = NoBulk THEN "releaseFront" ELSE "check"
    /\ UNCHANGED <<bulkVars, indexVars, ringVars, disk, wheelVars, ppc, queryVars, wleft,
                   outVars>>

ReleaseFrontUnit ==
    /\ wpc = "releaseFront"
    /\ read_position_' = NextPosition(read_position_)
    /\ wleft' = wleft - 1
    /\ wb' = NoBulk
    /\ wpc' = IF wleft' = 0 THEN "tick" ELSE "front"
    /\ UNCHANGED <<bulkVars, indexVars, buffer, handler, write_position_, disk, wheelVars,
                   ppc, queryVars, outVars>>

(* Persistence.  state_ is tested before the lock is taken.                *)
Saveable == {"InMemory", "InQueue", "Appending"}
Persisted == IF wleft > 0 THEN "releaseFront" ELSE "autosaved"

PersistenceCheck ==
    /\ wpc = "check"
    /\ wpc' = IF state_[wb] \in Saveable THEN "lock" ELSE Persisted
    /\ UNCHANGED <<bulkVars, indexVars, ringVars, disk, wheelVars, ppc, queryVars, wb, wleft,
                   outVars>>

(* The lock keeps an autosave out of one statement of an append, not out   *)
(* of the append.                                                          *)
SaveContent ==
    /\ wpc = "lock" /\ ~ PReads(wb)
    /\ data_[wb] # "null"
    /\ hit' = (hit \/ (wleft = 0 /\ wb = bulks /\ ppc \in Appending))
    /\ state_' = [state_ EXCEPT ![wb] = "Saved"]
    /\ disk' = [disk EXCEPT ![start_serial_[wb]]["content"] = Content(wb)]
    /\ wpc' = "offset"
    /\ UNCHANGED <<bulks, data_, slot_, heap, offset_, size_, start_serial_, LogSerial,
                   indexVars, ringVars, wheelVars, ppc, queryVars, wb, wleft,
                   asked, stored, answer>>

SaveNull ==
    /\ wpc = "lock" /\ ~ PReads(wb)
    /\ data_[wb] = "null"
    /\ Crash
    /\ UNCHANGED <<bulkVars, indexVars, ringVars, disk, wheelVars, queryVars, wb, wleft,
                   outVars>>

(* Save_index, Save_timestamp, Save_key_trie, Save_word_trie: an index     *)
(* that is in memory goes to its file and is dropped.                      *)
AfterSave == [offset |-> "timestamp", timestamp |-> "key", key |-> "word", word |-> "detach"]

StillRead_all(b, kind) == inMemory[b]    \* a slip: the mark stays
StillRead(b, kind) == inMemory[b] \ {kind}

SaveIndex ==
    /\ wpc \in Kinds
    /\ IF wpc \in inMemory[wb]
         THEN /\ disk' = [disk EXCEPT ![start_serial_[wb]][wpc] = index[wb][wpc]]
              /\ index' = [index EXCEPT ![wb][wpc] = <<>>]
              /\ inMemory' = [inMemory EXCEPT ![wb] = StillRead(wb, wpc)]
         ELSE UNCHANGED <<disk, index, inMemory>>
    /\ wpc' = AfterSave[wpc]
    /\ UNCHANGED <<bulkVars, globalTrie, ringVars, wheelVars, ppc, queryVars, wb, wleft,
                   outVars>>

(* The buffer and the bulk part.  A heap buffer is not deleted.            *)
Detach ==
    /\ wpc = "detach"
    /\ handler' = IF data_[wb] = "slot" THEN [handler EXCEPT ![slot_[wb]] = NoBulk] ELSE handler
    /\ data_' = [data_ EXCEPT ![wb] = "null"]
    /\ heap' = [heap EXCEPT ![wb] = <<>>]
    /\ wpc' = Persisted
    /\ UNCHANGED <<bulks, state_, slot_, offset_, size_, start_serial_, LogSerial, indexVars,
                   buffer, write_position_, read_position_, disk, wheelVars, ppc, queryVars,
                   wb, wleft, outVars>>

-----------------------------------------------------------------------------
(* The wheel of evictions: BulkTimeout::Act for each unit that is due.     *)
TickRelease ==
    /\ wpc = "tick"
    /\ releaseWheel' = Ticked(releaseWheel)
    /\ wpc' = "evict"
    /\ wb' = NoBulk
    /\ UNCHANGED <<bulkVars, indexVars, ringVars, disk, autosaveWheel, ppc, queryVars, wleft,
                   outVars>>

PopRelease ==
    /\ wpc = "evict"
    /\ \E u \in Due(releaseWheel) :
         /\ releaseWheel' = releaseWheel \ {u}
         /\ wb' = u.bulk
    /\ wpc' = "release"
    /\ UNCHANGED <<bulkVars, indexVars, ringVars, disk, autosaveWheel, ppc, queryVars, wleft,
                   outVars>>

(* Release_space under the write lock: Delete_Content and the four         *)
(* Delete_ methods.                                                        *)
ReleaseSpace ==
    /\ wpc = "release" /\ ~ PReads(wb)
    /\ data_' = [data_ EXCEPT ![wb] = IF state_[wb] = "Saved" THEN @ ELSE "null"]
    /\ heap' = [heap EXCEPT ![wb] = IF state_[wb] = "Saved" THEN @ ELSE <<>>]
    /\ state_' = [state_ EXCEPT ![wb] = "Saved"]
    /\ index' = [index EXCEPT ![wb] = [kind \in Kinds |->
                     IF kind \in inMemory[wb] THEN <<>> ELSE @[kind]]]
    /\ inMemory' = [inMemory EXCEPT ![wb] = {}]
    /\ wpc' = "released"
    /\ UNCHANGED <<bulks, slot_, offset_, size_, start_serial_, LogSerial, globalTrie,
                   ringVars, disk, wheelVars, ppc, queryVars, wb, wleft, outVars>>

ForgetRelease ==
    /\ wpc = "released"
    /\ releaseWheel' = Forgotten(releaseWheel, wb)
    /\ wb' = NoBulk
    /\ wpc' = "evict"
    /\ UNCHANGED <<bulkVars, indexVars, ringVars, disk, autosaveWheel, ppc, queryVars, wleft,
                   outVars>>

(* The wheel of autosaves: BulkAutoPersistence::Act is Persistence.        *)
TickAutosave ==
    /\ wpc = "evict" /\ Due(releaseWheel) = {}
    /\ autosaveWheel' = Ticked(autosaveWheel)
    /\ wpc' = "autosave"
    /\ UNCHANGED <<bulkVars, indexVars, ringVars, disk, releaseWheel, ppc, queryVars, wb, wleft,
                   outVars>>

PopAutosave ==
    /\ wpc = "autosave"
    /\ \E u \in Due(autosaveWheel) :
         /\ autosaveWheel' = autosaveWheel \ {u}
         /\ wb' = u.bulk
    /\ wpc' = "check"
    /\ UNCHANGED <<bulkVars, indexVars, ringVars, disk, releaseWheel, ppc, queryVars, wleft,
                   outVars>>

ForgetAutosave ==
    /\ wpc = "autosaved"
    /\ autosaveWheel' = Forgotten(autosaveWheel, wb)
    /\ wb' = NoBulk
    /\ wpc' = "autosave"
    /\ UNCHANGED <<bulkVars, indexVars, ringVars, disk, releaseWheel, ppc, queryVars, wleft,
                   outVars>>

Sleep ==
    /\ wpc = "autosave" /\ Due(autosaveWheel) = {}
    /\ wpc' = "queue"
    /\ UNCHANGED <<bulkVars, indexVars, ringVars, disk, wheelVars, ppc, queryVars, wb, wleft,
                   outVars>>

-----------------------------------------------------------------------------
(* The main thread once it has taken a request; the persistence thread.    *)
ServeRequest ==
    \/ AppendFull \/ AppendToNull \/ AppendFits \/ GetUnit \/ BindUnit
    \/ BuildCheck \/ BuildIndex \/ FinishAppend
    \/ VisitBulk \/ PassBulk \/ ReadBulk \/ ReadNothing \/ FinishQuery

Worker ==
    \/ CheckQueue \/ FrontUnit \/ ReleaseFrontUnit
    \/ PersistenceCheck \/ SaveContent \/ SaveNull \/ SaveIndex \/ Detach
    \/ TickRelease \/ PopRelease \/ ReleaseSpace \/ ForgetRelease
    \/ TickAutosave \/ PopAutosave \/ ForgetAutosave \/ Sleep

Next == AppendCheck \/ StartQuery \/ ServeRequest \/ Worker

Spec == Init /\ [][Next]_vars

(* Neither thread stops: P finishes the request it has taken (but need not *)
(* get another), and W goes round its loop.                                *)
FairSpec == Spec /\ WF_vars(ServeRequest) /\ WF_vars(Worker)

-----------------------------------------------------------------------------
Logs == 1 .. MaxLogs
PPlaces == {"idle", "append", "new", "bind", "index", "global", "visit", "read",
            "crashed"} \cup Kinds
WPlaces == {"queue", "front", "releaseFront", "check", "lock", "detach", "tick",
            "evict", "release", "released", "autosave", "autosaved",
            "crashed"} \cup Kinds

TypeOK ==
    /\ bulks \in Bulks /\ LogSerial \in Names
    /\ state_ \in [Bulks -> States]
    /\ data_ \in [Bulks -> {"null", "slot", "heap"}]
    /\ slot_ \in [Bulks -> Slots]
    /\ heap \in [Bulks -> Seq(Logs)]
    /\ offset_ \in [Bulks -> 0 .. BulkSize] /\ size_ \in [Bulks -> 0 .. BulkSize]
    /\ start_serial_ \in [Bulks -> Names]
    /\ index \in [Bulks -> [Kinds -> Seq(Nat)]]
    /\ inMemory \in [Bulks -> SUBSET Kinds]
    /\ globalTrie \in [Keys -> Seq(Bulks)]
    /\ buffer \in [Slots -> Seq(Logs)]
    /\ handler \in [Slots -> Bulks \cup {NoBulk}]
    /\ write_position_ \in Slots /\ read_position_ \in Slots
    /\ disk \in [Names -> [Kinds \cup {"content"} -> Seq(Nat)]]
    /\ releaseWheel \subseteq Unit(ReleaseTicks) /\ autosaveWheel \subseteq Unit(AutosaveTicks)
    /\ ppc \in PPlaces /\ todo \in Seq(Bulks) /\ result \in Seq(Logs)
    /\ wpc \in WPlaces /\ wb \in Bulks \cup {NoBulk} /\ wleft \in 0 .. Threshold - 1
    /\ asked \in 0 .. MaxQueries /\ stored \in 0 .. MaxLogs /\ hit \in BOOLEAN

Running == ppc # "crashed"

(* Until an autosave hits an append, no null buffer is written, saved or   *)
(* read, and no index entry is read that is not there.                     *)
NoCrash == ~ hit => Running

(* The slots between the two positions, oldest first round the ring.       *)
Live(s) == IF read_position_ <= write_position_
             THEN read_position_ <= s /\ s < write_position_
             ELSE read_position_ <= s \/ s < write_position_

(* A bulk whose data_ points into the ring owns that slot: the slot has    *)
(* not been freed (Release_front_unit, Persistence_worker.cpp:50) while    *)
(* the bulk still uses it, and so is never given to a second bulk.         *)
SlotOwned ==
    \A b \in Bulks : data_[b] = "slot" => Live(slot_[b]) /\ handler[slot_[b]] = b

(* A pass over the ring spares the bulk that takes logs, and the slot that *)
(* Get_Unit has given out but New_BulkData_init has not bound yet (the     *)
(* worker reads bulk_handler_ at line 45 without a lock): this is what     *)
(* PERSISTENCE_THRESHOLD - 1 is for.                                       *)
PassSparesOpenBulks ==
    wleft > 0 =>
        /\ wpc = "check" => state_[wb] # "Appending"
        /\ ppc = "bind" => read_position_ # slot_[bulks + 1]

(* Delete_Content (MemoryBulkHandler.cpp:125) deletes data_: it must never *)
(* be a slot of the ring, which was not allocated on the heap.             *)
EvictionSparesRing == wpc = "release" => data_[wb] # "slot"

(* What a query has read back is evicted in time: content on the heap or   *)
(* an index read from its file always has a timer unit waiting for it, or  *)
(* a thread that holds the bulk's lock, or is about to.                    *)
EvictionArmed ==
    \A b \in Bulks :
        Running /\ state_[b] \in {"Saved", "InMemory"}
                /\ (data_[b] = "heap" \/ inMemory[b] # {})
        => \/ \E u \in releaseWheel : u.bulk = b
           \/ PReads(b) \/ WWrites(b) \/ (wpc = "release" /\ wb = b)

(* The logs a bulk holds, by its own account.                              *)
Held(b) == [i \in 1 .. size_[b] |-> start_serial_[b] + i]
Offsets(b) == [i \in 1 .. size_[b] |-> i - 1]

(* What a reader of bulk b would find, loading what is not in memory.      *)
ReadableContent(b) == IF data_[b] = "slot" THEN Content(b) ELSE disk[start_serial_[b]]["content"]
ReadableIndex(b) == WithLoaded(b, Kinds)

(* Nothing is ever lost between the buffers and the files: outside         *)
(* Append_log every stored log belongs to a bulk, and that bulk's content  *)
(* and its four indexes can be read, in memory or from the files of its    *)
(* name, and agree with each other -- until an autosave hits an append.    *)
Recoverable ==
    \/ hit
    \/ /\ \A b \in 1 .. bulks : (b = bulks => ppc \notin Appending) =>
              /\ ReadableContent(b) = Held(b)
              /\ ReadableIndex(b) = [kind \in Kinds |-> IF kind = "offset" THEN Offsets(b)
                                                                         ELSE Held(b)]
       /\ \A n \in 1 .. stored : \E b \in 1 .. bulks :
              start_serial_[b] < n /\ n <= start_serial_[b] + size_[b]

(* Between requests LogCount_log (line 885), which adds two fields of the  *)
(* newest bulk, counts all logs stored, until an autosave hits an append.  *)
CountExact == ppc = "idle" => hit \/ LogCount = stored

(* A bulk that has left Appending takes no more logs and never goes back,  *)
(* and one that has been saved never claims to be in the ring again, until *)
(* an autosave hits an append.                                             *)
ClosedForGood ==
    [][hit \/ \A b \in Bulks :
                  /\ state_[b] \in {"InQueue", "Saved", "InMemory"} =>
                        state_'[b] # "Appending" /\ offset_'[b] = offset_[b]
                  /\ state_[b] \in {"Saved", "InMemory"} => state_'[b] # "InQueue"]_vars

(* Every stored log gets to the content file of its bulk, unless an        *)
(* autosave hits an append.                                                *)
Durable ==
    \A n \in Logs : stored >= n ~>
        hit \/ \E b \in 1 .. bulks : n \in ToSet(disk[start_serial_[b]]["content"])

(* New_BulkData_init (MemoryBulkHandler.cpp:8) does not spin for ever on a *)
(* full ring (the crash that ends it too needs an autosave that hit).      *)
SlotComesFree == ppc = "new" ~> hit \/ ppc = "bind"

(* The heap buffer of a bulk read back is given up: deleted, or, when the  *)
(* bulk is saved again (MemoryBulkHandler.cpp:190), just forgotten.        *)
HeapGivenUp == \A b \in Bulks : data_[b] = "heap" ~> hit \/ data_[b] # "heap"

(* The engine implements the plain log store until an autosave hits an     *)
(* append.                                                                 *)
Store == INSTANCE LogStore
LogStoreSpec == Store!Init /\ [][hit \/ Store!Next]_(Store!vars)

(* What README.md says of log_processor: it takes logs, stores them and    *)
(* builds the index.  Every log stored is in the index of its bulk.        *)
StoredIsIndexed ==
    ppc = "idle" => \A n \in 1 .. stored : \E b \in 1 .. bulks :
                        n \in ToSet(ReadableIndex(b)["key"])
=============================================================================
