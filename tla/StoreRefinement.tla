-------------------------- MODULE StoreRefinement ---------------------------
(***************************************************************************)
(* The storage engine implements LogStore.  Nothing that was stored is     *)
(* lost between the buffers and the files: first, for every setting of the *)
(* timers, what a query has read back is always due to be evicted; then,   *)
(* until an autosave hits an append under way to its bulk, the process     *)
(* does not crash, every bulk's content and indexes can be read, and the   *)
(* count of logs is exact.  So every query finds every log it asks for,    *)
(* once and in order, wherever the log is by then.                         *)
(***************************************************************************)
EXTENDS BulkStoreProofs, FiniteSetTheorems, WellFoundedInduction

-----------------------------------------------------------------------------
(* Evictions.  A save drops the indexes one by one, so that all it leaves  *)
(* in memory are those it has not come to yet.                             *)
Unsaved == [offset    |-> Kinds,
            timestamp |-> {"timestamp"} \cup Tries,
            key       |-> Tries,
            word      |-> {"word"},
            detach    |-> {}]

Evictable(b) == state_[b] \in {"Saved", "InMemory"} /\ (data_[b] = "heap" \/ inMemory[b] # {})

Armed(b) ==
    \/ \E u \in releaseWheel : u.bulk = b
    \/ WWrites(b)
    \/ wpc = "release" /\ wb = b

SaveDrops == \A b \in Bulks : WWrites(b) => inMemory[b] \subseteq Unsaved[wpc]

HeapIsRead ==
    Running =>
        /\ ppc = "append" => state_[bulks] # "InMemory"
        /\ \A b \in Bulks :
              /\ state_[b] = "Saved" => data_[b] = "null" \/ WWrites(b)
              /\ data_[b] = "heap" => state_[b] = "InMemory" \/ WWrites(b)

Eviction ==
    /\ inMemory \in [Bulks -> SUBSET Kinds]
    /\ SaveDrops /\ HeapIsRead
    /\ Running => \A b \in Bulks : Evictable(b) => Armed(b)

EInv == IInv /\ Eviction

LEMMA QuietAppend ==
  ASSUME EInv, ppc' # "crashed", ppc # "crashed",
         ppc' = "append" => state_[bulks] = "Appending",
         UNCHANGED <<bulks, state_, data_, inMemory, releaseWheel, wpc, wb>>
  PROVE  Eviction'
<1> USE DEF EInv, Eviction
<1>1. (SaveDrops /\ HeapIsRead)'
  BY DEF SaveDrops, HeapIsRead, WWrites, Running
<1>2. (Running => \A b \in Bulks : Evictable(b) => Armed(b))'
  BY DEF Evictable, Armed, WWrites, Running
<1> QED
  BY <1>1, <1>2

LEMMA QuietWorker ==
  ASSUME EInv, wpc \notin Kinds \cup {"detach", "release"},
         wpc' \notin Kinds \cup {"detach", "release"},
         UNCHANGED <<bulks, state_, data_, inMemory, ppc>>,
         \A u \in releaseWheel : \E v \in releaseWheel' : u.bulk = v.bulk
  PROVE  Eviction'
<1> USE DEF EInv, Eviction
<1>1. (SaveDrops /\ HeapIsRead)'
  BY DEF SaveDrops, HeapIsRead, WWrites, Running
<1>2. (Running => \A b \in Bulks : Evictable(b) => Armed(b))'
  BY DEF Evictable, Armed, WWrites, Running
<1> QED
  BY <1>1, <1>2

LEMMA AppendsEvict ==
  EInv /\ (AppendCheck \/ AppendFits \/ GetUnit \/ BuildCheck \/ BuildIndex \/ FinishAppend
             \/ StartQuery \/ PassBulk \/ FinishQuery)
    => Eviction'
<1> SUFFICES ASSUME EInv,
                    AppendCheck \/ AppendFits \/ GetUnit \/ BuildCheck \/ BuildIndex
                      \/ FinishAppend \/ StartQuery \/ PassBulk \/ FinishQuery
             PROVE  Eviction'
  OBVIOUS
<1>1. /\ ppc \notin {"crashed"} /\ ppc' # "crashed"
      /\ ppc' = "append" => state_[bulks] = "Appending"
  BY AfterBuildKinds
     DEF AppendCheck, AppendFits, GetUnit, BuildCheck, BuildIndex, FinishAppend, StartQuery,
         PassBulk, FinishQuery, TakesLogs, Kinds, Tries
<1>2. UNCHANGED <<bulks, state_, data_, inMemory, releaseWheel, wpc, wb>>
  BY DEF AppendCheck, AppendFits, GetUnit, BuildCheck, BuildIndex, FinishAppend, StartQuery,
         PassBulk, FinishQuery, bulkVars, indexVars, wheelVars, wVars
<1> QED
  BY <1>1, <1>2, QuietAppend

LEMMA AppendFullEvicts == EInv /\ AppendFull => Eviction'
<1> SUFFICES ASSUME EInv, AppendFull PROVE Eviction'
  OBVIOUS
<1> USE DEF EInv, Eviction
<1>1. /\ ppc = "append" /\ ppc' = "new" /\ ~ WWrites(bulks)
      /\ state_' = [state_ EXCEPT ![bulks] = "InQueue"]
      /\ UNCHANGED <<bulks, data_, inMemory, releaseWheel, wpc, wb>>
  BY DEF AppendFull, bulkVars, indexVars, wheelVars, wVars
<1>2. \A b \in Bulks : IF b = bulks THEN state_'[b] = "InQueue" ELSE state_'[b] = state_[b]
  BY <1>1 DEF IInv, RingTypes
<1>3. bulks \in Bulks
  BY DEF IInv, RingTypes
(* The bulk was not read back, so it holds no heap buffer. *)
<1>4. data_[bulks] # "heap"
  BY <1>1, <1>3 DEF HeapIsRead, Running
<1>5. (SaveDrops /\ HeapIsRead)'
  BY <1>1, <1>2, <1>4 DEF SaveDrops, HeapIsRead, WWrites, Running
<1>6. (Running => \A b \in Bulks : Evictable(b) => Armed(b))'
  BY <1>1, <1>2 DEF Evictable, Armed, WWrites, Running
<1> QED
  BY <1>1, <1>5, <1>6

LEMMA BindUnitEvicts == EInv /\ BindUnit => Eviction'
<1> SUFFICES ASSUME EInv, BindUnit PROVE Eviction'
  OBVIOUS
<1> USE DEF EInv, Eviction
<1>1. /\ ppc = "bind" /\ ppc' = "append" /\ bulks' = bulks + 1
      /\ data_' = [data_ EXCEPT ![bulks + 1] = "slot"]
      /\ state_' = [state_ EXCEPT ![bulks + 1] = "Appending"]
      /\ UNCHANGED <<inMemory, releaseWheel, wpc, wb>>
  BY DEF BindUnit, bulkVars, indexVars, wheelVars, wVars
<1>2. bulks + 1 \in Bulks
  BY <1>1, RoomForBulk DEF IInv
<1>3. /\ data_'[bulks + 1] = "slot" /\ state_'[bulks + 1] = "Appending"
      /\ \A b \in Bulks : b # bulks + 1 => data_'[b] = data_[b] /\ state_'[b] = state_[b]
  BY <1>1, <1>2 DEF IInv, RingTypes
<1>4. (SaveDrops /\ HeapIsRead)'
  BY <1>1, <1>2, <1>3 DEF SaveDrops, HeapIsRead, WWrites, Running
<1>5. (Running => \A b \in Bulks : Evictable(b) => Armed(b))'
  BY <1>1, <1>3 DEF Evictable, Armed, WWrites, Running
<1> QED
  BY <1>1, <1>4, <1>5

LEMMA ResetTimerArms ==
  ASSUME NEW wheel, NEW b, NEW ticks, NEW u \in wheel
  PROVE  \E v \in ResetTimer(wheel, b, ticks) : v.bulk = u.bulk
<1> DEFINE new == [bulk |-> b, left |-> ticks, known |-> TRUE]
<1>1. new \in ResetTimer(wheel, b, ticks) /\ new.bulk = b
  BY DEF ResetTimer
<1>2. u.bulk # b => u \in ResetTimer(wheel, b, ticks)
  BY DEF ResetTimer
<1> QED
  BY <1>1, <1>2

LEMMA ResetTimerArmsNew ==
  ASSUME NEW wheel, NEW b, NEW ticks
  PROVE  \E u \in ResetTimer(wheel, b, ticks) : u.bulk = b
<1> DEFINE new == [bulk |-> b, left |-> ticks, known |-> TRUE]
<1>1. new \in ResetTimer(wheel, b, ticks) /\ new.bulk = b
  BY DEF ResetTimer
<1> QED
  BY <1>1

LEMMA VisitBulkEvicts == EInv /\ VisitBulk => Eviction'
<1> SUFFICES ASSUME EInv, VisitBulk PROVE Eviction'
  OBVIOUS
<1> USE DEF EInv, Eviction
<1> DEFINE b == Head(todo)
<1>1. /\ ppc = "visit" /\ ppc' = "read" /\ todo # <<>> /\ ~ WWrites(b)
      /\ inMemory' = [inMemory EXCEPT ![b] = @ \cup Consulted]
      /\ releaseWheel' = IF query.kind = "recent" THEN releaseWheel
                                                  ELSE SetTimer(b, state_[b])
      /\ UNCHANGED <<bulks, state_, data_, wpc, wb>>
  BY DEF VisitBulk, bulkVars, wVars
<1>2. b \in Bulks
  BY <1>1, HeadTailProperties, Bounds DEF IInv, RingTypes, Bulks
<1>3. Consulted \subseteq Kinds /\ (query.kind = "recent" => Consulted = {})
  BY DEF Consulted, Kinds, Tries
<1>4. \A c \in Bulks : inMemory'[c] = IF c = b THEN inMemory[c] \cup Consulted ELSE inMemory[c]
  BY <1>1, <1>2
<1>5. inMemory' \in [Bulks -> SUBSET Kinds]
  BY <1>1, <1>3
<1>6. (SaveDrops /\ HeapIsRead)'
  BY <1>1, <1>4 DEF SaveDrops, HeapIsRead, WWrites, Running
<1>7. ASSUME NEW c \in Bulks, Evictable(c)' PROVE Armed(c)'
  <2>1. CASE releaseWheel' = releaseWheel /\ (query.kind = "recent" \/ c # b)
    BY <1>1, <1>3, <1>4, <1>7, <2>1 DEF Evictable, Armed, WWrites, Running
  <2>2. CASE releaseWheel' = ResetTimer(releaseWheel, b, ReleaseTicks) /\ c = b
    BY <2>2, ResetTimerArmsNew DEF Armed
  <2>3. CASE releaseWheel' = ResetTimer(releaseWheel, b, ReleaseTicks) /\ c # b
    <3>1. Armed(c)
      BY <1>1, <1>4, <1>7, <2>3 DEF Evictable, Running
    <3>2. CASE \E u \in releaseWheel : u.bulk = c
      <4>1. \E u \in ResetTimer(releaseWheel, b, ReleaseTicks) : u.bulk = c
        <5>1. PICK u \in releaseWheel : u.bulk = c
          BY <3>2
        <5>2. \E v \in ResetTimer(releaseWheel, b, ReleaseTicks) : v.bulk = u.bulk
          BY ResetTimerArms
        <5> QED
          BY <5>1, <5>2
      <4> QED
        BY <2>3, <4>1 DEF Armed
    <3>3. CASE ~ \E u \in releaseWheel : u.bulk = c
      BY <1>1, <3>1, <3>3 DEF Armed, WWrites
    <3> QED
      BY <3>2, <3>3
  <2>4. CASE releaseWheel' = releaseWheel /\ state_[b] \in {"Appending", "InQueue"} /\ c = b
    BY <1>1, <1>7, <2>4 DEF Evictable
  <2> QED
    BY <1>1, <2>1, <2>2, <2>3, <2>4 DEF SetTimer
<1> QED
  BY <1>5, <1>6, <1>7

LEMMA ReadBulkEvicts == EInv /\ ReadBulk => Eviction'
<1> SUFFICES ASSUME EInv, ReadBulk PROVE Eviction'
  OBVIOUS
<1> USE DEF EInv, Eviction
<1> DEFINE b == Head(todo)
<1>1. /\ ppc = "read" /\ ppc' = "visit"
      /\ inMemory' = [inMemory EXCEPT ![b] = @ \cup {"offset"}]
      /\ IF state_[b] = "Saved"
           THEN /\ state_' = [state_ EXCEPT ![b] = "InMemory"]
                /\ data_' = [data_ EXCEPT ![b] = "heap"]
                /\ releaseWheel' = ResetTimer(releaseWheel, b, ReleaseTicks)
           ELSE UNCHANGED <<state_, data_, releaseWheel>>
      /\ Readable(b)
      /\ UNCHANGED <<bulks, wpc, wb>>
  BY DEF ReadBulk, MustLoad, SetTimer, bulkVars, wVars
<1>2. b \in Bulks
  <2>1. todo # <<>> /\ todo \in Seq(1 .. bulks)
    BY <1>1 DEF IInv, LockExcludes, RingTypes
  <2> QED
    BY <2>1, HeadTailProperties, Bounds DEF IInv, RingTypes, Bulks
<1>3. \A c \in Bulks : inMemory'[c] = IF c = b THEN inMemory[c] \cup {"offset"} ELSE inMemory[c]
  BY <1>1, <1>2
<1>4. inMemory' \in [Bulks -> SUBSET Kinds]
  BY <1>1 DEF Kinds, Tries
<1>5. ~ WWrites(b)
  BY <1>1 DEF IInv, LockExcludes, WWrites
<1>6. state_[b] = "Saved" =>
        /\ state_'[b] = "InMemory" /\ data_'[b] = "heap"
        /\ \A c \in Bulks : c # b => state_'[c] = state_[c] /\ data_'[c] = data_[c]
  BY <1>1, <1>2 DEF IInv, RingTypes
<1>7. (SaveDrops /\ HeapIsRead)'
  BY <1>1, <1>2, <1>3, <1>5, <1>6 DEF SaveDrops, HeapIsRead, WWrites, Running
<1>8. ASSUME NEW c \in Bulks, Evictable(c)' PROVE Armed(c)'
  <2>1. CASE state_[b] = "Saved" /\ c = b
    BY <1>1, <2>1, ResetTimerArmsNew DEF Armed
  <2>2. CASE state_[b] = "Saved" /\ c # b
    <3>1. Armed(c)
      BY <1>1, <1>3, <1>6, <1>8, <2>2 DEF Evictable, Running
    <3>2. CASE \E u \in releaseWheel : u.bulk = c
      <4>1. \E u \in ResetTimer(releaseWheel, b, ReleaseTicks) : u.bulk = c
        <5>1. PICK u \in releaseWheel : u.bulk = c
          BY <3>2
        <5>2. \E v \in ResetTimer(releaseWheel, b, ReleaseTicks) : v.bulk = u.bulk
          BY ResetTimerArms
        <5> QED
          BY <5>1, <5>2
      <4> QED
        BY <1>1, <2>2, <4>1 DEF Armed
    <3>3. CASE ~ \E u \in releaseWheel : u.bulk = c
      BY <1>1, <3>1, <3>3 DEF Armed, WWrites
    <3> QED
      BY <3>2, <3>3
(* What is in memory already is on the heap, and therefore armed. *)
  <2>3. CASE state_[b] # "Saved"
    <3>1. state_[c] = "InMemory" => data_[c] # "null" \/ c # b
      BY <1>1, <2>3 DEF Readable, MustLoad
    <3>2. state_[c] = "InMemory" => data_[c] # "slot"
      BY <1>1 DEF IInv, InRing, Running, WWrites
    <3>3. data_[c] \in {"null", "slot", "heap"}
      BY DEF IInv, RingTypes
    <3>4. Evictable(c)
      BY <1>1, <1>3, <1>8, <2>3, <3>1, <3>2, <3>3 DEF Evictable
    <3> QED
      BY <1>1, <2>3, <3>4 DEF Armed, WWrites, Running
  <2> QED
    BY <2>1, <2>2, <2>3
<1> QED
  BY <1>4, <1>7, <1>8

LEMMA WorkerEvicts ==
  EInv /\ (CheckQueue \/ FrontUnit \/ ReleaseFrontUnit \/ PersistenceCheck \/ TickAutosave
             \/ PopAutosave \/ ForgetAutosave \/ Sleep)
    => Eviction'
<1> SUFFICES ASSUME EInv,
                    CheckQueue \/ FrontUnit \/ ReleaseFrontUnit \/ PersistenceCheck
                      \/ TickAutosave \/ PopAutosave \/ ForgetAutosave \/ Sleep
             PROVE  Eviction'
  OBVIOUS
<1>1. /\ wpc \notin Kinds \cup {"detach", "release"}
      /\ wpc' \notin Kinds \cup {"detach", "release"}
  BY DEF CheckQueue, FrontUnit, ReleaseFrontUnit, PersistenceCheck, TickAutosave, PopAutosave,
         ForgetAutosave, Sleep, Persisted, Kinds, Tries
<1>2. UNCHANGED <<bulks, state_, data_, inMemory, ppc, releaseWheel>>
  BY DEF CheckQueue, FrontUnit, ReleaseFrontUnit, PersistenceCheck, TickAutosave, PopAutosave,
         ForgetAutosave, Sleep, bulkVars, indexVars, wheelVars
<1> QED
  BY <1>1, <1>2, QuietWorker

LEMMA TicksEvict == EInv /\ (TickRelease \/ ForgetRelease) => Eviction'
<1> SUFFICES ASSUME EInv, TickRelease \/ ForgetRelease PROVE Eviction'
  OBVIOUS
<1>1. /\ wpc \notin Kinds \cup {"detach", "release"}
      /\ wpc' \notin Kinds \cup {"detach", "release"}
      /\ UNCHANGED <<bulks, state_, data_, inMemory, ppc>>
  BY DEF TickRelease, ForgetRelease, Kinds, Tries, bulkVars, indexVars
<1>2. releaseWheel' = Ticked(releaseWheel) \/ releaseWheel' = Forgotten(releaseWheel, wb)
  BY DEF TickRelease, ForgetRelease
<1>3. \A u \in releaseWheel : \E v \in releaseWheel' : u.bulk = v.bulk
  <2> SUFFICES ASSUME NEW u \in releaseWheel PROVE \E v \in releaseWheel' : u.bulk = v.bulk
    OBVIOUS
  <2> DEFINE t == [u EXCEPT !.left = @ - 1]
             f == [u EXCEPT !.known = @ /\ u.bulk # wb]
  <2>1. u \in TimerUnits
    BY DEF EInv, IInv, Wheels
  <2>2. t.bulk = u.bulk /\ f.bulk = u.bulk
    BY <2>1 DEF TimerUnits
  <2>3. t \in Ticked(releaseWheel) /\ f \in Forgotten(releaseWheel, wb)
    BY DEF Ticked, Forgotten
  <2> QED
    BY <1>2, <2>2, <2>3
<1> QED
  BY <1>1, <1>3, QuietWorker

LEMMA PopReleaseEvicts == EInv /\ PopRelease => Eviction'
<1> SUFFICES ASSUME EInv, PopRelease PROVE Eviction'
  OBVIOUS
<1> USE DEF EInv, Eviction
<1>1. /\ wpc = "evict" /\ wpc' = "release"
      /\ \E u \in releaseWheel : releaseWheel' = releaseWheel \ {u} /\ wb' = u.bulk
      /\ UNCHANGED <<bulks, state_, data_, inMemory, ppc>>
  BY DEF PopRelease, Due, bulkVars, indexVars
<1>2. (SaveDrops /\ HeapIsRead)'
  BY <1>1 DEF SaveDrops, HeapIsRead, WWrites, Running, Kinds, Tries
<1>3. (Running => \A b \in Bulks : Evictable(b) => Armed(b))'
  BY <1>1 DEF Evictable, Armed, WWrites, Running, Kinds, Tries
<1> QED
  BY <1>1, <1>2, <1>3

LEMMA ReleaseSpaceEvicts == EInv /\ ReleaseSpace => Eviction'
<1> SUFFICES ASSUME EInv, ReleaseSpace PROVE Eviction'
  OBVIOUS
<1> USE DEF EInv, Eviction
<1>1. /\ wpc = "release" /\ wpc' = "released"
      /\ state_' = [state_ EXCEPT ![wb] = "Saved"]
      /\ data_' = [data_ EXCEPT ![wb] = IF state_[wb] = "Saved" THEN @ ELSE "null"]
      /\ inMemory' = [inMemory EXCEPT ![wb] = {}]
      /\ UNCHANGED <<bulks, ppc, wb, releaseWheel>>
  BY DEF ReleaseSpace, bulkVars, indexVars, wheelVars
<1>2. wb \in Bulks /\ ppc # "crashed"
  BY <1>1, Bounds DEF IInv, Wheels, RingTypes, Bulks
<1>3. /\ state_'[wb] = "Saved" /\ inMemory'[wb] = {}
      /\ \A b \in Bulks : b # wb => state_'[b] = state_[b] /\ data_'[b] = data_[b]
                                    /\ inMemory'[b] = inMemory[b]
  BY <1>1, <1>2 DEF IInv, RingTypes
<1>4. data_'[wb] = "null"
  BY <1>1, <1>2 DEF IInv, RingTypes, HeapIsRead, Running, WWrites, Kinds, Tries
<1>5. (SaveDrops /\ HeapIsRead)'
  BY <1>1, <1>2, <1>3, <1>4 DEF SaveDrops, HeapIsRead, WWrites, Running, Kinds, Tries
<1>6. (Running => \A b \in Bulks : Evictable(b) => Armed(b))'
  BY <1>1, <1>2, <1>3, <1>4 DEF Evictable, Armed, WWrites, Running, Kinds, Tries
<1> QED
  BY <1>1, <1>5, <1>6

LEMMA SaveContentEvicts == EInv /\ SaveContent => Eviction'
<1> SUFFICES ASSUME EInv, SaveContent PROVE Eviction'
  OBVIOUS
<1> USE DEF EInv, Eviction
<1>1. /\ wpc = "lock" /\ wpc' = "offset"
      /\ state_' = [state_ EXCEPT ![wb] = "Saved"]
      /\ UNCHANGED <<bulks, data_, inMemory, ppc, wb, releaseWheel>>
  BY DEF SaveContent, bulkVars, indexVars, wheelVars
<1>2. wb \in Bulks /\ \A b \in Bulks : b # wb => state_'[b] = state_[b]
  BY <1>1, Bounds DEF IInv, PassBound, RingTypes, Bulks, SavePlaces
<1>3. WWrites(wb)' /\ \A b \in Bulks : ~ WWrites(b)
  BY <1>1 DEF WWrites, Kinds, Tries
<1>4. SaveDrops'
  BY <1>1 DEF SaveDrops, Unsaved, WWrites, Kinds, Tries
<1>5. HeapIsRead'
  <2>1. ppc = "append" => state_'[bulks] # "InMemory"
    <3>1. state_'[wb] = "Saved" /\ bulks \in Bulks
      BY <1>1, <1>2 DEF IInv, RingTypes
    <3> QED
      BY <1>2, <3>1 DEF HeapIsRead, Running
  <2> QED
    BY <1>1, <1>2, <1>3, <2>1 DEF HeapIsRead, Running
<1>6. (Running => \A b \in Bulks : Evictable(b) => Armed(b))'
  BY <1>1, <1>2, <1>3 DEF Evictable, Armed, Running
<1> QED
  BY <1>1, <1>4, <1>5, <1>6

LEMMA SaveIndexEvicts == EInv /\ SaveIndex => Eviction'
<1> SUFFICES ASSUME EInv, SaveIndex PROVE Eviction'
  OBVIOUS
<1> USE DEF EInv, Eviction
<1>1. /\ wpc \in Kinds /\ wpc' = AfterSave[wpc]
      /\ inMemory' = [inMemory EXCEPT ![wb] = @ \ {wpc}]
      /\ UNCHANGED <<bulks, state_, data_, ppc, wb, releaseWheel>>
  <2>1. wb \in Bulks
    BY Bounds DEF SaveIndex, IInv, PassBound, RingTypes, Bulks, SavePlaces
  <2>2. wpc \notin inMemory[wb] => inMemory = [inMemory EXCEPT ![wb] = @ \ {wpc}]
    BY <2>1
  <2> QED
    BY <2>2 DEF SaveIndex, StillRead, bulkVars, wheelVars
<1>2. wb \in Bulks
  BY <1>1, Bounds DEF IInv, PassBound, RingTypes, Bulks, SavePlaces
<1>3. /\ wpc' \in Kinds \cup {"detach"}
      /\ Unsaved[wpc] \ {wpc} \subseteq Unsaved[AfterSave[wpc]]
  BY <1>1 DEF Unsaved, AfterSave, Kinds, Tries
<1>4. /\ inMemory'[wb] = inMemory[wb] \ {wpc}
      /\ \A b \in Bulks : b # wb => inMemory'[b] = inMemory[b]
  BY <1>1, <1>2
<1>5. \A b \in Bulks : WWrites(b)' = WWrites(b)
  BY <1>1, <1>3 DEF WWrites
<1>6. SaveDrops'
  BY <1>1, <1>2, <1>3, <1>4 DEF SaveDrops, WWrites
<1>7. HeapIsRead'
  BY <1>1, <1>5 DEF HeapIsRead, Running
<1>8. (Running => \A b \in Bulks : Evictable(b) => Armed(b))'
  BY <1>1, <1>4, <1>5 DEF Evictable, Armed, Running, WWrites, Kinds, Tries
<1> QED
  BY <1>1, <1>6, <1>7, <1>8

LEMMA DetachEvicts == EInv /\ Detach => Eviction'
<1> SUFFICES ASSUME EInv, Detach PROVE Eviction'
  OBVIOUS
<1> USE DEF EInv, Eviction
<1>1. /\ wpc = "detach" /\ wpc' \in {"releaseFront", "autosaved"}
      /\ data_' = [data_ EXCEPT ![wb] = "null"]
      /\ UNCHANGED <<bulks, state_, inMemory, ppc, wb, releaseWheel>>
  BY DEF Detach, Persisted, bulkVars, indexVars, wheelVars
<1>2. wb \in Bulks
  BY <1>1, Bounds DEF IInv, PassBound, RingTypes, Bulks, SavePlaces
<1>3. data_'[wb] = "null" /\ \A b \in Bulks : b # wb => data_'[b] = data_[b]
  BY <1>1, <1>2 DEF IInv, RingTypes
<1>4. inMemory[wb] = {}
  BY <1>1, <1>2 DEF SaveDrops, WWrites, Unsaved
<1>5. (SaveDrops /\ HeapIsRead)'
  BY <1>1, <1>3 DEF SaveDrops, HeapIsRead, WWrites, Running, Kinds, Tries
<1>6. (Running => \A b \in Bulks : Evictable(b) => Armed(b))'
  BY <1>1, <1>3, <1>4 DEF Evictable, Armed, WWrites, Running, Kinds, Tries
<1> QED
  BY <1>1, <1>5, <1>6

LEMMA CrashEvicts == EInv /\ (AppendToNull \/ ReadNothing \/ SaveNull) => Eviction'
<1> SUFFICES ASSUME EInv, AppendToNull \/ ReadNothing \/ SaveNull PROVE Eviction'
  OBVIOUS
<1>1. ppc' = "crashed" /\ wpc' = "crashed" /\ UNCHANGED inMemory
  BY DEF AppendToNull, ReadNothing, SaveNull, Crash, indexVars
<1> QED
  BY <1>1 DEF EInv, Eviction, SaveDrops, HeapIsRead, WWrites, Running, Kinds, Tries

LEMMA InitEvicts == Init => EInv
<1> SUFFICES ASSUME Init PROVE EInv
  OBVIOUS
<1>1. IInv
  BY InitKeeps
<1>2. SaveDrops /\ HeapIsRead
  BY Bounds DEF Init, SaveDrops, HeapIsRead, WWrites, Kinds, Tries, Running, Bulks
<1>3. \A b \in Bulks : ~ Evictable(b)
  BY DEF Init, Evictable
<1> QED
  BY <1>1, <1>2, <1>3 DEF EInv, Eviction, Init

LEMMA NextEvicts == EInv /\ [Next]_vars => EInv'
<1> SUFFICES ASSUME EInv, [Next]_vars PROVE EInv'
  OBVIOUS
<1>1. IInv'
  BY NextKeeps DEF EInv
<1>2. CASE ServeRequest \/ AppendCheck \/ StartQuery
  BY <1>1, <1>2, AppendsEvict, AppendFullEvicts, BindUnitEvicts, VisitBulkEvicts,
     ReadBulkEvicts, CrashEvicts DEF ServeRequest, EInv
<1>3. CASE Worker
  BY <1>1, <1>3, WorkerEvicts, TicksEvict, PopReleaseEvicts, ReleaseSpaceEvicts,
     SaveContentEvicts, SaveIndexEvicts, DetachEvicts, CrashEvicts DEF Worker, EInv
<1>4. CASE UNCHANGED vars
  BY <1>1, <1>4 DEF EInv, Eviction, SaveDrops, HeapIsRead, Evictable, Armed, WWrites, Running,
                    vars, bulkVars, indexVars, wheelVars, wVars
<1> QED
  BY <1>2, <1>3, <1>4 DEF Next

(* Content on the heap, or an index read back, is due to be evicted: a     *)
(* timer unit waits for its bulk, or the worker has it in hand.            *)
THEOREM StoreEvictsInTime == Spec => []EvictionArmed
<1>1. EInv => EvictionArmed
  BY DEF EInv, Eviction, EvictionArmed, Evictable, Armed
<1>2. Spec => []EInv
  BY InitEvicts, NextEvicts, PTL DEF Spec
<1> QED
  BY <1>1, <1>2, PTL

-----------------------------------------------------------------------------
(* Recovery.  The content and the indexes of a bulk, by its numbers.       *)
Numbered(s, n) == [i \in 1 .. n |-> s + i]
Entries(kind, s, n) == [i \in 1 .. n |-> IF kind = "offset" THEN i - 1 ELSE s + i]

(* Build_index extends the indexes one by one, and then counts the log.    *)
Ahead == [key       |-> {"word", "offset", "timestamp"},
          word      |-> {"offset", "timestamp"},
          offset    |-> {"timestamp"},
          timestamp |-> {}]
Indexed(b, kind) == size_[b] + (IF b = bulks /\ ppc \in Ahead[kind] THEN 1 ELSE 0)
Written(b) == size_[b] + (IF b = bulks /\ ppc \in {"index"} \cup Kinds THEN 1 ELSE 0)

DataTypes ==
    /\ heap \in [Bulks -> Seq(Logs)]
    /\ offset_ \in [Bulks -> 0 .. BulkSize] /\ size_ \in [Bulks -> 0 .. BulkSize]
    /\ start_serial_ \in [Bulks -> Names]
    /\ index \in [Bulks -> [Kinds -> Seq(Nat)]]
    /\ buffer \in [Slots -> Seq(Logs)]
    /\ disk \in [Names -> [Kinds \cup {"content"} -> Seq(Nat)]]
    /\ wb \in Bulks \cup {NoBulk}
    /\ result \in Seq(Logs)
    /\ asked \in 0 .. MaxQueries
    /\ ppc \in {"visit", "read"} => query \in [kind : QueryKinds, key : Keys]

(* The files of two bulks have different names, because a bulk is left for *)
(* the next one only when it holds a log.                                  *)
Numbers ==
    /\ LogSerial = start_serial_[IF ppc = "bind" THEN bulks + 1 ELSE bulks]
    /\ ppc = "bind" => LogSerial = stored
    /\ start_serial_[bulks] + size_[bulks] = stored + (IF ppc = "global" THEN 1 ELSE 0)
    /\ \A b, c \in 1 .. bulks : b < c => start_serial_[b] + size_[b] <= start_serial_[c]
    /\ \A b \in Bulks : offset_[b] = Written(b)
    /\ \A b \in Bulks : state_[b] \in {"InQueue", "InMemory", "Saved"} => size_[b] > 0
    /\ \A b \in Bulks : b > bulks => size_[b] = 0
    /\ \A b \in Bulks : state_[b] = "Init" <=> b > bulks

(* No autosave has hit the append under way, and only bulks with a log are *)
(* due to be saved.                                                        *)
Guarded ==
    /\ ppc \in Appending => state_[bulks] = "Appending"
    /\ ppc = "new" => size_[bulks] > 0
    /\ wpc = "lock" => state_[wb] \in Saveable /\ (wleft > 0 => state_[wb] # "Appending")
    /\ \A u \in autosaveWheel : offset_[u.bulk] > 0
    /\ wleft = 0 /\ wpc \in {"check", "lock"} => offset_[wb] > 0

Placed ==
    \A b \in Bulks : /\ state_[b] = "InQueue" => data_[b] = "slot"
                     /\ state_[b] = "InMemory" => data_[b] = "heap"

Contents ==
    /\ ppc = "bind" => buffer[slot_[bulks + 1]] = <<>>
    /\ \A b \in Bulks :
          /\ data_[b] = "slot" => buffer[slot_[b]] = Numbered(start_serial_[b], offset_[b])
          /\ data_[b] = "heap" => heap[b] = Numbered(start_serial_[b], offset_[b])
          /\ state_[b] \in {"Saved", "InMemory"} =>
                disk[start_serial_[b]]["content"] = Numbered(start_serial_[b], offset_[b])

Indexes ==
    \A b \in Bulks : \A kind \in Kinds :
        /\ kind \in inMemory[b] =>
              index[b][kind] = Entries(kind, start_serial_[b], Indexed(b, kind))
        /\ kind \notin inMemory[b] => state_[b] \in {"Saved", "InMemory"}
        /\ state_[b] \in {"Saved", "InMemory"}
              => \/ disk[start_serial_[b]][kind] = Entries(kind, start_serial_[b], size_[b])
                 \/ WWrites(b) /\ kind \in Unsaved[wpc] \cap inMemory[b]

Covered ==
    \A n \in 1 .. start_serial_[bulks] + size_[bulks] : \E b \in 1 .. bulks :
        start_serial_[b] < n /\ n <= start_serial_[b] + size_[b]

Reading == ppc = "read" => Consulted \subseteq inMemory[Head(todo)]

(* A unit of a wheel is due only while the wheel is emptied of those.      *)
Ticks ==
    /\ releaseWheel \subseteq Unit(ReleaseTicks)
    /\ autosaveWheel \subseteq Unit(AutosaveTicks)
    /\ wpc \notin {"evict", "release", "released"} => \A u \in releaseWheel : u.left > 0
    /\ wpc \in {"autosave", "autosaved"}
         \/ (wleft = 0 /\ wpc \in {"check"} \cup SavePlaces)
         \/ \A u \in autosaveWheel : u.left > 0

Recovery ==
    /\ DataTypes /\ Numbers /\ Guarded /\ Placed /\ Contents /\ Indexes
    /\ Covered /\ Reading /\ Ticks

RInv == EInv /\ Running /\ Recovery

LEMMA NumberedProperties ==
  ASSUME NEW s \in Nat, NEW n \in Nat
  PROVE  /\ Numbered(s, 0) = <<>>
         /\ Append(Numbered(s, n), s + n + 1) = Numbered(s, n + 1)
         /\ Len(Numbered(s, n)) = n
         /\ \A i \in 1 .. n : Numbered(s, n)[i] = s + i
         /\ Numbered(s, n) \in Seq(Nat)
         /\ s + n <= MaxLogs => Numbered(s, n) \in Seq(Logs)
<1>1. \A S : (\A i \in 1 .. n : s + i \in S) => Numbered(s, n) \in Seq(S)
  BY IsASeq DEF Numbered
<1>2. \A i \in 1 .. n : s + i \in Nat
  OBVIOUS
<1>3. s + n <= MaxLogs => \A i \in 1 .. n : s + i \in Logs
  BY Bounds DEF Logs
<1>4. Numbered(s, n) \in Seq(Nat) /\ Len(Numbered(s, n)) = n
  BY <1>1, <1>2 DEF Numbered
<1>5. Append(Numbered(s, n), s + n + 1) = Numbered(s, n + 1)
  BY <1>4 DEF Numbered
<1> QED
  BY <1>1, <1>3, <1>4, <1>5 DEF Numbered

LEMMA EntriesProperties ==
  ASSUME NEW kind, NEW s \in Nat, NEW n \in Nat
  PROVE  /\ Entries(kind, s, 0) = <<>>
         /\ Append(Entries(kind, s, n), IF kind = "offset" THEN n ELSE s + n + 1)
              = Entries(kind, s, n + 1)
         /\ Len(Entries(kind, s, n)) = n
         /\ \A i \in 1 .. n : Entries(kind, s, n)[i] = IF kind = "offset" THEN i - 1 ELSE s + i
         /\ Entries(kind, s, n) \in Seq(Nat)
<1>1. \A i \in 1 .. n : (IF kind = "offset" THEN i - 1 ELSE s + i) \in Nat
  OBVIOUS
<1>2. Entries(kind, s, n) \in Seq(Nat)
  BY <1>1, IsASeq DEF Entries
<1>3. Len(Entries(kind, s, n)) = n
  BY <1>2 DEF Entries
<1>4. Append(Entries(kind, s, n), IF kind = "offset" THEN n ELSE s + n + 1)
        = Entries(kind, s, n + 1)
  BY <1>2, <1>3 DEF Entries
<1> QED
  BY <1>2, <1>3, <1>4 DEF Entries

(* The places of Build_index, where an index may be ahead of the count. *)
LEMMA AheadPlaces ==
  /\ \A kind \in Kinds : Ahead[kind] \subseteq {"word", "offset", "timestamp"}
  /\ \A kind, place \in Kinds :
        AfterBuild[place] \in Ahead[kind] <=>
            place # "timestamp" /\ (place = kind \/ place \in Ahead[kind])
  /\ \A kind \in Kinds : kind \notin Ahead[kind] /\ (kind # "timestamp" => "timestamp" \in Ahead[kind])
  BY DEF Ahead, AfterBuild, Kinds, Tries

(* Bulks that hold a log have files of their own. *)
LEMMA NamesDiffer ==
  ASSUME RInv, NEW b \in Bulks, NEW c \in Bulks, size_[b] > 0, size_[c] > 0, b # c
  PROVE  start_serial_[b] # start_serial_[c]
<1> USE DEF RInv, Recovery
<1>1. b \in 1 .. bulks /\ c \in 1 .. bulks
  BY Bounds DEF Numbers, EInv, IInv, RingTypes, Bulks
<1>2. /\ size_[b] \in Nat /\ size_[c] \in Nat
      /\ start_serial_[b] \in Nat /\ start_serial_[c] \in Nat
  BY Bounds DEF DataTypes, Names
<1> QED
  BY <1>1, <1>2 DEF Numbers

(* The newest bulk, and the number the next log will have. *)
LEMMA Newest ==
  ASSUME RInv
  PROVE  /\ bulks \in Bulks /\ bulks \in Nat /\ stored \in Nat /\ bulks \in 1 .. bulks
         /\ size_[bulks] \in Nat /\ offset_[bulks] \in Nat /\ start_serial_[bulks] \in Nat
         /\ \A b \in Bulks : /\ size_[b] \in Nat /\ offset_[b] \in Nat
                             /\ start_serial_[b] \in Nat
                             /\ b \in Nat /\ b > 0
<1>1. bulks \in Bulks /\ stored \in Nat
  BY Bounds DEF RInv, EInv, IInv, RingTypes
<1>2. \A b \in Bulks : b \in Nat /\ b > 0
  BY Bounds DEF Bulks
<1>3. \A b \in Bulks : size_[b] \in Nat /\ offset_[b] \in Nat
  BY Bounds DEF RInv, Recovery, DataTypes
<1>4. \A b \in Bulks : start_serial_[b] \in Nat
  BY Bounds DEF RInv, Recovery, DataTypes, Names
<1> QED
  BY <1>1, <1>2, <1>3, <1>4

LEMMA InFile ==
  ASSUME RInv, NEW b \in 1 .. bulks
  PROVE  /\ b \in Bulks
         /\ start_serial_[b] + size_[b] <= stored + (IF ppc = "global" THEN 1 ELSE 0)
         /\ start_serial_[b] + size_[b] <= MaxLogs
<1> USE DEF RInv, Recovery
<1>1. b \in Bulks
  BY Newest, Bounds DEF Bulks
<1>2. start_serial_[b] + size_[b] <= stored + (IF ppc = "global" THEN 1 ELSE 0)
  <2>1. b < bulks => start_serial_[b] + size_[b] <= start_serial_[bulks]
    BY Newest DEF Numbers
  <2>2. start_serial_[bulks] <= start_serial_[bulks] + size_[bulks]
    BY Newest
  <2>3. b = bulks \/ b < bulks
    BY Newest
  <2>4. start_serial_[bulks] + size_[bulks] = stored + (IF ppc = "global" THEN 1 ELSE 0)
    BY DEF Numbers
  <2> QED
    BY <1>1, <2>1, <2>2, <2>3, <2>4, Newest
<1>3. stored <= MaxLogs /\ (ppc = "global" => stored < MaxLogs)
  BY Bounds DEF EInv, IInv, RingTypes, BulkCount
<1> QED
  BY <1>1, <1>2, <1>3, Newest, Bounds

LEMMA QuietRequest ==
  ASSUME RInv,
         UNCHANGED <<bulks, state_, data_, slot_, heap, offset_, size_, start_serial_, LogSerial,
                     index, inMemory, buffer, disk, releaseWheel, autosaveWheel, wpc, wb, wleft>>,
         ppc # "bind", ppc' # "bind",
         ppc \notin {"word", "offset", "timestamp"}, ppc' \notin {"word", "offset", "timestamp"}
  PROVE  (Placed /\ Covered /\ Ticks /\ Contents /\ Indexes)'
<1> USE DEF RInv, Recovery
<1>1. (Placed /\ Covered /\ Ticks)'
  BY DEF Placed, Covered, Ticks
<1>2. Contents'
  BY DEF Contents
<1>3. Indexes'
  BY AheadPlaces DEF Indexes, Indexed, WWrites
<1> QED
  BY <1>1, <1>2, <1>3

LEMMA QuietWorks ==
  ASSUME RInv, wb' \in Bulks \cup {NoBulk},
         UNCHANGED <<bulks, state_, data_, slot_, heap, offset_, size_, start_serial_, LogSerial,
                     index, inMemory, buffer, disk, ppc, query, todo, result, asked, stored>>,
         wpc \notin Kinds \cup {"detach"}, wpc' \notin Kinds \cup {"detach"}
  PROVE  (DataTypes /\ Numbers /\ Placed /\ Contents /\ Indexes /\ Covered /\ Reading)'
<1> USE DEF RInv, Recovery
<1>1. DataTypes'
  BY DEF DataTypes
<1>2. (Numbers /\ Placed /\ Covered)'
  BY DEF Numbers, Written, Placed, Covered
<1>3. (Contents /\ Reading)'
  BY DEF Contents, Reading, Consulted
<1>4. Indexes'
  BY DEF Indexes, Indexed, WWrites
<1> QED
  BY <1>1, <1>2, <1>3, <1>4

LEMMA AppendCheckRecovers == RInv /\ AppendCheck => Recovery'
<1> SUFFICES ASSUME RInv, AppendCheck PROVE Recovery'
  OBVIOUS
<1> USE DEF RInv, Recovery
<1>1. /\ ppc = "idle" /\ ppc' \in {"append", "new"}
      /\ ppc' = "append" <=> state_[bulks] = "Appending"
      /\ UNCHANGED <<bulks, state_, data_, slot_, heap, offset_, size_, start_serial_,
                     LogSerial, index, inMemory, globalTrie, buffer, handler,
                     write_position_, read_position_, disk, releaseWheel, autosaveWheel,
                     query, todo, result, wpc, wb, wleft, asked, stored>>
  BY DEF AppendCheck, TakesLogs, bulkVars, indexVars, ringVars, wheelVars, queryVars,
         wVars, outVars
<1>2. (Placed /\ Covered /\ Ticks /\ Contents /\ Indexes)'
  BY <1>1, QuietRequest
<1>3. (DataTypes /\ Numbers /\ Reading)'
  BY <1>1 DEF DataTypes, Numbers, Written, Reading, Kinds, Tries
<1>4. Guarded'
  <2>1. state_[bulks] # "Appending" => size_[bulks] > 0
    <3>1. state_[bulks] # "Init" /\ state_[bulks] \in States
      BY Newest DEF Numbers, EInv, IInv, RingTypes
    <3> QED
      BY <3>1, Newest DEF Numbers, States
  <2> QED
    BY <1>1, <2>1 DEF Guarded, Appending, Kinds, Tries
<1> QED
  BY <1>2, <1>3, <1>4

LEMMA BuildCheckRecovers == RInv /\ BuildCheck => Recovery'
<1> SUFFICES ASSUME RInv, BuildCheck PROVE Recovery'
  OBVIOUS
<1> USE DEF RInv, Recovery
<1>1. /\ ppc = "index" /\ ppc' = "key"
      /\ UNCHANGED <<bulks, state_, data_, slot_, heap, offset_, size_, start_serial_,
                     LogSerial, index, inMemory, globalTrie, buffer, handler,
                     write_position_, read_position_, disk, releaseWheel, autosaveWheel,
                     query, todo, result, wpc, wb, wleft, asked, stored>>
  BY DEF BuildCheck, TakesLogs, Guarded, Appending, bulkVars, indexVars, ringVars, wheelVars, queryVars,
         wVars, outVars
<1>2. (Placed /\ Covered /\ Ticks /\ Contents /\ Indexes)'
  BY <1>1, QuietRequest
<1>3. (DataTypes /\ Numbers /\ Reading)'
  BY <1>1 DEF DataTypes, Numbers, Written, Reading, Kinds, Tries
<1>4. Guarded'
  BY <1>1 DEF Guarded, Appending, Kinds, Tries
<1> QED
  BY <1>2, <1>3, <1>4

LEMMA FinishAppendRecovers == RInv /\ FinishAppend => Recovery'
<1> SUFFICES ASSUME RInv, FinishAppend PROVE Recovery'
  OBVIOUS
<1> USE DEF RInv, Recovery
<1>1. /\ ppc = "global" /\ ppc' = "idle" /\ stored' = stored + 1
      /\ UNCHANGED <<bulks, state_, data_, slot_, heap, offset_, size_, start_serial_,
                     LogSerial, index, inMemory, buffer, handler, write_position_,
                     read_position_, disk, releaseWheel, autosaveWheel, query, todo,
                     result, wpc, wb, wleft, asked>>
  BY DEF FinishAppend, bulkVars, indexVars, ringVars, wheelVars, queryVars,
         wVars, outVars
<1>2. (Placed /\ Covered /\ Ticks /\ Contents /\ Indexes)'
  BY <1>1, QuietRequest
<1>3. (DataTypes /\ Reading)'
  BY <1>1 DEF DataTypes, Reading
<1>4. Numbers'
  BY <1>1, Newest DEF Numbers, Written, Kinds, Tries
<1>5. Guarded'
  BY <1>1 DEF Guarded, Appending, Kinds, Tries
<1> QED
  BY <1>2, <1>3, <1>4, <1>5

LEMMA StartQueryRecovers == RInv /\ StartQuery => Recovery'
<1> SUFFICES ASSUME RInv, StartQuery PROVE Recovery'
  OBVIOUS
<1> USE DEF RInv, Recovery
<1>1. /\ ppc = "idle" /\ ppc' = "visit" /\ asked < MaxQueries /\ asked' = asked + 1
      /\ query' \in [kind : QueryKinds, key : Keys] /\ result' \in Seq(Logs)
      /\ UNCHANGED <<bulks, state_, data_, slot_, heap, offset_, size_, start_serial_,
                     LogSerial, index, inMemory, globalTrie, buffer, handler,
                     write_position_, read_position_, disk, releaseWheel, autosaveWheel,
                     wpc, wb, wleft, stored>>
  <2>1. <<>> \in Seq(Logs)
    OBVIOUS
  <2> QED
    BY <2>1 DEF StartQuery, bulkVars, indexVars, ringVars, wheelVars, queryVars, wVars, outVars
<1>2. (Placed /\ Covered /\ Ticks /\ Contents /\ Indexes)'
  BY <1>1, QuietRequest
<1>3. DataTypes'
  <2>1. asked' \in 0 .. MaxQueries
    BY <1>1, StoreAssumption DEF DataTypes
  <2> QED
    BY <1>1, <2>1 DEF DataTypes
<1>4. (Numbers /\ Reading)'
  BY <1>1 DEF Numbers, Written, Reading, Kinds, Tries
<1>5. Guarded'
  BY <1>1 DEF Guarded, Appending, Kinds, Tries
<1> QED
  BY <1>2, <1>3, <1>4, <1>5

LEMMA PassBulkRecovers == RInv /\ PassBulk => Recovery'
<1> SUFFICES ASSUME RInv, PassBulk PROVE Recovery'
  OBVIOUS
<1> USE DEF RInv, Recovery
<1>1. /\ ppc = "read" /\ ppc' = "visit"
      /\ UNCHANGED <<bulks, state_, data_, slot_, heap, offset_, size_, start_serial_,
                     LogSerial, index, inMemory, globalTrie, buffer, handler,
                     write_position_, read_position_, disk, releaseWheel, autosaveWheel,
                     query, result, wpc, wb, wleft, asked, stored>>
  BY DEF PassBulk, bulkVars, indexVars, ringVars, wheelVars, queryVars,
         wVars, outVars
<1>2. (Placed /\ Covered /\ Ticks /\ Contents /\ Indexes)'
  BY <1>1, QuietRequest
<1>3. (DataTypes /\ Numbers /\ Reading)'
  BY <1>1 DEF DataTypes, Numbers, Written, Reading, Kinds, Tries
<1>4. Guarded'
  BY <1>1 DEF Guarded, Appending, Kinds, Tries
<1> QED
  BY <1>2, <1>3, <1>4

LEMMA FinishQueryRecovers == RInv /\ FinishQuery => Recovery'
<1> SUFFICES ASSUME RInv, FinishQuery PROVE Recovery'
  OBVIOUS
<1> USE DEF RInv, Recovery
<1>1. /\ ppc = "visit" /\ ppc' = "idle" /\ result' \in Seq(Logs)
      /\ UNCHANGED <<bulks, state_, data_, slot_, heap, offset_, size_, start_serial_,
                     LogSerial, index, inMemory, globalTrie, buffer, handler,
                     write_position_, read_position_, disk, releaseWheel, autosaveWheel,
                     wpc, wb, wleft, asked, stored>>
  <2>1. <<>> \in Seq(Logs)
    OBVIOUS
  <2> QED
    BY <2>1 DEF FinishQuery, bulkVars, indexVars, ringVars, wheelVars, queryVars, wVars, outVars
<1>2. (Placed /\ Covered /\ Ticks /\ Contents /\ Indexes)'
  BY <1>1, QuietRequest
<1>3. (DataTypes /\ Numbers /\ Reading)'
  BY <1>1 DEF DataTypes, Numbers, Written, Reading, Kinds, Tries
<1>4. Guarded'
  BY <1>1 DEF Guarded, Appending, Kinds, Tries
<1> QED
  BY <1>2, <1>3, <1>4

LEMMA CheckQueueRecovers == RInv /\ CheckQueue => Recovery'
<1> SUFFICES ASSUME RInv, CheckQueue PROVE Recovery'
  OBVIOUS
<1> USE DEF RInv, Recovery
<1>1. /\ wpc = "queue" /\ wpc' \in {"front", "tick"}
      /\ UNCHANGED <<bulks, state_, data_, slot_, heap, offset_, size_, start_serial_,
                     LogSerial, index, inMemory, globalTrie, buffer, handler,
                     write_position_, read_position_, disk, releaseWheel, autosaveWheel,
                     ppc, query, todo, result, wb, asked, stored>>
  BY DEF CheckQueue, bulkVars, indexVars, ringVars, wheelVars, queryVars,
         wVars, outVars
<1>2. (DataTypes /\ Numbers /\ Placed /\ Contents /\ Indexes /\ Covered /\ Reading)'
  <2>1. wb' \in Bulks \cup {NoBulk}
    BY <1>1 DEF DataTypes
  <2> QED
    BY <1>1, <2>1, QuietWorks DEF Kinds, Tries
<1>3. (Guarded /\ Ticks)'
  BY <1>1 DEF Guarded, Ticks, SavePlaces, Kinds, Tries
<1> QED
  BY <1>2, <1>3

LEMMA FrontUnitRecovers == RInv /\ FrontUnit => Recovery'
<1> SUFFICES ASSUME RInv, FrontUnit PROVE Recovery'
  OBVIOUS
<1> USE DEF RInv, Recovery
<1>1. /\ wpc = "front" /\ wpc' \in {"releaseFront", "check"}
      /\ wb' = handler[read_position_]
      /\ UNCHANGED <<bulks, state_, data_, slot_, heap, offset_, size_, start_serial_,
                     LogSerial, index, inMemory, globalTrie, buffer, handler,
                     write_position_, read_position_, disk, releaseWheel, autosaveWheel,
                     ppc, query, todo, result, wleft, asked, stored>>
  BY DEF FrontUnit, bulkVars, indexVars, ringVars, wheelVars, queryVars,
         wVars, outVars
<1>2. wleft > 0
  BY <1>1 DEF EInv, IInv, PassBound
<1>3. (DataTypes /\ Numbers /\ Placed /\ Contents /\ Indexes /\ Covered /\ Reading)'
  <2>1. wb' \in Bulks \cup {NoBulk}
    BY <1>1 DEF EInv, IInv, RingTypes
  <2> QED
    BY <1>1, <2>1, QuietWorks DEF Kinds, Tries
<1>4. (Guarded /\ Ticks)'
  BY <1>1, <1>2 DEF Guarded, Ticks, SavePlaces, Kinds, Tries
<1> QED
  BY <1>3, <1>4

LEMMA ReleaseFrontUnitRecovers == RInv /\ ReleaseFrontUnit => Recovery'
<1> SUFFICES ASSUME RInv, ReleaseFrontUnit PROVE Recovery'
  OBVIOUS
<1> USE DEF RInv, Recovery
<1>1. /\ wpc = "releaseFront" /\ wpc' \in {"front", "tick"} /\ wb' = NoBulk
      /\ UNCHANGED <<bulks, state_, data_, slot_, heap, offset_, size_, start_serial_,
                     LogSerial, index, inMemory, globalTrie, buffer, handler,
                     write_position_, disk, releaseWheel, autosaveWheel, ppc, query, todo,
                     result, asked, stored>>
  BY DEF ReleaseFrontUnit, bulkVars, indexVars, ringVars, wheelVars, queryVars,
         wVars, outVars
<1>2. (DataTypes /\ Numbers /\ Placed /\ Contents /\ Indexes /\ Covered /\ Reading)'
  BY <1>1, QuietWorks DEF Kinds, Tries
<1>3. (Guarded /\ Ticks)'
  BY <1>1 DEF Guarded, Ticks, SavePlaces, Kinds, Tries
<1> QED
  BY <1>2, <1>3

LEMMA PersistenceCheckRecovers == RInv /\ PersistenceCheck => Recovery'
<1> SUFFICES ASSUME RInv, PersistenceCheck PROVE Recovery'
  OBVIOUS
<1> USE DEF RInv, Recovery
<1>1. /\ wpc = "check" /\ wpc' \in {"lock", "releaseFront", "autosaved"}
      /\ wpc' = "lock" => state_[wb] \in Saveable
      /\ wpc' = "releaseFront" => wleft > 0
      /\ wpc' = "autosaved" => ~ wleft > 0
      /\ UNCHANGED <<bulks, state_, data_, slot_, heap, offset_, size_, start_serial_,
                     LogSerial, index, inMemory, globalTrie, buffer, handler,
                     write_position_, read_position_, disk, releaseWheel, autosaveWheel,
                     ppc, query, todo, result, wb, wleft, asked, stored>>
  BY DEF PersistenceCheck, Persisted, bulkVars, indexVars, ringVars, wheelVars, queryVars,
         wVars, outVars
<1>2. (DataTypes /\ Numbers /\ Placed /\ Contents /\ Indexes /\ Covered /\ Reading)'
  <2>1. wb' \in Bulks \cup {NoBulk}
    BY <1>1 DEF DataTypes
  <2> QED
    BY <1>1, <2>1, QuietWorks DEF Kinds, Tries
<1>3. wleft > 0 => state_[wb] # "Appending"
  BY <1>1, PassSpares DEF EInv, PassSparesOpenBulks
<1>4. Guarded'
  BY <1>1, <1>3 DEF Guarded
<1>5. Ticks'
  BY <1>1 DEF Ticks, SavePlaces, Kinds, Tries
<1> QED
  BY <1>2, <1>4, <1>5

LEMMA PopReleaseRecovers == RInv /\ PopRelease => Recovery'
<1> SUFFICES ASSUME RInv, PopRelease PROVE Recovery'
  OBVIOUS
<1> USE DEF RInv, Recovery
<1>1. /\ wpc = "evict" /\ wpc' = "release"
      /\ \E u \in releaseWheel : releaseWheel' = releaseWheel \ {u} /\ wb' = u.bulk
      /\ UNCHANGED <<bulks, state_, data_, slot_, heap, offset_, size_, start_serial_,
                     LogSerial, index, inMemory, globalTrie, buffer, handler,
                     write_position_, read_position_, disk, autosaveWheel, ppc, query,
                     todo, result, wleft, asked, stored>>
  BY DEF PopRelease, Due, bulkVars, indexVars, ringVars, wheelVars, queryVars,
         wVars, outVars
<1>2. (DataTypes /\ Numbers /\ Placed /\ Contents /\ Indexes /\ Covered /\ Reading)'
  <2>1. wb' \in Bulks \cup {NoBulk}
    BY <1>1 DEF Ticks, Unit
  <2> QED
    BY <1>1, <2>1, QuietWorks DEF Kinds, Tries
<1>3. (Guarded /\ Ticks)'
  BY <1>1 DEF Guarded, Ticks, SavePlaces, Kinds, Tries
<1> QED
  BY <1>2, <1>3

LEMMA PopAutosaveRecovers == RInv /\ PopAutosave => Recovery'
<1> SUFFICES ASSUME RInv, PopAutosave PROVE Recovery'
  OBVIOUS
<1> USE DEF RInv, Recovery
<1>1. /\ wpc = "autosave" /\ wpc' = "check"
      /\ \E u \in autosaveWheel : autosaveWheel' = autosaveWheel \ {u} /\ wb' = u.bulk
      /\ UNCHANGED <<bulks, state_, data_, slot_, heap, offset_, size_, start_serial_,
                     LogSerial, index, inMemory, globalTrie, buffer, handler,
                     write_position_, read_position_, disk, releaseWheel, ppc, query, todo,
                     result, wleft, asked, stored>>
  BY DEF PopAutosave, Due, bulkVars, indexVars, ringVars, wheelVars, queryVars,
         wVars, outVars
<1>2. (DataTypes /\ Numbers /\ Placed /\ Contents /\ Indexes /\ Covered /\ Reading)'
  <2>1. wb' \in Bulks \cup {NoBulk}
    BY <1>1 DEF Ticks, Unit
  <2> QED
    BY <1>1, <2>1, QuietWorks DEF Kinds, Tries
<1>3. wleft = 0
  BY <1>1, Bounds DEF EInv, IInv, PassBound, RingTypes, SavePlaces, Kinds, Tries
<1>4. (Guarded /\ Ticks)'
  BY <1>1, <1>3 DEF Guarded, Ticks, SavePlaces, Kinds, Tries
<1> QED
  BY <1>2, <1>4

LEMMA SleepRecovers == RInv /\ Sleep => Recovery'
<1> SUFFICES ASSUME RInv, Sleep PROVE Recovery'
  OBVIOUS
<1> USE DEF RInv, Recovery
<1>1. /\ wpc = "autosave" /\ wpc' = "queue" /\ Due(autosaveWheel) = {}
      /\ UNCHANGED <<bulks, state_, data_, slot_, heap, offset_, size_, start_serial_,
                     LogSerial, index, inMemory, globalTrie, buffer, handler,
                     write_position_, read_position_, disk, releaseWheel, autosaveWheel,
                     ppc, query, todo, result, wb, wleft, asked, stored>>
  BY DEF Sleep, bulkVars, indexVars, ringVars, wheelVars, queryVars,
         wVars, outVars
<1>2. (DataTypes /\ Numbers /\ Placed /\ Contents /\ Indexes /\ Covered /\ Reading)'
  <2>1. wb' \in Bulks \cup {NoBulk}
    BY <1>1 DEF DataTypes
  <2> QED
    BY <1>1, <2>1, QuietWorks DEF Kinds, Tries
<1>3. \A u \in autosaveWheel : u.left > 0
  BY <1>1, Bounds DEF Ticks, Unit, Due
<1>4. (Guarded /\ Ticks)'
  BY <1>1, <1>3 DEF Guarded, Ticks, SavePlaces, Kinds, Tries
<1> QED
  BY <1>2, <1>4

LEMMA TickedLeft ==
  ASSUME NEW ticks \in Nat, NEW wheel, wheel \subseteq Unit(ticks), \A u \in wheel : u.left > 0
  PROVE  Ticked(wheel) \subseteq Unit(ticks)
<1>1. \A u \in wheel : [u EXCEPT !.left = @ - 1] \in Unit(ticks)
  BY DEF Unit
<1> QED
  BY <1>1 DEF Ticked

LEMMA ForgottenLeft ==
  ASSUME NEW ticks \in Nat, NEW wheel, wheel \subseteq Unit(ticks), NEW b
  PROVE  /\ Forgotten(wheel, b) \subseteq Unit(ticks)
         /\ \A u \in Forgotten(wheel, b) : \E v \in wheel : u.bulk = v.bulk /\ u.left = v.left
<1>1. \A v \in wheel : LET u == [v EXCEPT !.known = @ /\ v.bulk # b]
                       IN  u \in Unit(ticks) /\ u.bulk = v.bulk /\ u.left = v.left
  BY DEF Unit
<1> QED
  BY <1>1 DEF Forgotten

LEMMA TickReleaseRecovers == RInv /\ TickRelease => Recovery'
<1> SUFFICES ASSUME RInv, TickRelease PROVE Recovery'
  OBVIOUS
<1> USE DEF RInv, Recovery
<1>1. /\ wpc = "tick" /\ wpc' = "evict" /\ wb' = NoBulk
      /\ releaseWheel' = Ticked(releaseWheel)
      /\ UNCHANGED <<bulks, state_, data_, slot_, heap, offset_, size_, start_serial_,
                     LogSerial, index, inMemory, globalTrie, buffer, handler,
                     write_position_, read_position_, disk, autosaveWheel, ppc, query,
                     todo, result, wleft, asked, stored>>
  BY DEF TickRelease, bulkVars, indexVars, ringVars, wheelVars, queryVars,
         wVars, outVars
<1>2. (DataTypes /\ Numbers /\ Placed /\ Contents /\ Indexes /\ Covered /\ Reading)'
  BY <1>1, QuietWorks DEF Kinds, Tries
<1>3. releaseWheel' \subseteq Unit(ReleaseTicks)
  BY <1>1, TickedLeft, Bounds DEF Ticks
<1>4. (Guarded /\ Ticks)'
  BY <1>1, <1>3 DEF Guarded, Ticks, SavePlaces, Kinds, Tries
<1> QED
  BY <1>2, <1>4

LEMMA ForgetReleaseRecovers == RInv /\ ForgetRelease => Recovery'
<1> SUFFICES ASSUME RInv, ForgetRelease PROVE Recovery'
  OBVIOUS
<1> USE DEF RInv, Recovery
<1>1. /\ wpc = "released" /\ wpc' = "evict" /\ wb' = NoBulk
      /\ releaseWheel' = Forgotten(releaseWheel, wb)
      /\ UNCHANGED <<bulks, state_, data_, slot_, heap, offset_, size_, start_serial_,
                     LogSerial, index, inMemory, globalTrie, buffer, handler,
                     write_position_, read_position_, disk, autosaveWheel, ppc, query,
                     todo, result, wleft, asked, stored>>
  BY DEF ForgetRelease, bulkVars, indexVars, ringVars, wheelVars, queryVars,
         wVars, outVars
<1>2. (DataTypes /\ Numbers /\ Placed /\ Contents /\ Indexes /\ Covered /\ Reading)'
  BY <1>1, QuietWorks DEF Kinds, Tries
<1>3. releaseWheel' \subseteq Unit(ReleaseTicks)
  BY <1>1, ForgottenLeft, Bounds DEF Ticks
<1>4. (Guarded /\ Ticks)'
  BY <1>1, <1>3 DEF Guarded, Ticks, SavePlaces, Kinds, Tries
<1> QED
  BY <1>2, <1>4

LEMMA TickAutosaveRecovers == RInv /\ TickAutosave => Recovery'
<1> SUFFICES ASSUME RInv, TickAutosave PROVE Recovery'
  OBVIOUS
<1> USE DEF RInv, Recovery
<1>1. /\ wpc = "evict" /\ wpc' = "autosave" /\ Due(releaseWheel) = {}
      /\ autosaveWheel' = Ticked(autosaveWheel)
      /\ UNCHANGED <<bulks, state_, data_, slot_, heap, offset_, size_, start_serial_,
                     LogSerial, index, inMemory, globalTrie, buffer, handler,
                     write_position_, read_position_, disk, releaseWheel, ppc, query, todo,
                     result, wb, wleft, asked, stored>>
  BY DEF TickAutosave, bulkVars, indexVars, ringVars, wheelVars, queryVars,
         wVars, outVars
<1>2. (DataTypes /\ Numbers /\ Placed /\ Contents /\ Indexes /\ Covered /\ Reading)'
  <2>1. wb' \in Bulks \cup {NoBulk}
    BY <1>1 DEF DataTypes
  <2> QED
    BY <1>1, <2>1, QuietWorks DEF Kinds, Tries
<1>3. \A u \in releaseWheel : u.left > 0
  BY <1>1, Bounds DEF Ticks, Unit, Due
<1>4. autosaveWheel' \subseteq Unit(AutosaveTicks)
  BY <1>1, TickedLeft, Bounds DEF Ticks, SavePlaces, Kinds, Tries
<1>5. Ticks'
  BY <1>1, <1>3, <1>4 DEF Ticks
<1>6. \A u \in autosaveWheel' : \E v \in autosaveWheel : u.bulk = v.bulk
  BY <1>1, TickedUnits DEF EInv, IInv, Wheels
<1>7. Guarded'
  BY <1>1, <1>6 DEF Guarded
<1> QED
  BY <1>2, <1>5, <1>7

LEMMA ForgetAutosaveRecovers == RInv /\ ForgetAutosave => Recovery'
<1> SUFFICES ASSUME RInv, ForgetAutosave PROVE Recovery'
  OBVIOUS
<1> USE DEF RInv, Recovery
<1>1. /\ wpc = "autosaved" /\ wpc' = "autosave" /\ wb' = NoBulk
      /\ autosaveWheel' = Forgotten(autosaveWheel, wb)
      /\ UNCHANGED <<bulks, state_, data_, slot_, heap, offset_, size_, start_serial_,
                     LogSerial, index, inMemory, globalTrie, buffer, handler,
                     write_position_, read_position_, disk, releaseWheel, ppc, query, todo,
                     result, wleft, asked, stored>>
  BY DEF ForgetAutosave, bulkVars, indexVars, ringVars, wheelVars, queryVars,
         wVars, outVars
<1>2. (DataTypes /\ Numbers /\ Placed /\ Contents /\ Indexes /\ Covered /\ Reading)'
  BY <1>1, QuietWorks DEF Kinds, Tries
<1>3. /\ autosaveWheel' \subseteq Unit(AutosaveTicks)
      /\ \A u \in autosaveWheel' : \E v \in autosaveWheel : u.bulk = v.bulk
  BY <1>1, ForgottenLeft, Bounds DEF Ticks
<1>4. (Guarded /\ Ticks)'
  BY <1>1, <1>3 DEF Guarded, Ticks
<1> QED
  BY <1>2, <1>4

LEMMA AppendFullRecovers == RInv /\ AppendFull => Recovery'
<1> SUFFICES ASSUME RInv, AppendFull PROVE Recovery'
  OBVIOUS
<1> USE DEF RInv, Recovery
<1>1. /\ ppc = "append" /\ ppc' = "new" /\ offset_[bulks] >= BulkSize
      /\ state_' = [state_ EXCEPT ![bulks] = "InQueue"]
      /\ UNCHANGED <<bulks, data_, slot_, heap, offset_, size_, start_serial_, LogSerial,
                     index, inMemory, globalTrie, buffer, handler, write_position_,
                     read_position_, disk, releaseWheel, autosaveWheel, query, todo,
                     result, wpc, wb, wleft, asked, stored>>
  BY DEF AppendFull, bulkVars, indexVars, ringVars, wheelVars, queryVars,
         wVars, outVars
<1>2. /\ state_[bulks] = "Appending" /\ state_'[bulks] = "InQueue"
      /\ \A b \in Bulks : b # bulks => state_'[b] = state_[b]
  BY <1>1, Newest DEF Guarded, Appending, EInv, IInv, RingTypes
<1>3. size_[bulks] > 0
  BY <1>1, Newest, Bounds DEF Numbers, Written, Kinds, Tries
<1>4. data_[bulks] = "slot"
  BY <1>2, Newest DEF EInv, IInv, OpenBulk
<1>5. (DataTypes /\ Covered /\ Reading /\ Ticks)'
  BY <1>1 DEF DataTypes, Covered, Reading, Ticks
<1>6. Numbers'
  BY <1>1, <1>2, <1>3, Newest DEF Numbers, Written, Kinds, Tries
<1>7. Guarded'
  BY <1>1, <1>2, <1>3 DEF Guarded, Appending, Saveable, DataTypes, Kinds, Tries
<1>8. Placed'
  BY <1>1, <1>2, <1>4 DEF Placed
<1>9. Contents'
  BY <1>1, <1>2 DEF Contents
<1>10. Indexes'
  BY <1>1, <1>2, AheadPlaces DEF Indexes, Indexed, WWrites
<1> QED
  BY <1>5, <1>6, <1>7, <1>8, <1>9, <1>10

(* No two bulks use one slot. *)
LEMMA SlotsDiffer ==
  ASSUME RInv, NEW b \in Bulks, NEW c \in Bulks, data_[b] = "slot", data_[c] = "slot", b # c
  PROVE  slot_[b] # slot_[c]
  BY DEF RInv, EInv, IInv, SlotOwned

LEMMA AppendFitsRecovers == RInv /\ AppendFits => Recovery'
<1> SUFFICES ASSUME RInv, AppendFits PROVE Recovery'
  OBVIOUS
<1> USE DEF RInv, Recovery
<1>1. /\ ppc = "append" /\ ppc' = "index" /\ offset_[bulks] < BulkSize
      /\ buffer' = [buffer EXCEPT ![slot_[bulks]] = Append(@, stored + 1)]
      /\ offset_' = [offset_ EXCEPT ![bulks] = @ + 1]
      /\ autosaveWheel' = SetAutosave(bulks, state_[bulks])
      /\ UNCHANGED <<bulks, state_, data_, slot_, heap, size_, start_serial_, LogSerial,
                     index, inMemory, globalTrie, handler, write_position_, read_position_,
                     disk, releaseWheel, query, todo, result, wpc, wb, wleft, asked,
                     stored>>
  BY DEF AppendFits, NewLog, bulkVars, indexVars, ringVars, wheelVars, queryVars,
         wVars, outVars
<1>2. /\ state_[bulks] = "Appending" /\ data_[bulks] = "slot" /\ slot_[bulks] \in Slots
  BY <1>1, Newest DEF Guarded, Appending, EInv, IInv, RingTypes, OpenBulk
<1>3. stored < MaxLogs /\ stored + 1 \in Logs
  BY <1>1, Newest, Bounds DEF EInv, IInv, BulkCount, Appending, Logs
<1>4. /\ offset_'[bulks] = offset_[bulks] + 1
      /\ \A b \in Bulks : b # bulks => offset_'[b] = offset_[b]
  BY <1>1, Newest DEF DataTypes
<1>5. /\ offset_[bulks] = size_[bulks]
      /\ stored + 1 = start_serial_[bulks] + offset_[bulks] + 1
  BY <1>1, Newest DEF Numbers, Written, Kinds, Tries
<1>6. DataTypes'
  <2>1. buffer' \in [Slots -> Seq(Logs)]
    <3>1. Append(buffer[slot_[bulks]], stored + 1) \in Seq(Logs)
      BY <1>2, <1>3, AppendProperties DEF DataTypes
    <3> QED
      BY <1>1, <1>2, <3>1 DEF DataTypes
  <2>2. offset_' \in [Bulks -> 0 .. BulkSize]
    <3>1. offset_[bulks] + 1 \in 0 .. BulkSize
      BY <1>1, Newest, Bounds
    <3> QED
      BY <1>1, <3>1 DEF DataTypes
  <2> QED
    BY <1>1, <2>1, <2>2 DEF DataTypes
<1>7. Numbers'
  BY <1>1, <1>4, <1>5, Newest DEF Numbers, Written, Kinds, Tries
(* The autosave timer of the bulk is set anew. *)
<1>8. /\ autosaveWheel' \subseteq Unit(AutosaveTicks)
      /\ \A u \in autosaveWheel' : u.bulk \in Bulks /\ (u \in autosaveWheel \/ u.bulk = bulks)
      /\ \A u \in autosaveWheel' : u \in autosaveWheel \/ u.left > 0
  <2> DEFINE new == [bulk |-> bulks, left |-> AutosaveTicks, known |-> TRUE]
  <2>1. new \in Unit(AutosaveTicks) /\ new.bulk = bulks /\ new.left > 0
    BY Newest, StoreAssumption DEF Unit
  <2>2. \A u \in autosaveWheel' : u \in autosaveWheel \/ u = new
    BY <1>1 DEF SetAutosave, ResetTimer
  <2>3. autosaveWheel' \subseteq Unit(AutosaveTicks)
    BY <2>1, <2>2 DEF Ticks
  <2> QED
    BY <2>1, <2>2, <2>3 DEF Unit
<1>9. Guarded'
  <2>1. \A b \in Bulks : offset_[b] > 0 => offset_'[b] > 0
    BY <1>4, Newest
  <2>2. \A u \in autosaveWheel' : offset_'[u.bulk] > 0
    BY <1>4, <1>8, <2>1, Newest DEF Guarded
  <2>3. wleft = 0 /\ wpc \in {"check", "lock"} => wb \in Bulks
    BY Bounds DEF EInv, IInv, PassBound, SavePlaces, RingTypes, Bulks
  <2>4. wleft = 0 /\ wpc \in {"check", "lock"} => offset_'[wb] > 0
    BY <2>1, <2>3 DEF Guarded
  <2> QED
    BY <1>1, <2>2, <2>4 DEF Guarded, Appending, Kinds, Tries
<1>10. Ticks'
  BY <1>1, <1>8 DEF Ticks
<1>11. Contents'
  <2> SUFFICES ASSUME NEW b \in Bulks
      PROVE  /\ data_[b] = "slot" => buffer'[slot_[b]] = Numbered(start_serial_[b], offset_'[b])
             /\ data_[b] = "heap" => heap[b] = Numbered(start_serial_[b], offset_'[b])
             /\ state_[b] \in {"Saved", "InMemory"} =>
                  disk[start_serial_[b]]["content"] = Numbered(start_serial_[b], offset_'[b])
    BY <1>1 DEF Contents
  <2>1. CASE b = bulks
    <3>1. buffer'[slot_[b]] = Append(Numbered(start_serial_[b], offset_[b]), stored + 1)
      BY <1>1, <1>2, <2>1 DEF Contents, DataTypes
    <3>2. Append(Numbered(start_serial_[b], offset_[b]), start_serial_[b] + offset_[b] + 1)
            = Numbered(start_serial_[b], offset_[b] + 1)
      BY NumberedProperties, Newest
    <3> QED
      BY <1>2, <1>4, <1>5, <2>1, <3>1, <3>2
  <2>2. CASE b # bulks
    <3>1. data_[b] = "slot" => slot_[b] # slot_[bulks] /\ slot_[b] \in Slots
      BY <1>2, <2>2, SlotsDiffer, Newest DEF EInv, IInv, RingTypes
    <3> QED
      BY <1>1, <1>4, <2>2, <3>1 DEF Contents, DataTypes
  <2> QED
    BY <2>1, <2>2
<1>12. Indexes'
  BY <1>1, AheadPlaces DEF Indexes, Indexed, WWrites
<1>13. (Placed /\ Covered /\ Reading)'
  BY <1>1 DEF Placed, Covered, Reading
<1> QED
  BY <1>6, <1>7, <1>9, <1>10, <1>11, <1>12, <1>13

LEMMA GetUnitRecovers == RInv /\ GetUnit => Recovery'
<1> SUFFICES ASSUME RInv, GetUnit PROVE Recovery'
  OBVIOUS
<1> USE DEF RInv, Recovery
<1> DEFINE new == bulks + 1
<1>1. /\ ppc = "new" /\ ppc' = "bind"
      /\ LogSerial' = LogSerial + size_[bulks]
      /\ start_serial_' = [start_serial_ EXCEPT ![new] = LogSerial']
      /\ slot_' = [slot_ EXCEPT ![new] = write_position_]
      /\ buffer' = [buffer EXCEPT ![write_position_] = <<>>]
      /\ UNCHANGED <<bulks, state_, data_, heap, offset_, size_, index, inMemory,
                     globalTrie, read_position_, disk, releaseWheel, autosaveWheel, query,
                     todo, result, wpc, wb, wleft, asked, stored>>
  BY DEF GetUnit, NextSerial, bulkVars, indexVars, ringVars, wheelVars, queryVars,
         wVars, outVars
<1>2. new \in Bulks /\ new # bulks /\ new > bulks /\ data_[new] = "null" /\ offset_[new] = 0
  BY <1>1, RoomForBulk, Newest DEF EInv, IInv
<1>3. LogSerial' = stored /\ stored \in Names
  BY <1>1, Newest, Bounds DEF Numbers, Names, EInv, IInv, RingTypes
<1>4. /\ start_serial_'[new] = stored
      /\ slot_'[new] = write_position_ /\ write_position_ \in Slots
      /\ buffer'[write_position_] = <<>>
      /\ \A s \in Slots : s # write_position_ => buffer'[s] = buffer[s]
      /\ \A b \in Bulks : b # new => start_serial_'[b] = start_serial_[b] /\ slot_'[b] = slot_[b]
  BY <1>1, <1>2, <1>3 DEF DataTypes, EInv, IInv, RingTypes
<1>5. /\ size_[new] = 0 /\ state_[new] = "Init"
  BY <1>2, Newest DEF Numbers
<1>6. \A b \in 1 .. bulks : b \in Bulks /\ b # new
  BY Newest, Bounds DEF Bulks
<1>7. DataTypes'
  <2>1. <<>> \in Seq(Logs)
    OBVIOUS
  <2> QED
    BY <1>1, <1>3, <2>1 DEF DataTypes
<1>8. Numbers'
  <2>1. \A b, c \in 1 .. bulks : b < c => start_serial_'[b] + size_[b] <= start_serial_'[c]
    BY <1>4, <1>6 DEF Numbers
  <2> QED
    BY <1>1, <1>2, <1>3, <1>4, <2>1, Newest DEF Numbers, Written, Kinds, Tries
<1>9. Covered'
  <2>1. /\ bulks \in 1 .. bulks /\ bulks' = bulks /\ size_' = size_
        /\ \A b \in 1 .. bulks : start_serial_'[b] = start_serial_[b]
    BY <1>1, <1>4, <1>6, Newest
  <2> QED
    BY <2>1 DEF Covered
<1>10. Contents'
  <2>1. \A b \in Bulks : data_[b] = "slot" =>
            slot_[b] \in Slots /\ slot_[b] # write_position_ /\ b # new
    <3>1. ~ Live(write_position_)
      BY Bounds DEF Live, EInv, IInv, RingTypes, Slots
    <3> QED
      BY <1>2, <3>1 DEF EInv, IInv, SlotOwned, RingTypes
  <2> QED
    BY <1>1, <1>2, <1>4, <1>5, <2>1 DEF Contents
<1>11. Indexes'
  <2> SUFFICES ASSUME NEW kind \in Kinds
               PROVE  /\ index[new][kind] = Entries(kind, stored, 0)
                      /\ kind \in inMemory[new]
    BY <1>1, <1>2, <1>4, <1>5, AheadPlaces DEF Indexes, Indexed, WWrites
  <2>1. kind \in inMemory[new]
    BY <1>2, <1>5 DEF Indexes
  <2>2. index[new][kind] = Entries(kind, start_serial_[new], 0)
    BY <1>2, <1>5, <2>1, AheadPlaces DEF Indexes, Indexed
  <2> QED
    BY <1>2, <2>1, <2>2, Newest, EntriesProperties
<1>12. Guarded'
  BY <1>1 DEF Guarded, Appending, Kinds, Tries
<1>13. (Placed /\ Reading /\ Ticks)'
  BY <1>1 DEF Placed, Reading, Ticks
<1> QED
  BY <1>7, <1>8, <1>9, <1>10, <1>11, <1>12, <1>13

LEMMA BindUnitRecovers == RInv /\ BindUnit => Recovery'
<1> SUFFICES ASSUME RInv, BindUnit PROVE Recovery'
  OBVIOUS
<1> USE DEF RInv, Recovery
<1> DEFINE new == bulks + 1
<1>1. /\ ppc = "bind" /\ ppc' = "append" /\ bulks' = new
      /\ data_' = [data_ EXCEPT ![new] = "slot"]
      /\ state_' = [state_ EXCEPT ![new] = "Appending"]
      /\ UNCHANGED <<slot_, heap, offset_, size_, start_serial_, LogSerial, index,
                     inMemory, globalTrie, buffer, write_position_, read_position_, disk,
                     releaseWheel, autosaveWheel, query, todo, result, wpc, wb, wleft,
                     asked, stored>>
  BY DEF BindUnit, bulkVars, indexVars, ringVars, wheelVars, queryVars,
         wVars, outVars
<1>2. new \in Bulks /\ new # bulks /\ new > bulks /\ data_[new] = "null" /\ offset_[new] = 0
  BY <1>1, RoomForBulk, Newest DEF EInv, IInv
<1>3. /\ data_'[new] = "slot" /\ state_'[new] = "Appending"
      /\ \A b \in Bulks : b # new => data_'[b] = data_[b] /\ state_'[b] = state_[b]
  BY <1>1, <1>2 DEF EInv, IInv, RingTypes
<1>4. /\ size_[new] = 0 /\ state_[new] = "Init" /\ start_serial_[new] = stored
      /\ LogSerial = stored
  BY <1>1, <1>2, Newest DEF Numbers
<1>5. /\ \A b \in 1 .. new : b \in Bulks /\ (b = new \/ b \in 1 .. bulks)
      /\ 1 .. bulks \subseteq 1 .. new
  BY <1>2, Newest, Bounds DEF Bulks
<1>6. start_serial_[bulks] + size_[bulks] = stored
  BY <1>1, Newest DEF Numbers
<1>7. Numbers'
  <2>1. \A b, c \in 1 .. new : b < c => start_serial_[b] + size_[b] <= start_serial_[c]
    <3> SUFFICES ASSUME NEW b \in 1 .. new, NEW c \in 1 .. new, b < c
                 PROVE  start_serial_[b] + size_[b] <= start_serial_[c]
      OBVIOUS
    <3>1. b \in 1 .. bulks
      <4>1. bulks \in Nat /\ b \in Int /\ c \in Int /\ 1 <= b /\ c <= bulks + 1
        BY Newest
      <4> QED
        BY <4>1
    <3>2. CASE c = new
      <4>1. start_serial_[c] = stored
        BY <1>4, <3>2
      <4>2. start_serial_[b] + size_[b] <= stored + (IF ppc = "global" THEN 1 ELSE 0)
        BY <3>1, InFile
      <4> QED
        BY <1>1, <4>1, <4>2, Newest
    <3>3. CASE c # new
      <4>1. c \in 1 .. bulks
        BY <3>3, Newest
      <4> QED
        BY <3>1, <4>1 DEF Numbers
    <3> QED
      BY <3>2, <3>3
  <2>2. \A b \in Bulks : b > new => b > bulks /\ b # new
    BY <1>2, Newest
  <2>3. \A b \in Bulks : state_'[b] = "Init" <=> b > new
    BY <1>2, <1>3, <2>2, Newest DEF Numbers
  <2> QED
    BY <1>1, <1>2, <1>3, <1>4, <2>1, <2>2, <2>3, Newest DEF Numbers, Written, Kinds, Tries
<1>8. Covered'
  <2>1. start_serial_[new] + size_[new] = start_serial_[bulks] + size_[bulks]
    BY <1>4, <1>6, Newest
  <2> QED
    BY <1>1, <1>5, <2>1 DEF Covered
<1>9. Contents'
  <2>1. Numbered(start_serial_[new], 0) = <<>>
    BY <1>4, Newest, NumberedProperties
  <2> QED
    BY <1>1, <1>2, <1>3, <2>1 DEF Contents
<1>10. Indexes'
  BY <1>1, <1>2, <1>3, <1>4, AheadPlaces DEF Indexes, Indexed, WWrites
<1>11. Guarded'
  <2>1. wpc = "lock" => wb \in 1 .. bulks /\ wb \in Bulks /\ wb # new
    BY <1>5, Newest DEF EInv, IInv, PassBound, SavePlaces
  <2> QED
    BY <1>1, <1>3, <2>1 DEF Guarded
<1>12. Placed'
  BY <1>1, <1>3 DEF Placed
<1>13. (DataTypes /\ Reading /\ Ticks)'
  BY <1>1 DEF DataTypes, Reading, Ticks
<1> QED
  BY <1>7, <1>8, <1>9, <1>10, <1>11, <1>12, <1>13

LEMMA BuildIndexRecovers == RInv /\ BuildIndex => Recovery'
<1> SUFFICES ASSUME RInv, BuildIndex PROVE Recovery'
  OBVIOUS
<1> USE DEF RInv, Recovery
<1> DEFINE entry == IF ppc = "offset" THEN offset_[bulks] - 1 ELSE stored + 1
<1>1. /\ ppc \in Kinds /\ ppc' = AfterBuild[ppc]
      /\ index' = IF ppc \in Tries \ inMemory[bulks]
                    THEN index
                    ELSE [index EXCEPT ![bulks][ppc] = Append(@, entry)]
      /\ size_' = IF ppc = "timestamp" THEN [size_ EXCEPT ![bulks] = @ + 1] ELSE size_
      /\ UNCHANGED <<bulks, state_, data_, slot_, heap, offset_, start_serial_, LogSerial,
                     inMemory, globalTrie, buffer, handler, write_position_,
                     read_position_, disk, releaseWheel, autosaveWheel, query, todo,
                     result, wpc, wb, wleft, asked, stored>>
  BY DEF BuildIndex, NewLog, bulkVars, indexVars, ringVars, wheelVars, queryVars,
         wVars, outVars
<1>2. /\ ppc' \in {"word", "offset", "timestamp", "global"}
      /\ ppc \in Appending /\ (ppc' \in {"index"} \cup Kinds <=> ppc # "timestamp")
      /\ ppc' = "global" <=> ppc = "timestamp"
      /\ ppc \notin {"bind", "global"}
  BY <1>1, AfterBuildKinds DEF AfterBuild, Appending, Kinds, Tries
<1>3. /\ state_[bulks] = "Appending" /\ \A kind \in Kinds : kind \in inMemory[bulks]
  BY <1>2, Newest DEF Guarded, Indexes
<1>4. index' = [index EXCEPT ![bulks][ppc] = Append(@, entry)]
  BY <1>1, <1>3
<1>5. /\ \A b \in Bulks : b # bulks => index'[b] = index[b] /\ size_'[b] = size_[b]
      /\ \A kind \in Kinds : index'[bulks][kind] =
            IF kind = ppc THEN Append(index[bulks][kind], entry) ELSE index[bulks][kind]
      /\ size_'[bulks] = IF ppc = "timestamp" THEN size_[bulks] + 1 ELSE size_[bulks]
  <2>1. index' = [index EXCEPT ![bulks] = [index[bulks] EXCEPT ![ppc] = Append(@, entry)]]
    BY <1>4
  <2>2. index \in [Bulks -> [Kinds -> Seq(Nat)]] /\ size_ \in [Bulks -> 0 .. BulkSize]
    BY DEF DataTypes
  <2>3. index[bulks] \in [Kinds -> Seq(Nat)]
    BY <2>2, Newest
  <2>4. index'[bulks] = [index[bulks] EXCEPT ![ppc] = Append(@, entry)]
    BY <2>1, <2>2, Newest
  <2> HIDE DEF entry
  <2>5. \A kind \in Kinds : index'[bulks][kind] =
            IF kind = ppc THEN Append(index[bulks][kind], entry) ELSE index[bulks][kind]
    BY <1>1, <2>3, <2>4
  <2>6. \A b \in Bulks : b # bulks => index'[b] = index[b] /\ size_'[b] = size_[b]
    BY <1>1, <2>1, <2>2
  <2>7. size_'[bulks] = IF ppc = "timestamp" THEN size_[bulks] + 1 ELSE size_[bulks]
    BY <1>1, <2>2, Newest
  <2> QED
    BY <2>5, <2>6, <2>7
<1>6. /\ offset_[bulks] = size_[bulks] + 1
      /\ stored + 1 = start_serial_[bulks] + size_[bulks] + 1
      /\ ppc = "offset" => entry = size_[bulks]
      /\ ppc # "offset" => entry = start_serial_[bulks] + size_[bulks] + 1
  BY <1>1, <1>2, Newest DEF Numbers, Written
<1> HIDE DEF entry
<1>7. DataTypes'
  <2>1. entry \in Nat
    BY <1>6, Newest
  <2>2. Append(index[bulks][ppc], entry) \in Seq(Nat)
    <3>1. index \in [Bulks -> [Kinds -> Seq(Nat)]]
      BY DEF DataTypes
    <3>2. index[bulks] \in [Kinds -> Seq(Nat)]
      BY <3>1, Newest
    <3>3. index[bulks][ppc] \in Seq(Nat)
      BY <1>1, <3>2
    <3> QED
      BY <2>1, <3>3, AppendProperties
  <2>3. index' \in [Bulks -> [Kinds -> Seq(Nat)]]
    BY <1>4, <2>2, Newest DEF DataTypes
  <2>4. size_' \in [Bulks -> 0 .. BulkSize]
    BY <1>1, <1>6, Newest, Bounds DEF DataTypes
  <2> QED
    BY <1>1, <1>2, <2>3, <2>4 DEF DataTypes
<1>8. Numbers'
  <2>1. \A b, c \in 1 .. bulks : b < c => start_serial_[b] + size_'[b] <= start_serial_[c]
    <3> SUFFICES ASSUME NEW b \in 1 .. bulks, NEW c \in 1 .. bulks, b < c
                 PROVE  start_serial_[b] + size_'[b] <= start_serial_[c]
      OBVIOUS
    <3>1. b # bulks /\ b \in Bulks
      BY InFile, Newest
    <3> QED
      BY <1>5, <3>1 DEF Numbers
  <2>2. \A b \in Bulks : offset_[b] = size_'[b] + (IF b = bulks /\ ppc # "timestamp" THEN 1 ELSE 0)
    BY <1>1, <1>5, <1>6, Newest DEF Numbers, Written
  <2>3. \A b \in Bulks : state_[b] \in {"InQueue", "InMemory", "Saved"} => size_'[b] > 0
    BY <1>3, <1>5 DEF Numbers
  <2>4. \A b \in Bulks : b > bulks => size_'[b] = 0
    BY <1>5, Newest DEF Numbers
  <2>5. LogSerial = start_serial_[bulks]
    BY <1>2 DEF Numbers
  <2>6. start_serial_[bulks] + size_'[bulks] = stored + (IF ppc' = "global" THEN 1 ELSE 0)
    BY <1>2, <1>5, <1>6, Newest
  <2>7. \A b \in Bulks : state_[b] = "Init" <=> b > bulks
    BY DEF Numbers
  <2> QED
    BY <1>1, <1>2, <2>1, <2>2, <2>3, <2>4, <2>5, <2>6, <2>7 DEF Numbers, Written
<1>9. Guarded'
  BY <1>1, <1>2 DEF Guarded, Appending
<1>10. Indexes'
  <2> SUFFICES ASSUME NEW b \in Bulks, NEW kind \in Kinds
      PROVE  /\ kind \in inMemory[b] =>
                   index'[b][kind] = Entries(kind, start_serial_[b], Indexed(b, kind)')
             /\ kind \notin inMemory[b] => state_[b] \in {"Saved", "InMemory"}
             /\ state_[b] \in {"Saved", "InMemory"}
                  => \/ disk[start_serial_[b]][kind] = Entries(kind, start_serial_[b], size_'[b])
                     \/ WWrites(b)' /\ kind \in Unsaved[wpc] \cap inMemory[b]
    BY <1>1 DEF Indexes
  <2>1. CASE b # bulks
    BY <1>1, <1>5, <2>1 DEF Indexes, Indexed, WWrites
  <2>2. CASE b = bulks
    <3>1. Indexed(b, kind)' = IF kind = ppc THEN Indexed(b, kind) + 1 ELSE Indexed(b, kind)
      BY <1>1, <1>5, <2>2, AheadPlaces, Newest DEF Indexed, AfterBuild, Kinds, Tries
    <3>2. index[b][kind] = Entries(kind, start_serial_[b], Indexed(b, kind))
      BY <1>3, <2>2 DEF Indexes
    <3>3. kind = ppc => Indexed(b, kind) = size_[b]
      BY <2>2, AheadPlaces, Newest DEF Indexed
    <3>4. kind = ppc => Append(index[b][kind], entry) = Entries(kind, start_serial_[b], size_[b] + 1)
      <4>1. kind = ppc => entry = IF kind = "offset" THEN size_[b] ELSE start_serial_[b] + size_[b] + 1
        BY <1>6, <2>2
      <4>2. Append(Entries(kind, start_serial_[b], size_[b]),
                   IF kind = "offset" THEN size_[b] ELSE start_serial_[b] + size_[b] + 1)
              = Entries(kind, start_serial_[b], size_[b] + 1)
        <5> DEFINE s == start_serial_[b]
                   n == size_[b]
        <5>1. s \in Nat /\ n \in Nat
          BY Newest
        <5> HIDE DEF s, n
        <5>2. Append(Entries(kind, s, n), IF kind = "offset" THEN n ELSE s + n + 1)
                = Entries(kind, s, n + 1)
          BY ONLY <5>1, EntriesProperties
        <5> QED
          BY ONLY <5>2 DEF s, n
      <4> QED
        BY <3>2, <3>3, <4>1, <4>2
    <3> QED
      BY <1>3, <1>5, <2>2, <3>1, <3>2, <3>3, <3>4
  <2> QED
    BY <2>1, <2>2
<1>11. Covered'
  <2> SUFFICES ASSUME NEW n \in 1 .. start_serial_[bulks] + size_'[bulks]
               PROVE  \E b \in 1 .. bulks :
                         start_serial_[b] < n /\ n <= start_serial_[b] + size_'[b]
    BY <1>1 DEF Covered
  <2>1. CASE n \in 1 .. start_serial_[bulks] + size_[bulks]
    <3>1. PICK b \in 1 .. bulks : start_serial_[b] < n /\ n <= start_serial_[b] + size_[b]
      BY <2>1 DEF Covered
    <3>2. b \in Bulks /\ size_[b] <= size_'[b] /\ size_'[b] \in Nat
      BY <1>5, InFile, Newest
    <3> QED
      BY <3>1, <3>2, Newest
  <2>2. CASE n \notin 1 .. start_serial_[bulks] + size_[bulks]
    BY <1>5, <2>2, Newest
  <2> QED
    BY <2>1, <2>2
<1>12. Contents'
  BY <1>1, <1>2 DEF Contents
<1>13. (Placed /\ Reading /\ Ticks)'
  BY <1>1, <1>2 DEF Placed, Reading, Ticks
<1> QED
  BY <1>7, <1>8, <1>9, <1>10, <1>11, <1>12, <1>13

-----------------------------------------------------------------------------
(* The numbers of a finite set can be listed in ascending order: a largest *)
(* one goes behind the others.                                             *)
Increasing(list, n) == \A i, j \in 1 .. n : i < j => list[i] < list[j]
Listed(S) == IsFiniteSet(S) /\ \E list \in [1 .. Cardinality(S) -> S] :
                                   Increasing(list, Cardinality(S))

(* A set of numbers has a least member. *)
LEMMA Least ==
  ASSUME NEW T \in SUBSET Nat, T # {}
  PROVE  \E x \in T : \A y \in T : ~ y < x
<1> DEFINE R == OpToRel(<, Nat)
<1>1. IsWellFoundedOn(R, Nat)
  BY NatLessThanWellFounded
<1>2. \E x \in T : \A y \in T : ~ <<y, x>> \in R
  BY <1>1, WFMin
<1> QED
  BY <1>2 DEF OpToRel

LEMMA ListedNext ==
  ASSUME NEW k \in Nat, \A S \in SUBSET (0 .. k - 1) : Listed(S), NEW S \in SUBSET (0 .. k)
  PROVE  Listed(S)
<1>1. CASE k \notin S
  BY <1>1
<1>2. CASE k \in S
  <2> DEFINE T == S \ {k}
             n == Cardinality(T)
  <2>1. T \in SUBSET (0 .. k - 1) /\ S = T \cup {k}
    BY <1>2
  <2>2. Listed(T)
    BY <2>1
  <2>3. IsFiniteSet(T) /\ n \in Nat
    BY <2>2, FS_CardinalityType DEF Listed
  <2>4. PICK list \in [1 .. n -> T] : Increasing(list, n)
    BY <2>2 DEF Listed
  <2>5. IsFiniteSet(S) /\ Cardinality(S) = n + 1
    <3>1. k \notin T
      OBVIOUS
    <3> HIDE DEF T
    <3> QED
      BY <2>1, <2>3, <3>1, FS_AddElement
  <2> HIDE DEF n
  <2> DEFINE longer == [i \in 1 .. n + 1 |-> IF i = n + 1 THEN k ELSE list[i]]
  <2>6. \A i \in 1 .. n : longer[i] = list[i] /\ list[i] \in T /\ list[i] < k
    <3>1. \A x \in T : x < k
      BY <2>1
    <3>2. \A i \in 1 .. n : longer[i] = list[i]
      BY <2>3
    <3> HIDE DEF T
    <3> QED
      BY <2>4, <3>1, <3>2
  <2>7. longer[n + 1] = k
    BY <2>3
  <2>8. longer \in [1 .. n + 1 -> S]
    BY <1>2, <2>1, <2>3, <2>6, <2>7
  <2>9. Increasing(longer, n + 1)
    <3> SUFFICES ASSUME NEW i \in 1 .. n + 1, NEW j \in 1 .. n + 1, i < j
                 PROVE  longer[i] < longer[j]
      BY DEF Increasing
    <3> HIDE DEF longer
    <3>1. i \in 1 .. n /\ (j \in 1 .. n \/ j = n + 1)
      BY <2>3
    <3> QED
      BY <2>4, <2>6, <2>7, <3>1 DEF Increasing
  <2> QED
    BY <2>5, <2>8, <2>9 DEF Listed
<1> QED
  BY <1>1, <1>2

LEMMA AllListed == \A n \in Nat : \A S \in SUBSET (0 .. n - 1) : Listed(S)
<1> DEFINE Bad == {n \in Nat : ~ \A S \in SUBSET (0 .. n - 1) : Listed(S)}
<1> SUFFICES ASSUME Bad # {} PROVE FALSE
  OBVIOUS
<1>1. PICK x \in Bad : \A y \in Bad : ~ y < x
  <2>1. Bad \in SUBSET Nat
    OBVIOUS
  <2> QED
    BY <2>1, Least
<1>2. x \in Nat /\ ~ \A S \in SUBSET (0 .. x - 1) : Listed(S)
  OBVIOUS
<1>3. CASE x = 0
  <2>1. Listed({})
    <3> DEFINE none == [i \in 1 .. 0 |-> i]
    <3>1. IsFiniteSet({}) /\ Cardinality({}) = 0
      BY FS_EmptySet
    <3>2. none \in [1 .. 0 -> {}] /\ Increasing(none, 0)
      BY DEF Increasing
    <3> QED
      BY <3>1, <3>2 DEF Listed
  <2>2. \A S \in SUBSET (0 .. 0 - 1) : S = {}
    OBVIOUS
  <2> QED
    BY <1>2, <1>3, <2>1, <2>2
<1>4. CASE x # 0
  <2>1. x - 1 \in Nat /\ x - 1 < x
    BY <1>2, <1>4
  <2>2. \A S \in SUBSET (0 .. (x - 1) - 1) : Listed(S)
    BY <1>1, <2>1
  <2>3. \A S \in SUBSET (0 .. x - 1) : Listed(S)
    BY <2>1, <2>2, ListedNext
  <2> QED
    BY <1>2, <2>3
<1> QED
  BY <1>3, <1>4

LEMMA AscendingProperties ==
  ASSUME NEW n \in Nat, NEW S \in SUBSET (0 .. n - 1)
  PROVE  /\ IsFiniteSet(S) /\ Cardinality(S) \in Nat
         /\ Ascending(S) \in [1 .. Cardinality(S) -> S]
         /\ Increasing(Ascending(S), Cardinality(S))
         /\ Ascending(S) \in Seq(S) /\ Len(Ascending(S)) = Cardinality(S)
<1>1. Listed(S)
  BY AllListed
<1>2. IsFiniteSet(S) /\ Cardinality(S) \in Nat
  BY <1>1, FS_CardinalityType DEF Listed
<1>3. \E list \in [1 .. Cardinality(S) -> S] :
         \A i, j \in 1 .. Cardinality(S) : i < j => list[i] < list[j]
  BY <1>1 DEF Listed, Increasing
<1>4. /\ Ascending(S) \in [1 .. Cardinality(S) -> S]
      /\ Increasing(Ascending(S), Cardinality(S))
  BY <1>3 DEF Ascending, Increasing
<1>5. Ascending(S) \in Seq(S)
  BY <1>2, <1>4, IsASeq
<1> QED
  BY <1>2, <1>4, <1>5, LenProperties

-----------------------------------------------------------------------------
(* What a query finds in a bulk it reads. *)
LEMMA BulkRead ==
  ASSUME RInv, ppc = "read", NEW b, b = Head(todo)
  PROVE  /\ todo # <<>> /\ b \in 1 .. bulks /\ b \in Bulks /\ ~ WWrites(b)
         /\ offset_[b] = size_[b]
         /\ \A kind \in Consulted : kind \in Kinds /\ index[b][kind] = Entries(kind, start_serial_[b], size_[b])
         /\ OffsetsOf(b) = Entries("offset", start_serial_[b], size_[b])
         /\ ContentOf(b) = Numbered(start_serial_[b], size_[b])
         /\ MustLoad(b) \/ data_[b] # "null"
<1> USE DEF RInv, Recovery
<1>1. todo # <<>> /\ b \in 1 .. bulks /\ b \in Bulks
  <2>1. todo # <<>> /\ todo \in Seq(1 .. bulks)
    BY DEF EInv, IInv, LockExcludes, RingTypes
  <2> QED
    BY <2>1, HeadTailProperties, InFile
<1>2. ~ WWrites(b)
  BY DEF EInv, IInv, LockExcludes, WWrites
<1>3. offset_[b] = size_[b] /\ \A kind \in Kinds : Indexed(b, kind) = size_[b]
  <2>1. size_[b] \in Nat
    BY <1>1, Newest
  <2>2. ppc \notin {"index"} \cup Kinds /\ \A kind \in Kinds : ppc \notin Ahead[kind]
    BY AheadPlaces DEF Kinds, Tries
  <2>3. offset_[b] = Written(b)
    BY <1>1 DEF Numbers
  <2> HIDE DEF RInv, Recovery
  <2> QED
    BY <2>1, <2>2, <2>3 DEF Written, Indexed
<1>4. Consulted \subseteq Kinds /\ Consulted \subseteq inMemory[b]
  BY DEF Reading, Consulted, Kinds, Tries
<1>5. \A kind \in Consulted : index[b][kind] = Entries(kind, start_serial_[b], size_[b])
  BY <1>1, <1>3, <1>4 DEF Indexes
<1>6. OffsetsOf(b) = Entries("offset", start_serial_[b], size_[b])
  <2>1. "offset" \in Kinds
    BY DEF Kinds
  <2>2. CASE "offset" \in inMemory[b]
    BY <1>1, <1>3, <2>1, <2>2 DEF OffsetsOf, WithLoaded, Indexes
  <2>3. CASE "offset" \notin inMemory[b]
    BY <1>1, <1>2, <2>1, <2>3 DEF OffsetsOf, WithLoaded, Indexes
  <2> QED
    BY <2>2, <2>3
<1>7. state_[b] \in {"Appending", "InQueue", "InMemory", "Saved"}
  BY <1>1, Newest DEF Numbers, EInv, IInv, RingTypes, States
<1>8. /\ state_[b] \in {"Appending", "InQueue"} => data_[b] = "slot"
      /\ state_[b] = "InMemory" => data_[b] = "heap"
  BY <1>1 DEF EInv, IInv, OpenBulk, Placed
<1>9. ContentOf(b) = Numbered(start_serial_[b], size_[b])
  BY <1>1, <1>3, <1>7, <1>8 DEF ContentOf, MustLoad, Content, Contents
<1> QED
  BY <1>1, <1>2, <1>3, <1>4, <1>5, <1>6, <1>7, <1>8, <1>9 DEF MustLoad

(* The local serials of a list of logs with a certain key. *)
Matching(s, n, k) == {i \in 0 .. n - 1 : KeyOf(s + i + 1) = k}

LEMMA MatchingEntries ==
  ASSUME NEW kind \in {"key", "word"}, NEW s \in Nat, NEW n \in Nat, NEW k
  PROVE  {i \in 0 .. Len(Entries(kind, s, n)) - 1 : KeyOf(Entries(kind, s, n)[i + 1]) = k}
           = Matching(s, n, k)
<1>1. Len(Entries(kind, s, n)) = n
  BY EntriesProperties
<1>2. \A i \in 0 .. n - 1 : Entries(kind, s, n)[i + 1] = s + i + 1
  <2> SUFFICES ASSUME NEW i \in 0 .. n - 1 PROVE Entries(kind, s, n)[i + 1] = s + i + 1
    OBVIOUS
  <2>1. i + 1 \in 1 .. n
    OBVIOUS
  <2>2. Entries(kind, s, n)[i + 1] = s + (i + 1)
    BY <2>1 DEF Entries
  <2> QED
    BY <2>2
<1>3. \A i \in 0 .. n - 1 : KeyOf(Entries(kind, s, n)[i + 1]) = KeyOf(s + i + 1)
  BY <1>2
<1> QED
  BY <1>1, <1>3 DEF Matching

LEMMA SerialsRead ==
  ASSUME RInv, ppc = "read", NEW b, b = Head(todo)
  PROVE  LET m == Ascending(Matching(start_serial_[b], size_[b], query.key))
         IN  /\ query.kind \in {"getkey", "search"} => Serials(b) = Reverse(m)
             /\ query.kind = "searchtime" => Serials(b) = m
             /\ Serials(b) \in Seq(0 .. size_[b] - 1)
<1> DEFINE S == Matching(start_serial_[b], size_[b], query.key)
           m == Ascending(S)
<1>1. b \in Bulks /\ query.kind \in QueryKinds
  BY BulkRead DEF RInv, Recovery, DataTypes
<1>2. start_serial_[b] \in Nat /\ size_[b] \in Nat
  BY <1>1, Newest
<1>3. S \in SUBSET (0 .. size_[b] - 1)
  BY DEF Matching
<1>4. m \in Seq(S) /\ m \in Seq(0 .. size_[b] - 1)
  BY <1>2, <1>3, AscendingProperties, SeqMonotonic
<1>5. \A kind \in {"key", "word"} : kind \in Consulted =>
         {i \in 0 .. Len(index[b][kind]) - 1 : KeyOf(index[b][kind][i + 1]) = query.key} = S
  <2> SUFFICES ASSUME NEW kind \in {"key", "word"}, kind \in Consulted
               PROVE  {i \in 0 .. Len(index[b][kind]) - 1 :
                          KeyOf(index[b][kind][i + 1]) = query.key} = S
    OBVIOUS
  <2>1. index[b][kind] = Entries(kind, start_serial_[b], size_[b])
    BY BulkRead
  <2>2. {i \in 0 .. Len(Entries(kind, start_serial_[b], size_[b])) - 1 :
            KeyOf(Entries(kind, start_serial_[b], size_[b])[i + 1]) = query.key} = S
    BY <1>2, MatchingEntries
  <2> QED
    BY <2>1, <2>2
<1>6. query.kind = "getkey" => Serials(b) = Reverse(m)
  BY <1>5 DEF Serials, Consulted
<1>7. query.kind = "search" => Serials(b) = Reverse(m)
  BY <1>5 DEF Serials, Consulted
<1>8. query.kind = "searchtime" => Serials(b) = m
  BY <1>5 DEF Serials, Consulted
<1>9. query.kind = "recent" => Serials(b) \in Seq(0 .. size_[b] - 1)
  <2> SUFFICES ASSUME query.kind = "recent" PROVE Serials(b) \in Seq(0 .. size_[b] - 1)
    OBVIOUS
  <2>1. Len(result) \in Nat /\ RecentCount \in Nat
    BY StoreAssumption, LenProperties DEF RInv, Recovery, DataTypes
  <2> DEFINE count == IF size_[b] < RecentCount - Len(result) THEN size_[b]
                                                             ELSE RecentCount - Len(result)
  <2>2. Serials(b) = [i \in 1 .. count |-> size_[b] - i]
    BY DEF Serials
  <2>3. count \in Int /\ count <= size_[b]
    BY <1>2, <2>1
  <2> HIDE DEF count
  <2>4. CASE count \in Nat
    <3>1. \A i \in 1 .. count : size_[b] - i \in 0 .. size_[b] - 1
      BY <1>2, <2>3
    <3> QED
      BY <2>2, <2>4, <3>1, IsASeq
  <2>5. CASE count \notin Nat
    <3>1. 1 .. count = 1 .. 0
      BY <2>3, <2>5
    <3>2. [i \in 1 .. 0 |-> size_[b] - i] \in Seq(0 .. size_[b] - 1)
      BY IsASeq
    <3> QED
      BY <2>2, <3>1, <3>2
  <2> QED
    BY <2>4, <2>5
<1>10. Reverse(m) \in Seq(0 .. size_[b] - 1)
  BY <1>4, ReverseType
<1> HIDE DEF m
<1>11. Serials(b) \in Seq(0 .. size_[b] - 1)
  BY <1>1, <1>4, <1>6, <1>7, <1>8, <1>9, <1>10 DEF QueryKinds
<1> QED
  BY <1>6, <1>7, <1>8, <1>11 DEF m

(* The log behind a local serial. *)
LEMMA LogRead ==
  ASSUME RInv, ppc = "read", NEW b, b = Head(todo), NEW serial \in 0 .. size_[b] - 1
  PROVE  /\ serial < Len(OffsetsOf(b)) /\ OffsetsOf(b)[serial + 1] = serial
         /\ serial < Len(ContentOf(b)) /\ ContentOf(b)[serial + 1] = start_serial_[b] + serial + 1
         /\ start_serial_[b] + serial + 1 \in Logs
<1>1. b \in 1 .. bulks /\ b \in Bulks
  BY BulkRead
<1>2. start_serial_[b] \in Nat /\ size_[b] \in Nat /\ start_serial_[b] + size_[b] <= MaxLogs
  BY <1>1, Newest, InFile
<1>3. serial + 1 \in 1 .. size_[b]
  BY <1>2
<1>4. /\ OffsetsOf(b) = Entries("offset", start_serial_[b], size_[b])
      /\ ContentOf(b) = Numbered(start_serial_[b], size_[b])
  BY BulkRead
<1>5. Len(OffsetsOf(b)) = size_[b] /\ OffsetsOf(b)[serial + 1] = (serial + 1) - 1
  BY <1>2, <1>3, <1>4 DEF Entries
<1>6. Len(ContentOf(b)) = size_[b] /\ ContentOf(b)[serial + 1] = start_serial_[b] + (serial + 1)
  BY <1>2, <1>3, <1>4 DEF Numbered
<1>7. /\ (serial + 1) - 1 = serial /\ serial < size_[b]
      /\ start_serial_[b] + (serial + 1) = start_serial_[b] + serial + 1
  BY <1>2
<1>8. start_serial_[b] + serial + 1 \in Logs
  BY <1>2, Bounds DEF Logs
<1> QED
  BY <1>5, <1>6, <1>7, <1>8

LEMMA AllReadable == RInv /\ ppc = "read" => Readable(Head(todo))
<1> SUFFICES ASSUME RInv, ppc = "read" PROVE Readable(Head(todo))
  OBVIOUS
<1> DEFINE b == Head(todo)
<1>1. MustLoad(b) \/ data_[b] # "null"
  BY BulkRead
<1>2. Serials(b) \in Seq(0 .. size_[b] - 1)
  BY SerialsRead
<1>3. b \in Bulks /\ size_[b] \in Nat
  BY BulkRead, Newest
<1>4. ASSUME NEW i \in 1 .. Len(Serials(b))
      PROVE  /\ Serials(b)[i] < size_[b] /\ Serials(b)[i] < Len(OffsetsOf(b))
             /\ OffsetsOf(b)[Serials(b)[i] + 1] < Len(ContentOf(b))
  <2>1. Serials(b)[i] \in 0 .. size_[b] - 1
    BY <1>2, ElementOfSeq
  <2> QED
    BY <1>3, <2>1, LogRead
<1> QED
  BY <1>1, <1>4 DEF Readable

(* The process does not crash. *)
LEMMA NoCrashes == RInv => ~ (AppendToNull \/ ReadNothing \/ SaveNull)
<1> SUFFICES ASSUME RInv PROVE ~ (AppendToNull \/ ReadNothing \/ SaveNull)
  OBVIOUS
<1> USE DEF RInv, Recovery
<1>1. ppc = "append" => data_[bulks] # "null"
  BY Newest DEF Guarded, Appending, EInv, IInv, OpenBulk
<1>2. wpc = "lock" => data_[wb] # "null"
  <2> SUFFICES ASSUME wpc = "lock" PROVE data_[wb] # "null"
    OBVIOUS
  <2>1. wb \in Bulks
    BY InFile DEF EInv, IInv, PassBound, SavePlaces
  <2> QED
    BY <2>1 DEF Guarded, Saveable, Placed, EInv, IInv, OpenBulk
<1>3. ppc = "read" => Readable(Head(todo))
  BY AllReadable
<1> QED
  BY <1>1, <1>2, <1>3 DEF AppendToNull, ReadNothing, SaveNull

-----------------------------------------------------------------------------
(* A timer unit that is set anew is not due. *)
LEMMA ResetTimerLeft ==
  ASSUME NEW ticks \in Nat \ {0}, NEW wheel, wheel \subseteq Unit(ticks), NEW b \in Bulks
  PROVE  /\ ResetTimer(wheel, b, ticks) \subseteq Unit(ticks)
         /\ \A u \in ResetTimer(wheel, b, ticks) : u \in wheel \/ u.left > 0
<1> DEFINE new == [bulk |-> b, left |-> ticks, known |-> TRUE]
<1>1. new \in Unit(ticks) /\ new.left > 0
  BY DEF Unit
<1>2. \A u \in ResetTimer(wheel, b, ticks) : u \in wheel \/ u = new
  BY DEF ResetTimer
<1> QED
  BY <1>1, <1>2

LEMMA VisitBulkRecovers == RInv /\ VisitBulk => Recovery'
<1> SUFFICES ASSUME RInv, VisitBulk PROVE Recovery'
  OBVIOUS
<1> USE DEF RInv, Recovery
<1> DEFINE b == Head(todo)
<1>1. /\ ppc = "visit" /\ ppc' = "read" /\ todo # <<>> /\ ~ WWrites(b)
      /\ index' = [index EXCEPT ![b] = WithLoaded(b, Consulted)]
      /\ inMemory' = [inMemory EXCEPT ![b] = @ \cup Consulted]
      /\ releaseWheel' = releaseWheel \/ releaseWheel' = ResetTimer(releaseWheel, b, ReleaseTicks)
      /\ UNCHANGED <<bulks, state_, data_, slot_, heap, offset_, size_, start_serial_,
                     LogSerial, globalTrie, buffer, handler, write_position_,
                     read_position_, disk, autosaveWheel, query, todo, result, wpc, wb,
                     wleft, asked, stored>>
  BY DEF VisitBulk, SetTimer, bulkVars, indexVars, ringVars, wheelVars, queryVars,
         wVars, outVars
<1>2. b \in 1 .. bulks /\ b \in Bulks
  BY <1>1, HeadTailProperties, InFile DEF EInv, IInv, RingTypes
<1>3. /\ index'[b] = WithLoaded(b, Consulted) /\ inMemory'[b] = inMemory[b] \cup Consulted
      /\ \A c \in Bulks : c # b => index'[c] = index[c] /\ inMemory'[c] = inMemory[c]
  BY <1>1, <1>2 DEF DataTypes, EInv, Eviction
<1>4. start_serial_[b] \in Names
  BY <1>2 DEF DataTypes
<1>5. DataTypes'
  <2>1. WithLoaded(b, Consulted) \in [Kinds -> Seq(Nat)]
    BY <1>2, <1>4 DEF WithLoaded, DataTypes
  <2> QED
    BY <1>1, <2>1 DEF DataTypes
<1>6. Indexes'
  <2> SUFFICES ASSUME NEW c \in Bulks, NEW kind \in Kinds
      PROVE  /\ kind \in inMemory'[c] =>
                   index'[c][kind] = Entries(kind, start_serial_[c], Indexed(c, kind)')
             /\ kind \notin inMemory'[c] => state_[c] \in {"Saved", "InMemory"}
             /\ state_[c] \in {"Saved", "InMemory"}
                  => \/ disk[start_serial_[c]][kind] = Entries(kind, start_serial_[c], size_[c])
                     \/ WWrites(c)' /\ kind \in Unsaved[wpc] \cap inMemory'[c]
    BY <1>1 DEF Indexes
  <2>1. Indexed(c, kind)' = size_[c] /\ Indexed(c, kind) = size_[c]
    <3>1. ppc \notin Ahead[kind] /\ ppc' \notin Ahead[kind]
      BY <1>1, AheadPlaces
    <3>2. size_'[c] = size_[c] /\ size_[c] \in Nat
      BY <1>1, Newest
    <3> QED
      BY <3>1, <3>2 DEF Indexed
  <2>2. WWrites(c)' = WWrites(c)
    BY <1>1 DEF WWrites
  <2>3. CASE c # b
    BY <1>3, <2>1, <2>2, <2>3 DEF Indexes
  <2>4. CASE c = b
    BY <1>1, <1>3, <2>1, <2>2, <2>4 DEF Indexes, WithLoaded
  <2> QED
    BY <2>3, <2>4
<1>7. Reading'
  BY <1>1, <1>3 DEF Reading, Consulted
<1>8. Numbers'
  BY <1>1 DEF Numbers, Written, Kinds, Tries
<1>9. (Guarded /\ Contents)'
  BY <1>1 DEF Guarded, Contents, Appending, Kinds, Tries
<1>10. (Placed /\ Covered)'
  BY <1>1 DEF Placed, Covered
<1>11. Ticks'
  BY <1>1, <1>2, ResetTimerLeft, StoreAssumption DEF Ticks
<1> QED
  BY <1>5, <1>6, <1>7, <1>8, <1>9, <1>10, <1>11

LEMMA ReadBulkRecovers == RInv /\ ReadBulk => Recovery'
<1> SUFFICES ASSUME RInv, ReadBulk PROVE Recovery'
  OBVIOUS
<1> USE DEF RInv, Recovery
<1> DEFINE b == Head(todo)
           logs == [i \in 1 .. Len(Serials(b)) |->
                       ContentOf(b)[OffsetsOf(b)[Serials(b)[i] + 1] + 1]]
<1>1. /\ ppc = "read" /\ ppc' = "visit"
      /\ result' = result \o logs
      /\ index' = [index EXCEPT ![b]["offset"] = OffsetsOf(b)]
      /\ inMemory' = [inMemory EXCEPT ![b] = @ \cup {"offset"}]
      /\ \/ /\ state_[b] = "Saved"
            /\ state_' = [state_ EXCEPT ![b] = "InMemory"]
            /\ data_' = [data_ EXCEPT ![b] = "heap"]
            /\ heap' = [heap EXCEPT ![b] = ContentOf(b)]
            /\ releaseWheel' = ResetTimer(releaseWheel, b, ReleaseTicks)
         \/ /\ state_[b] # "Saved"
            /\ UNCHANGED <<state_, data_, heap, releaseWheel>>
      /\ UNCHANGED <<bulks, slot_, offset_, size_, start_serial_, LogSerial, globalTrie,
                     buffer, handler, write_position_, read_position_, disk, autosaveWheel,
                     query, wpc, wb, wleft, asked, stored>>
  BY DEF ReadBulk, MustLoad, SetTimer, bulkVars, indexVars, ringVars, wheelVars, queryVars,
         wVars, outVars
<1>2. /\ b \in 1 .. bulks /\ b \in Bulks /\ ~ WWrites(b) /\ offset_[b] = size_[b]
      /\ OffsetsOf(b) = Entries("offset", start_serial_[b], size_[b])
      /\ ContentOf(b) = Numbered(start_serial_[b], size_[b])
  BY <1>1, BulkRead
<1> HIDE DEF b
<1>3. /\ index'[b]["offset"] = OffsetsOf(b)
      /\ \A kind \in Kinds \ {"offset"} : index'[b][kind] = index[b][kind]
      /\ \A c \in Bulks : c # b => index'[c] = index[c]
  <2>1. index' = [index EXCEPT ![b] = [index[b] EXCEPT !["offset"] = OffsetsOf(b)]]
    BY <1>1
  <2>2. index \in [Bulks -> [Kinds -> Seq(Nat)]]
    BY DEF DataTypes
  <2>3. index[b] \in [Kinds -> Seq(Nat)] /\ "offset" \in Kinds
    BY <1>2, <2>2 DEF Kinds
  <2> QED
    BY <1>2, <2>1, <2>2, <2>3
<1>4. /\ inMemory'[b] = inMemory[b] \cup {"offset"}
      /\ \A c \in Bulks : c # b => inMemory'[c] = inMemory[c]
  BY <1>1, <1>2 DEF EInv, Eviction
<1>5. \A c \in Bulks : \/ /\ state_'[c] = state_[c] /\ data_'[c] = data_[c]
                           /\ heap'[c] = heap[c]
                        \/ /\ c = b /\ state_[c] = "Saved"
                           /\ state_'[c] = "InMemory" /\ data_'[c] = "heap"
                           /\ heap'[c] = ContentOf(b)
  <2>1. /\ state_ \in [Bulks -> States] /\ data_ \in [Bulks -> {"null", "slot", "heap"}]
        /\ heap \in [Bulks -> Seq(Logs)]
    BY DEF DataTypes, EInv, IInv, RingTypes
  <2>2. CASE state_[b] = "Saved"
    <3>1. /\ state_' = [state_ EXCEPT ![b] = "InMemory"]
          /\ data_' = [data_ EXCEPT ![b] = "heap"]
          /\ heap' = [heap EXCEPT ![b] = ContentOf(b)]
      BY <1>1, <2>2
    <3> QED
      BY <1>2, <2>1, <2>2, <3>1
  <2>3. CASE state_[b] # "Saved"
    BY <1>1, <2>3
  <2> QED
    BY <2>2, <2>3
<1>6. /\ start_serial_[b] \in Nat /\ size_[b] \in Nat
      /\ start_serial_[b] + size_[b] <= MaxLogs
  BY <1>2, Newest, InFile
<1>7. DataTypes'
  <2>1. index' \in [Bulks -> [Kinds -> Seq(Nat)]]
    <3>1. OffsetsOf(b) \in Seq(Nat)
      <4>1. OffsetsOf(b) = Entries("offset", start_serial_[b], size_[b])
        BY <1>2
      <4>2. Entries("offset", start_serial_[b], size_[b]) \in Seq(Nat)
        BY <1>6, EntriesProperties
      <4> QED
        BY <4>1, <4>2
    <3>2. index \in [Bulks -> [Kinds -> Seq(Nat)]]
      BY DEF DataTypes
    <3>3. [index[b] EXCEPT !["offset"] = OffsetsOf(b)] \in [Kinds -> Seq(Nat)]
      BY <1>2, <3>1, <3>2
    <3>4. index' = [index EXCEPT ![b] = [index[b] EXCEPT !["offset"] = OffsetsOf(b)]]
      BY <1>1
    <3> QED
      BY <3>2, <3>3, <3>4
  <2>2. heap' \in [Bulks -> Seq(Logs)]
    <3>1. ContentOf(b) \in Seq(Logs)
      <4>1. ContentOf(b) = Numbered(start_serial_[b], size_[b])
        BY <1>2
      <4>2. Numbered(start_serial_[b], size_[b]) \in Seq(Logs)
        BY <1>6, NumberedProperties
      <4> QED
        BY <4>1, <4>2
    <3> QED
      BY <1>1, <3>1 DEF DataTypes
  <2>3. result' \in Seq(Logs)
    <3>1. Serials(b) \in Seq(0 .. size_[b] - 1)
      BY <1>1, SerialsRead DEF b
    <3>2. Len(Serials(b)) \in Nat
      BY <3>1, LenProperties
    <3>3. ASSUME NEW i \in 1 .. Len(Serials(b))
          PROVE  ContentOf(b)[OffsetsOf(b)[Serials(b)[i] + 1] + 1] \in Logs
      <4>1. Serials(b)[i] \in 0 .. size_[b] - 1
        BY <3>1, <3>2, ElementOfSeq
      <4> DEFINE serial == Serials(b)[i]
      <4>2. /\ OffsetsOf(b)[serial + 1] = serial
            /\ ContentOf(b)[serial + 1] = start_serial_[b] + serial + 1
            /\ start_serial_[b] + serial + 1 \in Logs
        BY <1>1, <4>1, LogRead DEF b
      <4> HIDE DEF serial
      <4>3. ContentOf(b)[OffsetsOf(b)[serial + 1] + 1] \in Logs
        BY <4>2
      <4> QED
        BY <4>3 DEF serial
    <3>4. logs \in Seq(Logs)
      BY <3>2, <3>3, IsASeq
    <3> HIDE DEF logs
    <3>5. result' = result \o logs
      BY <1>1
    <3>6. result \in Seq(Logs)
      BY DEF DataTypes
    <3> QED
      BY <3>4, <3>5, <3>6, ConcatProperties
  <2> QED
    BY <1>1, <2>1, <2>2, <2>3 DEF DataTypes
<1>8. Numbers'
  <2>1. \A c \in Bulks : state_'[c] \in {"InQueue", "InMemory", "Saved"} => size_[c] > 0
    BY <1>5 DEF Numbers
  <2>2. \A c \in Bulks : state_'[c] = "Init" <=> c > bulks
    BY <1>5 DEF Numbers
  <2> QED
    BY <1>1, <2>1, <2>2 DEF Numbers, Written, Kinds, Tries
<1>9. Guarded'
  <2>1. wpc = "lock" => wb \in Bulks
    BY InFile DEF EInv, IInv, PassBound, SavePlaces
  <2> QED
    BY <1>1, <1>5, <2>1 DEF Guarded, Appending, Saveable, Kinds, Tries
<1>10. Placed'
  BY <1>5 DEF Placed
<1>11. Contents'
  <2> SUFFICES ASSUME NEW c \in Bulks
      PROVE  /\ data_'[c] = "slot" => buffer[slot_[c]] = Numbered(start_serial_[c], offset_[c])
             /\ data_'[c] = "heap" => heap'[c] = Numbered(start_serial_[c], offset_[c])
             /\ state_'[c] \in {"Saved", "InMemory"} =>
                  disk[start_serial_[c]]["content"] = Numbered(start_serial_[c], offset_[c])
    BY <1>1 DEF Contents
  <2> QED
    BY <1>2, <1>5 DEF Contents
<1>12. Indexes'
  <2> SUFFICES ASSUME NEW c \in Bulks, NEW kind \in Kinds
      PROVE  /\ kind \in inMemory'[c] =>
                   index'[c][kind] = Entries(kind, start_serial_[c], Indexed(c, kind)')
             /\ kind \notin inMemory'[c] => state_'[c] \in {"Saved", "InMemory"}
             /\ state_'[c] \in {"Saved", "InMemory"}
                  => \/ disk[start_serial_[c]][kind] = Entries(kind, start_serial_[c], size_[c])
                     \/ WWrites(c)' /\ kind \in Unsaved[wpc] \cap inMemory'[c]
    BY <1>1 DEF Indexes
  <2>1. Indexed(c, kind)' = size_[c] /\ Indexed(c, kind) = size_[c]
    <3>1. ppc \notin Ahead[kind] /\ ppc' \notin Ahead[kind]
      BY <1>1, AheadPlaces
    <3>2. size_[c] \in Nat /\ size_'[c] = size_[c]
      BY <1>1, Newest
    <3> HIDE DEF RInv, Recovery
    <3> QED
      BY <3>1, <3>2 DEF Indexed
  <2>2. WWrites(c)' = WWrites(c)
    BY <1>1 DEF WWrites
  <2>3. CASE c # b
    BY <1>3, <1>4, <1>5, <2>1, <2>2, <2>3 DEF Indexes
  <2>4. CASE c = b /\ kind = "offset"
    BY <1>2, <1>3, <1>4, <1>5, <2>1, <2>2, <2>4 DEF Indexes
  <2>5. CASE c = b /\ kind # "offset"
    BY <1>2, <1>3, <1>4, <1>5, <2>1, <2>2, <2>5 DEF Indexes
  <2> QED
    BY <2>3, <2>4, <2>5
<1>13. (Covered /\ Reading)'
  BY <1>1 DEF Covered, Reading
<1>14. Ticks'
  BY <1>1, <1>2, ResetTimerLeft, StoreAssumption DEF Ticks
<1> QED
  BY <1>7, <1>8, <1>9, <1>10, <1>11, <1>12, <1>13, <1>14

(* The worker's bulk holds a log when it is saved, and all of its logs are *)
(* indexed: no append to it is under way, or the autosave would hit it.    *)
LEMMA WorkersBulk ==
  ASSUME RInv, SaveContent, ~ hit'
  PROVE  /\ wb \in 1 .. bulks /\ wb \in Bulks /\ size_[wb] > 0 /\ offset_[wb] = size_[wb]
         /\ \A kind \in Kinds : Indexed(wb, kind) = size_[wb]
         /\ wb = bulks => ppc \notin Appending
<1> USE DEF RInv, Recovery
<1>0. wpc = "lock"
  BY DEF SaveContent
<1>1. wb \in 1 .. bulks /\ wb \in Bulks
  BY <1>0, InFile DEF EInv, IInv, PassBound, SavePlaces
<1>2. wb = bulks => ppc \notin Appending
  <2>1. wleft = 0 \/ wleft > 0
    BY Bounds DEF EInv, IInv, RingTypes
  <2>2. wleft > 0 => state_[wb] # "Appending"
    BY <1>0 DEF Guarded
  <2> QED
    BY <2>1, <2>2 DEF SaveContent, Guarded
<1>3. offset_[wb] = size_[wb]
  BY <1>1, <1>2, Newest DEF Numbers, Written, Appending
<1>4. \A kind \in Kinds : Indexed(wb, kind) = size_[wb]
  BY <1>1, <1>2, AheadPlaces, Newest DEF Indexed, Appending, Kinds, Tries
<1>5. size_[wb] > 0
  <2>1. CASE wleft > 0
    <3>1. state_[wb] \in {"InQueue", "InMemory"}
      BY <1>0, <2>1 DEF Guarded, Saveable
    <3> QED
      BY <1>1, <3>1 DEF Numbers
  <2>2. CASE ~ wleft > 0
    <3>1. wleft = 0
      BY <2>2, Bounds DEF EInv, IInv, RingTypes
    <3> QED
      BY <1>0, <1>1, <1>3, <3>1 DEF Guarded, Numbers, DataTypes
  <2> QED
    BY <2>1, <2>2
<1> QED
  BY <1>1, <1>2, <1>3, <1>4, <1>5

LEMMA SaveContentRecovers == RInv /\ SaveContent /\ ~ hit' => Recovery'
<1> SUFFICES ASSUME RInv, SaveContent, ~ hit' PROVE Recovery'
  OBVIOUS
<1> USE DEF RInv, Recovery
<1>1. /\ wpc = "lock" /\ wpc' = "offset" /\ data_[wb] # "null"
      /\ state_' = [state_ EXCEPT ![wb] = "Saved"]
      /\ disk' = [disk EXCEPT ![start_serial_[wb]]["content"] = Content(wb)]
      /\ UNCHANGED <<bulks, data_, slot_, heap, offset_, size_, start_serial_, LogSerial,
                     index, inMemory, globalTrie, buffer, handler, write_position_,
                     read_position_, releaseWheel, autosaveWheel, ppc, query, todo, result,
                     wb, wleft, asked, stored>>
  BY DEF SaveContent, bulkVars, indexVars, ringVars, wheelVars, queryVars,
         wVars
<1>2. /\ wb \in 1 .. bulks /\ wb \in Bulks /\ size_[wb] > 0 /\ offset_[wb] = size_[wb]
      /\ \A kind \in Kinds : Indexed(wb, kind) = size_[wb]
  BY WorkersBulk
<1>3. state_'[wb] = "Saved" /\ \A b \in Bulks : b # wb => state_'[b] = state_[b]
  BY <1>1, <1>2 DEF EInv, IInv, RingTypes
<1>4. Content(wb) = Numbered(start_serial_[wb], offset_[wb])
  BY <1>1, <1>2 DEF Content, Contents, EInv, IInv, RingTypes
<1>5. start_serial_[wb] \in Names /\ \A b \in Bulks : start_serial_[b] \in Names
  BY <1>2 DEF DataTypes
<1>6. /\ disk'[start_serial_[wb]]["content"] = Content(wb)
      /\ \A name \in Names : name # start_serial_[wb] => disk'[name] = disk[name]
      /\ \A name \in Names, kind \in Kinds : disk'[name][kind] = disk[name][kind]
  <2>1. disk' = [disk EXCEPT ![start_serial_[wb]] =
                    [disk[start_serial_[wb]] EXCEPT !["content"] = Content(wb)]]
    BY <1>1
  <2>2. disk \in [Names -> [Kinds \cup {"content"} -> Seq(Nat)]]
    BY DEF DataTypes
  <2>3. disk[start_serial_[wb]] \in [Kinds \cup {"content"} -> Seq(Nat)]
    BY <1>5, <2>2
  <2>4. \A kind \in Kinds : kind # "content"
    BY DEF Kinds, Tries
  <2> QED
    BY <1>5, <2>1, <2>2, <2>3, <2>4
<1>7. DataTypes'
  <2>1. Content(wb) \in Seq(Nat)
    <3>1. start_serial_[wb] \in Nat /\ offset_[wb] \in Nat
      BY <1>2, Newest
    <3> QED
      BY <1>4, <3>1, NumberedProperties
  <2>2. disk' \in [Names -> [Kinds \cup {"content"} -> Seq(Nat)]]
    <3>1. disk \in [Names -> [Kinds \cup {"content"} -> Seq(Nat)]]
      BY DEF DataTypes
    <3>2. [disk[start_serial_[wb]] EXCEPT !["content"] = Content(wb)]
             \in [Kinds \cup {"content"} -> Seq(Nat)]
      BY <1>5, <2>1, <3>1
    <3>3. disk' = [disk EXCEPT ![start_serial_[wb]] =
                      [disk[start_serial_[wb]] EXCEPT !["content"] = Content(wb)]]
      BY <1>1
    <3> QED
      BY <3>1, <3>2, <3>3
  <2> QED
    BY <1>1, <2>2 DEF DataTypes
<1>8. Numbers'
  <2>1. \A b \in Bulks : state_'[b] = "Init" <=> b > bulks
    BY <1>2, <1>3, Newest DEF Numbers
  <2>2. \A b \in Bulks : state_'[b] \in {"InQueue", "InMemory", "Saved"} => size_[b] > 0
    BY <1>2, <1>3 DEF Numbers
  <2> QED
    BY <1>1, <2>1, <2>2 DEF Numbers, Written
<1>9. Guarded'
  BY <1>1, <1>3, WorkersBulk, Newest DEF Guarded
<1>10. Placed'
  BY <1>1, <1>3 DEF Placed
<1>11. Contents'
  <2> SUFFICES ASSUME NEW b \in Bulks, state_'[b] \in {"Saved", "InMemory"}
               PROVE  disk'[start_serial_[b]]["content"] = Numbered(start_serial_[b], offset_[b])
    BY <1>1 DEF Contents
  <2>1. CASE b = wb
    BY <1>4, <1>6, <2>1
  <2>2. CASE b # wb
    <3>1. state_[b] \in {"Saved", "InMemory"} /\ size_[b] > 0
      BY <1>3, <2>2 DEF Numbers
    <3>2. start_serial_[b] # start_serial_[wb]
      BY <1>2, <2>2, <3>1, NamesDiffer
    <3> QED
      BY <1>5, <1>6, <3>1, <3>2 DEF Contents
  <2> QED
    BY <2>1, <2>2
<1>12. Indexes'
  <2> SUFFICES ASSUME NEW b \in Bulks, NEW kind \in Kinds
      PROVE  /\ kind \in inMemory[b] =>
                   index[b][kind] = Entries(kind, start_serial_[b], Indexed(b, kind)')
             /\ kind \notin inMemory[b] => state_'[b] \in {"Saved", "InMemory"}
             /\ state_'[b] \in {"Saved", "InMemory"}
                  => \/ disk'[start_serial_[b]][kind] = Entries(kind, start_serial_[b], size_[b])
                     \/ WWrites(b)' /\ kind \in Unsaved[wpc'] \cap inMemory[b]
    BY <1>1 DEF Indexes
  <2>1. Indexed(b, kind)' = Indexed(b, kind)
    BY <1>1 DEF Indexed
  <2>2. ~ WWrites(b)
    BY <1>1 DEF WWrites, Kinds, Tries
  <2>3. disk'[start_serial_[b]][kind] = disk[start_serial_[b]][kind]
    BY <1>5, <1>6
  <2>4. CASE b # wb
    BY <1>3, <2>1, <2>2, <2>3, <2>4 DEF Indexes
  <2>5. CASE b = wb
    <3>1. WWrites(b)' /\ kind \in Unsaved[wpc']
      BY <1>1, <2>5 DEF WWrites, Unsaved, Kinds
    <3> QED
      BY <1>3, <2>1, <2>2, <2>3, <2>5, <3>1 DEF Indexes
  <2> QED
    BY <2>4, <2>5
<1>13. (Covered /\ Reading)'
  BY <1>1 DEF Covered, Reading, Consulted
<1>14. Ticks'
  BY <1>1 DEF Ticks, SavePlaces, Kinds, Tries
<1> QED
  BY <1>7, <1>8, <1>9, <1>10, <1>11, <1>12, <1>13, <1>14

LEMMA SaveIndexRecovers == RInv /\ SaveIndex => Recovery'
<1> SUFFICES ASSUME RInv, SaveIndex PROVE Recovery'
  OBVIOUS
<1> USE DEF RInv, Recovery
<1>1. /\ wpc \in Kinds /\ wpc' = AfterSave[wpc]
      /\ \/ /\ wpc \in inMemory[wb]
            /\ disk' = [disk EXCEPT ![start_serial_[wb]][wpc] = index[wb][wpc]]
            /\ index' = [index EXCEPT ![wb][wpc] = <<>>]
            /\ inMemory' = [inMemory EXCEPT ![wb] = @ \ {wpc}]
         \/ wpc \notin inMemory[wb] /\ UNCHANGED <<disk, index, inMemory>>
      /\ UNCHANGED <<bulks, state_, data_, slot_, heap, offset_, size_, start_serial_,
                     LogSerial, globalTrie, buffer, handler, write_position_,
                     read_position_, releaseWheel, autosaveWheel, ppc, query, todo, result,
                     wb, wleft, asked, stored>>
  BY DEF SaveIndex, StillRead, bulkVars, indexVars, ringVars, wheelVars, queryVars,
         wVars, outVars
<1>2. wb \in 1 .. bulks /\ wb \in Bulks
  BY <1>1, InFile DEF EInv, IInv, PassBound, SavePlaces
<1>3. WWrites(wb) /\ state_[wb] = "Saved" /\ size_[wb] > 0
  BY <1>1, <1>2 DEF WWrites, EInv, IInv, InRing, Numbers
<1>4. /\ wpc' \in Kinds \cup {"detach"}
      /\ Unsaved[wpc'] = Unsaved[wpc] \ {wpc}
  BY <1>1 DEF Unsaved, AfterSave, Kinds, Tries
<1>5. start_serial_[wb] \in Names /\ \A b \in Bulks : start_serial_[b] \in Names
  BY <1>2 DEF DataTypes
(* The bulk saved takes no logs. *)
<1>6. \A kind \in Kinds : Indexed(wb, kind) = size_[wb]
  <2>1. wb = bulks => ppc \notin Appending
    BY <1>3 DEF Guarded
  <2> QED
    BY <1>2, <2>1, AheadPlaces, Newest DEF Indexed, Appending, Kinds, Tries
<1>7. /\ \A b \in Bulks : b # wb => index'[b] = index[b] /\ inMemory'[b] = inMemory[b]
      /\ \A kind \in Kinds : kind # wpc => index'[wb][kind] = index[wb][kind]
      /\ inMemory'[wb] = inMemory[wb] \ {wpc}
      /\ \A name \in Names : name # start_serial_[wb] => disk'[name] = disk[name]
      /\ \A name \in Names, kind \in Kinds \cup {"content"} :
            kind # wpc => disk'[name][kind] = disk[name][kind]
      /\ wpc \in inMemory[wb] => disk'[start_serial_[wb]][wpc] = index[wb][wpc]
      /\ wpc \notin inMemory[wb] => disk' = disk
  <2>1. CASE wpc \notin inMemory[wb]
    BY <1>1, <2>1
  <2>2. CASE wpc \in inMemory[wb]
    <3>1. /\ index \in [Bulks -> [Kinds -> Seq(Nat)]]
          /\ disk \in [Names -> [Kinds \cup {"content"} -> Seq(Nat)]]
          /\ inMemory \in [Bulks -> SUBSET Kinds]
      BY DEF DataTypes, EInv, Eviction
    <3>2. /\ index[wb] \in [Kinds -> Seq(Nat)]
          /\ disk[start_serial_[wb]] \in [Kinds \cup {"content"} -> Seq(Nat)]
      BY <1>2, <1>5, <3>1
    <3>3. /\ index' = [index EXCEPT ![wb] = [index[wb] EXCEPT ![wpc] = <<>>]]
          /\ disk' = [disk EXCEPT ![start_serial_[wb]] =
                         [disk[start_serial_[wb]] EXCEPT ![wpc] = index[wb][wpc]]]
          /\ inMemory' = [inMemory EXCEPT ![wb] = @ \ {wpc}]
      BY <1>1, <2>2
    <3>4. \A b \in Bulks : b # wb => index'[b] = index[b] /\ inMemory'[b] = inMemory[b]
      BY <3>1, <3>3
    <3>5. /\ \A kind \in Kinds : kind # wpc => index'[wb][kind] = index[wb][kind]
          /\ inMemory'[wb] = inMemory[wb] \ {wpc}
      BY <1>2, <3>1, <3>2, <3>3
    <3>6. \A name \in Names : name # start_serial_[wb] => disk'[name] = disk[name]
      BY <3>1, <3>3
    <3>7. disk'[start_serial_[wb]] = [disk[start_serial_[wb]] EXCEPT ![wpc] = index[wb][wpc]]
      BY <1>5, <3>1, <3>3
    <3>8. /\ disk'[start_serial_[wb]][wpc] = index[wb][wpc]
          /\ \A kind \in Kinds \cup {"content"} :
                kind # wpc => disk'[start_serial_[wb]][kind] = disk[start_serial_[wb]][kind]
      BY <1>1, <3>2, <3>7
    <3> QED
      BY <2>2, <3>4, <3>5, <3>6, <3>8
  <2> QED
    BY <2>1, <2>2
<1>8. DataTypes'
  <2>1. CASE wpc \notin inMemory[wb]
    BY <1>1, <2>1 DEF DataTypes
  <2>2. CASE wpc \in inMemory[wb]
    <3>1. index[wb][wpc] \in Seq(Nat) /\ <<>> \in Seq(Nat)
      <4>1. index \in [Bulks -> [Kinds -> Seq(Nat)]]
        BY DEF DataTypes
      <4>2. index[wb] \in [Kinds -> Seq(Nat)]
        BY <1>2, <4>1
      <4> QED
        BY <1>1, <4>2
    <3>2. index' \in [Bulks -> [Kinds -> Seq(Nat)]]
      <4>1. index \in [Bulks -> [Kinds -> Seq(Nat)]]
        BY DEF DataTypes
      <4>2. [index[wb] EXCEPT ![wpc] = <<>>] \in [Kinds -> Seq(Nat)]
        BY <1>2, <3>1, <4>1
      <4>3. index' = [index EXCEPT ![wb] = [index[wb] EXCEPT ![wpc] = <<>>]]
        BY <1>1, <2>2
      <4> QED
        BY <4>1, <4>2, <4>3
    <3>3. disk' \in [Names -> [Kinds \cup {"content"} -> Seq(Nat)]]
      <4>1. disk \in [Names -> [Kinds \cup {"content"} -> Seq(Nat)]]
        BY DEF DataTypes
      <4>2. [disk[start_serial_[wb]] EXCEPT ![wpc] = index[wb][wpc]]
               \in [Kinds \cup {"content"} -> Seq(Nat)]
        BY <1>5, <3>1, <4>1
      <4>3. disk' = [disk EXCEPT ![start_serial_[wb]] =
                        [disk[start_serial_[wb]] EXCEPT ![wpc] = index[wb][wpc]]]
        BY <1>1, <2>2
      <4> QED
        BY <4>1, <4>2, <4>3
    <3> QED
      BY <1>1, <3>2, <3>3 DEF DataTypes
  <2> QED
    BY <2>1, <2>2
<1>9. Numbers'
  BY <1>1 DEF Numbers, Written
<1>10. Guarded'
  BY <1>1, <1>4 DEF Guarded, Kinds, Tries
<1>11. Contents'
  <2>1. \A name \in Names : disk'[name]["content"] = disk[name]["content"]
    BY <1>1, <1>7 DEF Kinds, Tries
  <2> QED
    BY <1>1, <1>5, <2>1 DEF Contents
<1>12. Indexes'
  <2> SUFFICES ASSUME NEW b \in Bulks, NEW kind \in Kinds
      PROVE  /\ kind \in inMemory'[b] =>
                   index'[b][kind] = Entries(kind, start_serial_[b], Indexed(b, kind)')
             /\ kind \notin inMemory'[b] => state_[b] \in {"Saved", "InMemory"}
             /\ state_[b] \in {"Saved", "InMemory"}
                  => \/ disk'[start_serial_[b]][kind] = Entries(kind, start_serial_[b], size_[b])
                     \/ WWrites(b)' /\ kind \in Unsaved[wpc'] \cap inMemory'[b]
    BY <1>1 DEF Indexes
  <2>1. Indexed(b, kind)' = Indexed(b, kind)
    BY <1>1 DEF Indexed
  <2>2. CASE b # wb
    <3>1. ~ WWrites(b)
      BY <2>2 DEF WWrites
    <3>2. state_[b] \in {"Saved", "InMemory"} => disk'[start_serial_[b]] = disk[start_serial_[b]]
      <4>1. state_[b] \in {"Saved", "InMemory"} => size_[b] > 0
        BY DEF Numbers
      <4> QED
        BY <1>2, <1>3, <1>5, <1>7, <2>2, <4>1, NamesDiffer
    <3> QED
      BY <1>7, <2>1, <2>2, <3>1, <3>2 DEF Indexes
  <2>3. CASE b = wb
    <3>1. WWrites(b)'
      BY <1>1, <1>4, <2>3 DEF WWrites
    <3>2. CASE kind = wpc
      <4>1. kind \notin inMemory'[b]
        BY <1>7, <2>3, <3>2
      <4>2. disk'[start_serial_[b]][kind] = Entries(kind, start_serial_[b], size_[b])
        BY <1>3, <1>6, <1>7, <2>3, <3>2 DEF Indexes
      <4> QED
        BY <1>3, <2>3, <4>1, <4>2
    <3>3. CASE kind # wpc
      BY <1>3, <1>4, <1>5, <1>7, <2>1, <2>3, <3>1, <3>3 DEF Indexes
    <3> QED
      BY <3>2, <3>3
  <2> QED
    BY <2>2, <2>3
<1>13. (Placed /\ Covered)'
  BY <1>1 DEF Placed, Covered
<1>14. Reading'
  <2>1. ppc = "read" => Head(todo) \in Bulks /\ Head(todo) # wb
    BY <1>1, BulkRead DEF EInv, IInv, LockExcludes
  <2> QED
    BY <1>1, <1>7, <2>1 DEF Reading, Consulted
<1>15. Ticks'
  BY <1>1, <1>4 DEF Ticks, SavePlaces, Kinds, Tries
<1> QED
  BY <1>8, <1>9, <1>10, <1>11, <1>12, <1>13, <1>14, <1>15

LEMMA DetachRecovers == RInv /\ Detach => Recovery'
<1> SUFFICES ASSUME RInv, Detach PROVE Recovery'
  OBVIOUS
<1> USE DEF RInv, Recovery
<1>1. /\ wpc = "detach" /\ wpc' = Persisted
      /\ data_' = [data_ EXCEPT ![wb] = "null"]
      /\ heap' = [heap EXCEPT ![wb] = <<>>]
      /\ UNCHANGED <<bulks, state_, slot_, offset_, size_, start_serial_, LogSerial, index,
                     inMemory, globalTrie, buffer, write_position_, read_position_, disk,
                     releaseWheel, autosaveWheel, ppc, query, todo, result, wb, wleft,
                     asked, stored>>
  BY DEF Detach, bulkVars, indexVars, ringVars, wheelVars, queryVars,
         wVars, outVars
<1>2. wb \in Bulks
  BY <1>1, InFile DEF EInv, IInv, PassBound, SavePlaces
<1>3. WWrites(wb) /\ state_[wb] = "Saved"
  BY <1>1, <1>2 DEF WWrites, EInv, IInv, InRing
<1>4. /\ data_'[wb] = "null"
      /\ \A b \in Bulks : b # wb => data_'[b] = data_[b] /\ heap'[b] = heap[b]
  BY <1>1, <1>2 DEF DataTypes, EInv, IInv, RingTypes
<1>5. /\ wpc' \in {"releaseFront", "autosaved"}
      /\ wpc' = "releaseFront" => wleft > 0
  BY <1>1 DEF Persisted
<1>6. DataTypes'
  <2>1. <<>> \in Seq(Logs)
    OBVIOUS
  <2> QED
    BY <1>1, <2>1 DEF DataTypes
<1>7. Numbers'
  BY <1>1 DEF Numbers, Written
<1>8. Guarded'
  BY <1>1, <1>5 DEF Guarded
<1>9. Placed'
  BY <1>1, <1>3, <1>4 DEF Placed
<1>10. Contents'
  BY <1>1, <1>4 DEF Contents
<1>11. Indexes'
  <2>1. \A b \in Bulks : ~ WWrites(b)' /\ \A kind \in Kinds : ~ (kind \in Unsaved[wpc])
    BY <1>1, <1>5 DEF WWrites, Unsaved, Kinds, Tries
  <2> QED
    BY <1>1, <2>1 DEF Indexes, Indexed
<1>12. (Covered /\ Reading)'
  BY <1>1 DEF Covered, Reading, Consulted
<1>13. Ticks'
  BY <1>1, <1>5 DEF Ticks, SavePlaces, Kinds, Tries
<1> QED
  BY <1>6, <1>7, <1>8, <1>9, <1>10, <1>11, <1>12, <1>13

LEMMA ReleaseSpaceRecovers == RInv /\ ReleaseSpace => Recovery'
<1> SUFFICES ASSUME RInv, ReleaseSpace PROVE Recovery'
  OBVIOUS
<1> USE DEF RInv, Recovery
<1>1. /\ wpc = "release" /\ wpc' = "released" /\ ~ PReads(wb)
      /\ data_' = [data_ EXCEPT ![wb] = IF state_[wb] = "Saved" THEN @ ELSE "null"]
      /\ heap' = [heap EXCEPT ![wb] = IF state_[wb] = "Saved" THEN @ ELSE <<>>]
      /\ state_' = [state_ EXCEPT ![wb] = "Saved"]
      /\ index' = [index EXCEPT ![wb] = [kind \in Kinds |->
                       IF kind \in inMemory[wb] THEN <<>> ELSE @[kind]]]
      /\ inMemory' = [inMemory EXCEPT ![wb] = {}]
      /\ UNCHANGED <<bulks, slot_, offset_, size_, start_serial_, LogSerial, globalTrie,
                     buffer, handler, write_position_, read_position_, disk, releaseWheel,
                     autosaveWheel, ppc, query, todo, result, wb, wleft, asked, stored>>
  BY DEF ReleaseSpace, bulkVars, indexVars, ringVars, wheelVars, queryVars,
         wVars, outVars
<1>2. wb \in 1 .. bulks /\ wb \in Bulks /\ data_[wb] # "slot"
  BY <1>1, InFile DEF EInv, IInv, Wheels
(* What is not in the ring has been saved before. *)
<1>3. state_[wb] \in {"Saved", "InMemory"} /\ (wb = bulks => ppc \notin Appending)
  <2>1. state_[wb] \in States /\ state_[wb] # "Init"
    BY <1>2, Newest DEF Numbers, EInv, IInv, RingTypes
  <2>2. state_[wb] \notin {"Appending", "InQueue"}
    BY <1>2 DEF EInv, IInv, OpenBulk, Placed
  <2> QED
    BY <2>1, <2>2 DEF States, Guarded
<1>4. /\ state_'[wb] = "Saved" /\ inMemory'[wb] = {}
      /\ \A b \in Bulks : b # wb => /\ state_'[b] = state_[b] /\ data_'[b] = data_[b]
                                    /\ heap'[b] = heap[b] /\ index'[b] = index[b]
                                    /\ inMemory'[b] = inMemory[b]
  BY <1>1, <1>2 DEF DataTypes, EInv, IInv, RingTypes, Eviction
<1>5. data_'[wb] = "null"
  BY <1>1, <1>2 DEF EInv, IInv, RingTypes, Eviction, HeapIsRead, WWrites, Kinds, Tries
<1>6. DataTypes'
  <2>1. <<>> \in Seq(Logs) /\ <<>> \in Seq(Nat)
    OBVIOUS
  <2>2. heap' \in [Bulks -> Seq(Logs)]
    BY <1>1, <1>2, <2>1 DEF DataTypes
  <2>3. index' \in [Bulks -> [Kinds -> Seq(Nat)]]
    BY <1>1, <1>2, <2>1 DEF DataTypes
  <2> QED
    BY <1>1, <2>2, <2>3 DEF DataTypes
<1>7. Numbers'
  <2>1. \A b \in Bulks : state_'[b] \in {"InQueue", "InMemory", "Saved"} => size_[b] > 0
    BY <1>3, <1>4 DEF Numbers
  <2>2. \A b \in Bulks : state_'[b] = "Init" <=> b > bulks
    BY <1>2, <1>4, Newest DEF Numbers
  <2> QED
    BY <1>1, <2>1, <2>2 DEF Numbers, Written
<1>8. Guarded'
  BY <1>1, <1>3, <1>4, Newest DEF Guarded
<1>9. Placed'
  BY <1>4 DEF Placed
<1>10. Contents'
  BY <1>1, <1>3, <1>4, <1>5 DEF Contents
<1>11. Indexes'
  <2>1. \A b \in Bulks : ~ WWrites(b)' /\ ~ WWrites(b)
    BY <1>1 DEF WWrites, Kinds, Tries
  <2> QED
    BY <1>1, <1>3, <1>4, <2>1 DEF Indexes, Indexed
<1>12. Covered'
  BY <1>1 DEF Covered
<1>13. Reading'
  <2>1. ppc = "read" => Head(todo) \in Bulks /\ Head(todo) # wb
    BY <1>1, BulkRead DEF PReads
  <2> QED
    BY <1>1, <1>4, <2>1 DEF Reading, Consulted
<1>14. Ticks'
  BY <1>1 DEF Ticks, SavePlaces, Kinds, Tries
<1> QED
  BY <1>6, <1>7, <1>8, <1>9, <1>10, <1>11, <1>12, <1>13, <1>14

-----------------------------------------------------------------------------
(* The invariant holds throughout. *)
LEMMA InitRecovers == Init => RInv
<1> SUFFICES ASSUME Init PROVE RInv
  OBVIOUS
<1> USE DEF Init
<1>1. EInv /\ Running
  BY InitEvicts DEF Running
<1>2. 1 \in Bulks /\ 0 \in Names /\ 0 \in Slots /\ \A b \in Bulks : b \in Nat /\ b > 0
  BY Bounds DEF Bulks, Names, Slots
<1>3. <<>> \in Seq(Logs) /\ <<>> \in Seq(Nat)
  OBVIOUS
<1>4. DataTypes
  <2>1. /\ offset_ \in [Bulks -> 0 .. BulkSize] /\ size_ \in [Bulks -> 0 .. BulkSize]
        /\ start_serial_ \in [Bulks -> Names] /\ asked \in 0 .. MaxQueries
    BY <1>2, Bounds, StoreAssumption
  <2>2. ppc \notin {"visit", "read"}
    OBVIOUS
  <2> QED
    BY <1>3, <2>1, <2>2 DEF DataTypes, NoBulk
<1>5. \A b \in Bulks : offset_[b] = 0 /\ size_[b] = 0 /\ start_serial_[b] = 0
  OBVIOUS
<1>6. \A b \in Bulks : b > bulks <=> b # 1
  BY <1>2
<1>7. Numbered(0, 0) = <<>> /\ \A kind : Entries(kind, 0, 0) = <<>>
  <2> HIDE DEF Init
  <2>1. 0 \in Nat
    OBVIOUS
  <2>2. Numbered(0, 0) = <<>>
    BY ONLY <2>1, NumberedProperties
  <2>3. ASSUME NEW kind PROVE Entries(kind, 0, 0) = <<>>
    BY ONLY <2>1, EntriesProperties
  <2> QED
    BY <2>2, <2>3
<1>8. \A b \in Bulks : Written(b) = 0 /\ \A kind \in Kinds : Indexed(b, kind) = 0
  <2>1. ppc \notin {"index"} \cup Kinds /\ \A kind \in Kinds : ppc \notin Ahead[kind]
    BY AheadPlaces DEF Kinds, Tries
  <2> HIDE DEF Init
  <2> QED
    BY <1>5, <2>1 DEF Written, Indexed
<1>9. Numbers
  BY <1>2, <1>5, <1>6, <1>8 DEF Numbers
<1>10. Guarded
  BY DEF Guarded, Appending, Kinds, Tries
<1>11. Placed /\ Reading
  BY DEF Placed, Reading
<1>12. Contents
  BY <1>2, <1>5, <1>7 DEF Contents
<1>13. Indexes
  BY <1>5, <1>7, <1>8 DEF Indexes
<1>14. Covered
  BY <1>2, <1>5 DEF Covered
<1>15. Ticks
  BY DEF Ticks
<1> QED
  BY <1>1, <1>4, <1>9, <1>10, <1>11, <1>12, <1>13, <1>14, <1>15 DEF RInv, Recovery

LEMMA NextRecovers == RInv /\ [Next]_vars /\ ~ hit' => RInv'
<1> SUFFICES ASSUME RInv, [Next]_vars, ~ hit' PROVE RInv'
  OBVIOUS
<1>1. EInv'
  BY NextEvicts DEF RInv
<1>2. ~ (AppendToNull \/ ReadNothing \/ SaveNull)
  BY NoCrashes
<1>3. CASE ServeRequest \/ AppendCheck \/ StartQuery
  <2>1. Recovery'
    BY <1>2, <1>3, AppendCheckRecovers, StartQueryRecovers, AppendFullRecovers,
       AppendFitsRecovers, GetUnitRecovers, BindUnitRecovers, BuildCheckRecovers,
       BuildIndexRecovers, FinishAppendRecovers, VisitBulkRecovers, PassBulkRecovers,
       ReadBulkRecovers, FinishQueryRecovers
       DEF ServeRequest
  <2>2. Running'
    BY <1>2, <1>3, AfterBuildKinds
       DEF ServeRequest, AppendCheck, StartQuery, AppendFull, AppendFits, GetUnit, BindUnit,
           BuildCheck, BuildIndex, FinishAppend, VisitBulk, PassBulk, ReadBulk, FinishQuery,
           Running
  <2> QED
    BY <1>1, <2>1, <2>2 DEF RInv
<1>4. CASE Worker
  <2>1. Recovery'
    BY <1>2, <1>4, CheckQueueRecovers, FrontUnitRecovers, ReleaseFrontUnitRecovers,
       PersistenceCheckRecovers, SaveContentRecovers, SaveIndexRecovers, DetachRecovers,
       TickReleaseRecovers, PopReleaseRecovers, ReleaseSpaceRecovers, ForgetReleaseRecovers,
       TickAutosaveRecovers, PopAutosaveRecovers, ForgetAutosaveRecovers, SleepRecovers
       DEF Worker
  <2>2. ppc' = ppc
    BY <1>2, <1>4
       DEF Worker, CheckQueue, FrontUnit, ReleaseFrontUnit, PersistenceCheck, SaveContent,
           SaveIndex, Detach, TickRelease, PopRelease, ReleaseSpace, ForgetRelease,
           TickAutosave, PopAutosave, ForgetAutosave, Sleep
  <2> QED
    BY <1>1, <2>1, <2>2 DEF RInv, Running
<1>5. CASE UNCHANGED vars
  <2> USE DEF RInv, Recovery
  <2>1. /\ UNCHANGED <<bulks, state_, data_, slot_, heap, offset_, size_, start_serial_,
                LogSerial, index, inMemory, globalTrie, buffer, handler, write_position_,
                read_position_, disk, releaseWheel, autosaveWheel, ppc, query, todo,
                result, wpc, wb, wleft, asked, stored>>
    BY <1>5 DEF vars, bulkVars, indexVars, ringVars, wheelVars, queryVars,
         wVars, outVars
  <2>2. UNCHANGED answer /\ Running'
    BY <1>5 DEF Running, vars, outVars
  <2>3. (DataTypes /\ Numbers)'
    BY <2>1 DEF DataTypes, Numbers, Written
  <2>4. (Guarded /\ Placed /\ Contents /\ Covered /\ Ticks)'
    BY <2>1 DEF Guarded, Placed, Contents, Covered, Ticks
  <2>5. (Indexes /\ Reading)'
    BY <2>1 DEF Indexes, Indexed, WWrites, Reading, Consulted
  <2> QED
    BY <1>1, <2>2, <2>3, <2>4, <2>5
<1> QED
  BY <1>3, <1>4, <1>5 DEF Next

(* What an autosave has hit stays hit. *)
LEMMA HitStays == [Next]_vars /\ hit => hit'
<1> SUFFICES ASSUME [Next]_vars, hit PROVE hit'
  OBVIOUS
<1>1. CASE ServeRequest \/ AppendCheck \/ StartQuery
  BY <1>1
     DEF ServeRequest, AppendCheck, StartQuery, AppendFull, AppendToNull, AppendFits, GetUnit,
         BindUnit, BuildCheck, BuildIndex, FinishAppend, VisitBulk, PassBulk, ReadBulk,
         ReadNothing, FinishQuery, outVars
<1>2. CASE Worker
  BY <1>2
     DEF Worker, CheckQueue, FrontUnit, ReleaseFrontUnit, PersistenceCheck, SaveContent,
         SaveNull, SaveIndex, Detach, TickRelease, PopRelease, ReleaseSpace, ForgetRelease,
         TickAutosave, PopAutosave, ForgetAutosave, Sleep, outVars
<1>3. CASE UNCHANGED vars
  BY <1>3 DEF vars, outVars
<1> QED
  BY <1>1, <1>2, <1>3 DEF Next

RecoveryUntilHit == hit \/ RInv

LEMMA RecoveryInvariant == Spec => []RecoveryUntilHit
<1>1. Init => RecoveryUntilHit
  BY InitRecovers DEF RecoveryUntilHit
<1>2. RecoveryUntilHit /\ [Next]_vars => RecoveryUntilHit'
  BY NextRecovers, HitStays DEF RecoveryUntilHit
<1> QED
  BY <1>1, <1>2, PTL DEF Spec

(* Until an autosave hits an append, no step of either thread goes through *)
(* a null buffer or past the end of an index.                              *)
THEOREM StoreNeverCrashes == Spec => []NoCrash
<1>1. RecoveryUntilHit => NoCrash
  BY DEF RecoveryUntilHit, RInv, NoCrash
<1> QED
  BY <1>1, RecoveryInvariant, PTL

LEMMA RecoveryRecovers == RInv => Recoverable
<1> SUFFICES ASSUME RInv PROVE Recoverable
  OBVIOUS
<1> USE DEF RInv, Recovery
<1>1. ASSUME NEW b \in 1 .. bulks, b = bulks => ppc \notin Appending
      PROVE  /\ ReadableContent(b) = Held(b)
             /\ ReadableIndex(b) = [kind \in Kinds |-> IF kind = "offset" THEN Offsets(b)
                                                                        ELSE Held(b)]
  <2>1. b \in Bulks
    BY InFile
  <2>2. offset_[b] = size_[b] /\ \A kind \in Kinds : Indexed(b, kind) = size_[b]
    BY <1>1, <2>1, AheadPlaces, Newest DEF Numbers, Written, Indexed, Appending, Kinds, Tries
  <2>3. state_[b] \in {"Appending", "InQueue", "InMemory", "Saved"}
    BY <2>1, Newest DEF Numbers, EInv, IInv, RingTypes, States
  <2>4. /\ Held(b) = Numbered(start_serial_[b], size_[b])
        /\ \A kind \in Kinds : Entries(kind, start_serial_[b], size_[b])
                                  = IF kind = "offset" THEN Offsets(b) ELSE Held(b)
    BY DEF Held, Offsets, Numbered, Entries
  <2>5. ReadableContent(b) = Held(b)
    <3>1. CASE data_[b] = "slot"
      BY <2>1, <2>2, <2>4, <3>1 DEF ReadableContent, Content, Contents
    <3>2. CASE data_[b] # "slot"
      <4>1. state_[b] \in {"InMemory", "Saved"}
        BY <2>1, <2>3, <3>2 DEF EInv, IInv, OpenBulk, Placed
      <4> QED
        BY <2>1, <2>2, <2>4, <3>2, <4>1 DEF ReadableContent, Contents
    <3> QED
      BY <3>1, <3>2
  <2>6. ASSUME NEW kind \in Kinds
        PROVE  (IF kind \in Kinds \ inMemory[b] THEN disk[start_serial_[b]][kind]
                                                ELSE index[b][kind])
                 = Entries(kind, start_serial_[b], size_[b])
    BY <2>1, <2>2 DEF Indexes
  <2>7. ReadableIndex(b) = [kind \in Kinds |-> Entries(kind, start_serial_[b], size_[b])]
    BY <2>6 DEF ReadableIndex, WithLoaded
  <2> QED
    BY <2>4, <2>5, <2>7
<1>2. ASSUME NEW n \in 1 .. stored
      PROVE  \E b \in 1 .. bulks : start_serial_[b] < n /\ n <= start_serial_[b] + size_[b]
  <2>1. n \in 1 .. start_serial_[bulks] + size_[bulks]
    BY Newest DEF Numbers
  <2> QED
    BY <2>1 DEF Covered
<1> QED
  BY <1>1, <1>2 DEF Recoverable

(* Whatever the threads do between them, every stored log belongs to a     *)
(* bulk whose content and four indexes can be read back, from memory or    *)
(* from the files, and agree -- until an autosave hits an append.          *)
THEOREM StoreRecoverable == Spec => []Recoverable
<1>1. RecoveryUntilHit => Recoverable
  <2>1. hit => Recoverable
    BY DEF Recoverable
  <2> QED
    BY <2>1, RecoveryRecovers DEF RecoveryUntilHit
<1> QED
  BY <1>1, RecoveryInvariant, PTL

(* LogCount_log, asked between two requests, counts the logs stored, until *)
(* an autosave hits an append.                                             *)
THEOREM StoreCountsExactly == Spec => []CountExact
<1>1. RecoveryUntilHit => CountExact
  BY Newest DEF RecoveryUntilHit, RInv, Recovery, Numbers, CountExact, LogCount
<1> QED
  BY <1>1, RecoveryInvariant, PTL

LEMMA NextCloses ==
  ASSUME RInv, [Next]_vars, NEW b \in Bulks
  PROVE  /\ state_[b] \in {"InQueue", "Saved", "InMemory"} =>
                state_'[b] # "Appending" /\ offset_'[b] = offset_[b]
         /\ state_[b] \in {"Saved", "InMemory"} => state_'[b] # "InQueue"
<1> USE DEF RInv, Recovery
<1>1. state_ \in [Bulks -> States] /\ offset_ \in [Bulks -> 0 .. BulkSize]
  BY DEF DataTypes, EInv, IInv, RingTypes
<1>2. CASE AppendFull \/ AppendFits
  <2>1. state_[bulks] = "Appending"
    BY <1>2 DEF AppendFull, AppendFits, Guarded, Appending
  <2>2. /\ state_' = state_ \/ state_' = [state_ EXCEPT ![bulks] = "InQueue"]
        /\ offset_' = offset_ \/ offset_' = [offset_ EXCEPT ![bulks] = @ + 1]
    BY <1>2 DEF AppendFull, AppendFits, bulkVars
  <2> QED
    BY <1>1, <2>1, <2>2
<1>3. CASE BindUnit
  <2>1. state_' = [state_ EXCEPT ![bulks + 1] = "Appending"] /\ offset_' = offset_
    BY <1>3 DEF BindUnit, bulkVars
  <2>2. b = bulks + 1 => state_[b] = "Init"
    BY Newest DEF Numbers
  <2> QED
    BY <1>1, <2>1, <2>2
<1>4. CASE ReadBulk \/ SaveContent \/ ReleaseSpace
  <2>1. /\ offset_' = offset_
        /\ state_' = state_ \/ \E c, st : st \in {"InMemory", "Saved"}
                                          /\ state_' = [state_ EXCEPT ![c] = st]
    BY <1>4 DEF ReadBulk, SaveContent, ReleaseSpace, bulkVars
  <2> QED
    BY <1>1, <2>1
<1>5. CASE UNCHANGED <<state_, offset_>>
  BY <1>5
<1>6. \/ AppendFull \/ AppendFits \/ BindUnit \/ ReadBulk \/ SaveContent \/ ReleaseSpace
      \/ UNCHANGED <<state_, offset_>>
  <2>1. ~ (AppendToNull \/ ReadNothing \/ SaveNull)
    BY NoCrashes
  <2>2. CASE ServeRequest \/ AppendCheck \/ StartQuery \/ UNCHANGED vars
    BY <2>1, <2>2
       DEF ServeRequest, AppendCheck, StartQuery, GetUnit, BuildCheck, BuildIndex,
           FinishAppend, VisitBulk, PassBulk, FinishQuery, bulkVars, vars
  <2>3. CASE Worker
    BY <2>1, <2>3
       DEF Worker, CheckQueue, FrontUnit, ReleaseFrontUnit, PersistenceCheck, SaveIndex,
           Detach, TickRelease, PopRelease, ForgetRelease, TickAutosave, PopAutosave,
           ForgetAutosave, Sleep, bulkVars
  <2> QED
    BY <2>2, <2>3 DEF Next
<1> QED
  BY <1>2, <1>3, <1>4, <1>5, <1>6

(* A bulk that was closed takes no more logs, and one that was saved is    *)
(* never in the ring again, until an autosave hits an append.              *)
THEOREM StoreClosesForGood == Spec => ClosedForGood
<1> DEFINE Closes == \A b \in Bulks :
                 /\ state_[b] \in {"InQueue", "Saved", "InMemory"} =>
                       state_'[b] # "Appending" /\ offset_'[b] = offset_[b]
                 /\ state_[b] \in {"Saved", "InMemory"} => state_'[b] # "InQueue"
<1>1. RecoveryUntilHit /\ [Next]_vars => [hit \/ Closes]_vars
  BY NextCloses DEF RecoveryUntilHit
<1>2. Spec => [][hit \/ Closes]_vars
  <2> HIDE DEF Closes
  <2> QED
    BY <1>1, RecoveryInvariant, PTL DEF Spec
<1> QED
  BY <1>2 DEF ClosedForGood

-----------------------------------------------------------------------------
(* What the indexes lead to, and what a query has found of it.             *)
LogsOf(b) == start_serial_[b] + 1 .. start_serial_[b] + size_[b]

(* The global trie leads to every log, and names bulks oldest first.       *)
KeysLead ==
    /\ ppc = "global" => size_[bulks] > 0
    /\ \A k \in Keys :
          /\ Increasing(globalTrie[k], Len(globalTrie[k]))
          /\ \A n \in 1 .. stored : KeyOf(n) = k =>
                \E i \in 1 .. Len(globalTrie[k]) : n \in LogsOf(globalTrie[k][i])

(* The order in which a query visits bulks and finds logs. *)
Follows(m, n) == IF query.kind = "searchtime" THEN m < n ELSE n < m
InOrder(list) == \A i, j \in 1 .. Len(list) : i < j => Follows(list[i], list[j])

Asking == ppc \in {"visit", "read"}

(* A query by key or by words has found the logs of the bulks it has seen. *)
FoundByKey ==
    Asking /\ query.kind # "recent" =>
        /\ InOrder(todo) /\ InOrder(result)
        /\ \A i \in 1 .. Len(result) :
              /\ result[i] \in 1 .. stored /\ KeyOf(result[i]) = query.key
              /\ \A j \in 1 .. Len(todo) : \A n \in LogsOf(todo[j]) : Follows(result[i], n)
        /\ \A n \in 1 .. stored : KeyOf(n) = query.key =>
              \/ \E i \in 1 .. Len(result) : result[i] = n
              \/ \E j \in 1 .. Len(todo) : n \in LogsOf(todo[j])

(* A query for recent logs has found the last ones, down to some bulk.     *)
Upto(b) == IF b = 0 THEN 0 ELSE start_serial_[b] + size_[b]

FoundRecent ==
    Asking /\ query.kind = "recent" =>
        /\ \A i \in 1 .. Len(todo) : todo[i] = Len(todo) + 1 - i
        /\ Len(result) <= RecentCount /\ Len(result) <= stored
        /\ ppc = "read" => Len(result) < RecentCount
        /\ \A i \in 1 .. Len(result) : result[i] = stored + 1 - i
        /\ Len(result) < RecentCount => stored - Len(result) = Upto(Len(todo))

Found == KeysLead /\ FoundByKey /\ FoundRecent

FInv == RInv /\ Found

-----------------------------------------------------------------------------
(* A set of numbers is listed in ascending order in one way only. *)
Onto(list, n, S) == \A x \in S : \E i \in 1 .. n : list[i] = x

LEMMA AscendingOnto ==
  ASSUME NEW n \in Nat, NEW S \in SUBSET (0 .. n - 1)
  PROVE  Onto(Ascending(S), Cardinality(S), S)
<1> DEFINE c == Cardinality(S)
           list == Ascending(S)
<1>1. /\ IsFiniteSet(S) /\ c \in Nat /\ list \in [1 .. c -> S] /\ Increasing(list, c)
  BY AscendingProperties
<1>2. Cardinality(1 .. c) = c
  BY <1>1, FS_Interval
<1> HIDE DEF c, list
<1>3. list \in Injection(1 .. c, S)
  <2>1. ASSUME NEW i \in 1 .. c, NEW j \in 1 .. c, list[i] = list[j] PROVE i = j
    <3>1. list[i] \in Nat /\ list[j] \in Nat
      <4>1. S \subseteq Nat
        OBVIOUS
      <4>2. list[i] \in S /\ list[j] \in S
        BY <1>1
      <4> QED
        BY <4>1, <4>2
    <3>2. ~ i < j /\ ~ j < i
      BY <1>1, <2>1, <3>1 DEF Increasing
    <3> QED
      BY <1>1, <3>2
  <2> QED
    BY <1>1, <2>1 DEF Injection, IsInjective
<1>4. list \in Surjection(1 .. c, S)
  BY <1>1, <1>2, <1>3, FS_Injection DEF c
<1> QED
  BY <1>4 DEF Surjection, Onto, c, list

LEMMA SameList ==
  ASSUME NEW S \in SUBSET Nat, NEW m \in Nat, NEW n \in Nat,
         NEW f \in [1 .. m -> S], NEW g \in [1 .. n -> S],
         Increasing(f, m), Increasing(g, n), Onto(f, m, S), Onto(g, n, S)
  PROVE  m = n /\ f = g
<1> DEFINE Differ == {i \in 1 .. m : i > n \/ f[i] # g[i]}
<1>1. CASE Differ = {}
  <2>1. \A i \in 1 .. m : i \in 1 .. n /\ f[i] = g[i]
    BY <1>1
  <2>2. ~ m < n
    <3> SUFFICES ASSUME m < n PROVE FALSE
      OBVIOUS
    <3>1. m + 1 \in 1 .. n /\ g[m + 1] \in S
      OBVIOUS
    <3>2. PICK j \in 1 .. m : f[j] = g[m + 1]
      BY <3>1 DEF Onto
    <3>3. g[j] = g[m + 1] /\ j < m + 1 /\ j \in 1 .. n
      BY <2>1, <3>2
    <3>4. g[j] < g[m + 1] /\ g[j] \in Nat
      BY <3>1, <3>3 DEF Increasing
    <3> QED
      BY <3>3, <3>4
  <2>3. ~ n < m
    BY <2>1
  <2>4. m = n
    BY <2>2, <2>3
  <2> QED
    BY <2>1, <2>4
<1>2. CASE Differ # {}
  <2>1. PICK i \in Differ : \A j \in Differ : ~ j < i
    <3>1. Differ \in SUBSET Nat
      OBVIOUS
    <3> HIDE DEF Differ
    <3> QED
      BY <1>2, <3>1, Least
  <2>2. i \in 1 .. m /\ (i > n \/ f[i] # g[i]) /\ f[i] \in S /\ f[i] \in Nat
    OBVIOUS
  <2>3. \A j \in 1 .. i - 1 : j \in 1 .. m /\ j \in 1 .. n /\ f[j] = g[j]
    <3> SUFFICES ASSUME NEW j \in 1 .. i - 1 PROVE j \in 1 .. m /\ j \in 1 .. n /\ f[j] = g[j]
      OBVIOUS
    <3>1. j \in 1 .. m /\ j \notin Differ
      BY <2>1, <2>2
    <3> QED
      BY <3>1
  <2> HIDE DEF Differ
  <2>4. PICK j \in 1 .. n : g[j] = f[i]
    BY <2>2 DEF Onto
  <2>5. ~ j < i
    <3> SUFFICES ASSUME j < i PROVE FALSE
      OBVIOUS
    <3>1. j \in 1 .. m /\ f[j] = f[i] /\ f[j] < f[i]
      BY <2>2, <2>3, <2>4 DEF Increasing
    <3> QED
      BY <2>2, <3>1
  <2>6. i \in 1 .. n /\ f[i] # g[i] /\ i < j /\ g[i] < f[i] /\ g[i] \in S /\ g[i] \in Nat
    <3>1. i \in 1 .. n
      BY <2>2, <2>4, <2>5
    <3>2. i < j /\ f[i] # g[i]
      BY <2>2, <2>4, <2>5, <3>1
    <3>3. g[i] < g[j]
      BY <3>1, <3>2 DEF Increasing
    <3>4. g[i] \in S /\ g[i] \in Nat
      BY <3>1
    <3> QED
      BY <2>4, <3>1, <3>2, <3>3, <3>4
  <2>7. PICK l \in 1 .. m : f[l] = g[i]
    BY <2>6 DEF Onto
  <2>8. l < i
    <3> SUFFICES ASSUME ~ l < i PROVE FALSE
      OBVIOUS
    <3>1. l = i \/ i < l
      BY <2>2
    <3>2. i < l => f[i] < f[l]
      BY <2>2 DEF Increasing
    <3> QED
      BY <2>2, <2>6, <2>7, <3>1, <3>2
  <2>9. g[l] = g[i] /\ l \in 1 .. n
    BY <2>2, <2>3, <2>7, <2>8
  <2> QED
    BY <2>6, <2>8, <2>9 DEF Increasing
<1> QED
  BY <1>1, <1>2

(* So an increasing list of a set is Ascending. *)
LEMMA AscendingIs ==
  ASSUME NEW n \in Nat, NEW S \in SUBSET (0 .. n - 1), NEW list \in Seq(S),
         Increasing(list, Len(list)), Onto(list, Len(list), S)
  PROVE  list = Ascending(S)
<1>1. S \in SUBSET Nat
  OBVIOUS
<1>2. Len(list) \in Nat /\ list \in [1 .. Len(list) -> S]
  BY LenProperties
<1>3. /\ Cardinality(S) \in Nat /\ Ascending(S) \in [1 .. Cardinality(S) -> S]
      /\ Increasing(Ascending(S), Cardinality(S))
  BY AscendingProperties
<1>4. Onto(Ascending(S), Cardinality(S), S)
  BY AscendingOnto
<1> QED
  BY <1>1, <1>2, <1>3, <1>4, SameList

LEMMA ReverseProperties ==
  ASSUME NEW S, NEW list \in Seq(S)
  PROVE  /\ Reverse(list) \in Seq(S) /\ Len(Reverse(list)) = Len(list)
         /\ \A i \in 1 .. Len(list) : /\ Len(list) - i + 1 \in 1 .. Len(list)
                                      /\ Reverse(list)[i] = list[Len(list) - i + 1]
         /\ Reverse(Reverse(list)) = list
<1>1. Len(list) \in Nat /\ Reverse(list) \in Seq(S)
  BY LenProperties, ReverseType
<1>2. Len(Reverse(list)) = Len(list)
  BY <1>1 DEF Reverse
<1>3. \A i \in 1 .. Len(list) : /\ Len(list) - i + 1 \in 1 .. Len(list)
                                /\ Reverse(list)[i] = list[Len(list) - i + 1]
  BY <1>1 DEF Reverse
<1>4. Reverse(Reverse(list)) = list
  <2> DEFINE rev == Reverse(list)
             back == Reverse(rev)
  <2>1. back \in Seq(S) /\ Len(back) = Len(list)
    BY <1>1, <1>2, ReverseType DEF Reverse
  <2>2. ASSUME NEW i \in 1 .. Len(list) PROVE back[i] = list[i]
    <3>1. back[i] = rev[Len(list) - i + 1]
      BY <1>1, <1>2 DEF Reverse
    <3>2. rev[Len(list) - i + 1] = list[Len(list) - (Len(list) - i + 1) + 1]
      BY <1>3
    <3>3. Len(list) - (Len(list) - i + 1) + 1 = i
      BY <1>1
    <3> QED
      BY <3>1, <3>2, <3>3
  <2> HIDE DEF back
  <2> QED
    BY <2>1, <2>2, SeqEqual DEF back
<1> QED
  BY <1>1, <1>2, <1>3, <1>4

(* A list that decreases increases when reversed. *)
LEMMA ReverseIncreases ==
  ASSUME NEW S \in SUBSET Nat, NEW list \in Seq(S)
  PROVE  /\ (\A i, j \in 1 .. Len(list) : i < j => list[j] < list[i])
               <=> Increasing(Reverse(list), Len(list))
         /\ Onto(list, Len(list), S) <=> Onto(Reverse(list), Len(list), S)
<1> DEFINE n == Len(list)
           rev == Reverse(list)
<1>1. n \in Nat /\ Len(rev) = n
  BY LenProperties, ReverseProperties
<1>2. \A i \in 1 .. n : n - i + 1 \in 1 .. n /\ rev[i] = list[n - i + 1]
  BY ReverseProperties
<1>3. \A i \in 1 .. n : n - i + 1 \in 1 .. n /\ list[i] = rev[n - i + 1]
  <2> SUFFICES ASSUME NEW i \in 1 .. n PROVE n - i + 1 \in 1 .. n /\ list[i] = rev[n - i + 1]
    OBVIOUS
  <2>1. n - i + 1 \in 1 .. n /\ n - (n - i + 1) + 1 = i
    BY <1>1
  <2> QED
    BY <1>2, <2>1
<1>4. \A i, j \in 1 .. n : i < j => n - j + 1 < n - i + 1
  BY <1>1
<1> HIDE DEF n, rev
<1>5. ASSUME \A i, j \in 1 .. n : i < j => list[j] < list[i],
             NEW i \in 1 .. n, NEW j \in 1 .. n, i < j
      PROVE  rev[i] < rev[j]
  BY <1>2, <1>4, <1>5
<1>6. ASSUME Increasing(rev, n), NEW i \in 1 .. n, NEW j \in 1 .. n, i < j
      PROVE  list[j] < list[i]
  BY <1>3, <1>4, <1>6 DEF Increasing
<1>7. Onto(list, n, S) <=> Onto(rev, n, S)
  <2>1. ASSUME NEW x \in S, NEW i \in 1 .. n, list[i] = x PROVE \E j \in 1 .. n : rev[j] = x
    BY <1>3, <2>1
  <2>2. ASSUME NEW x \in S, NEW i \in 1 .. n, rev[i] = x PROVE \E j \in 1 .. n : list[j] = x
    BY <1>2, <2>2
  <2> QED
    BY <2>1, <2>2 DEF Onto
<1>8. (\A i, j \in 1 .. n : i < j => list[j] < list[i]) <=> Increasing(rev, n)
  <2>1. ASSUME \A i, j \in 1 .. n : i < j => list[j] < list[i]
        PROVE  Increasing(rev, n)
    BY <1>5, <2>1 DEF Increasing
  <2>2. ASSUME Increasing(rev, n)
        PROVE  \A i, j \in 1 .. n : i < j => list[j] < list[i]
    BY <1>6, <2>2
  <2> QED
    BY <2>1, <2>2
<1> QED
  BY <1>7, <1>8 DEF n, rev

-----------------------------------------------------------------------------
(* The logs of the bulks, one bulk behind the other. *)
LEMMA Serial ==
  ASSUME RInv, NEW b \in 1 .. bulks
  PROVE  /\ b \in Bulks /\ b \in Nat /\ b > 0
         /\ start_serial_[b] \in Nat /\ size_[b] \in Nat
         /\ \A n \in LogsOf(b) : /\ n \in Nat /\ start_serial_[b] < n
                                 /\ n <= start_serial_[b] + size_[b]
  BY InFile, Newest DEF LogsOf

(* No bulk holds a log that is not stored, but while one is being appended. *)
LEMMA InStored ==
  ASSUME RInv, ppc # "global", NEW b \in 1 .. bulks
  PROVE  LogsOf(b) \subseteq 1 .. stored
<1>1. start_serial_[b] + size_[b] <= stored
  <2>1. start_serial_[b] + size_[b] <= stored + (IF ppc = "global" THEN 1 ELSE 0)
    BY InFile
  <2>2. stored \in Nat
    BY Newest
  <2> QED
    BY <2>1, <2>2
<1>2. stored \in Nat /\ start_serial_[b] \in Nat /\ size_[b] \in Nat
  BY Newest, Serial
<1> QED
  BY <1>1, <1>2 DEF LogsOf

LEMMA BulksInOrder ==
  ASSUME RInv, NEW b \in 1 .. bulks, NEW c \in 1 .. bulks, b < c,
         NEW m \in LogsOf(b), NEW n \in LogsOf(c)
  PROVE  m < n
<1>1. start_serial_[b] + size_[b] <= start_serial_[c]
  BY DEF RInv, Recovery, Numbers
<1>2. m \in Nat /\ m <= start_serial_[b] + size_[b] /\ start_serial_[c] < n
  BY Serial
<1> QED
  BY <1>1, <1>2, Serial

LEMMA FollowsLogs ==
  ASSUME RInv, NEW b \in 1 .. bulks, NEW c \in 1 .. bulks, Follows(b, c),
         NEW m \in LogsOf(b), NEW n \in LogsOf(c)
  PROVE  Follows(m, n)
  BY BulksInOrder DEF Follows

(* No number is left out between two bulks. *)
LEMMA Adjacent ==
  ASSUME RInv, NEW b \in 1 .. bulks
  PROVE  start_serial_[b] = Upto(b - 1)
<1> USE DEF RInv, Recovery
<1>1. /\ bulks \in Nat
      /\ \A c \in 1 .. bulks : /\ c \in Nat /\ c > 0
                               /\ start_serial_[c] \in Nat /\ size_[c] \in Nat
  BY Serial, Newest
<1>2. \A c, d \in 1 .. bulks : c < d => start_serial_[c] + size_[c] <= start_serial_[d]
  BY DEF Numbers
<1>3. ASSUME start_serial_[b] > 0
      PROVE  /\ b > 1
             /\ start_serial_[b] <= start_serial_[b - 1] + size_[b - 1]
  <2> DEFINE n == start_serial_[b]
  <2>1. n \in 1 .. start_serial_[bulks] + size_[bulks]
    <3>1. bulks \in 1 .. bulks /\ (b = bulks \/ b < bulks)
      BY Newest
    <3>2. n <= start_serial_[bulks]
      BY <1>1, <1>2, <3>1
    <3> QED
      BY <1>1, <1>3, <3>1, <3>2
  <2>2. PICK c \in 1 .. bulks : start_serial_[c] < n /\ n <= start_serial_[c] + size_[c]
    BY <2>1 DEF Covered
  <2>3. c < b
    BY <1>1, <1>2, <2>2
  <2>4. b - 1 \in 1 .. bulks /\ (c = b - 1 \/ c < b - 1)
    BY <1>1, <2>3
  <2>5. start_serial_[c] + size_[c] <= start_serial_[b - 1] + size_[b - 1]
    BY <1>1, <1>2, <2>4
  <2> HIDE DEF n
  <2> QED
    BY <1>1, <2>2, <2>3, <2>4, <2>5 DEF n
<1>4. CASE b = 1
  <2>1. start_serial_[b] = 0
    BY <1>1, <1>3, <1>4
  <2> QED
    BY <1>4, <2>1 DEF Upto
<1>5. CASE b # 1
  <2>1. b - 1 \in 1 .. bulks /\ b - 1 # 0 /\ b - 1 < b
    BY <1>1, <1>5
  <2>2. start_serial_[b - 1] + size_[b - 1] <= start_serial_[b]
    BY <1>2, <2>1
  <2>3. start_serial_[b] <= start_serial_[b - 1] + size_[b - 1]
    BY <1>1, <1>3, <2>1, <2>2
  <2>4. start_serial_[b] = start_serial_[b - 1] + size_[b - 1]
    BY <1>1, <2>1, <2>2, <2>3
  <2> QED
    BY <2>1, <2>4 DEF Upto
<1> QED
  BY <1>4, <1>5

LEMMA QueryTypes ==
  ASSUME RInv
  PROVE  /\ todo \in Seq(1 .. bulks) /\ Len(todo) \in Nat
         /\ result \in Seq(Logs) /\ Len(result) \in Nat
         /\ \A i \in 1 .. Len(result) : result[i] \in Nat
         /\ \A i \in 1 .. Len(todo) : todo[i] \in 1 .. bulks
         /\ Asking => query.kind \in QueryKinds /\ query.key \in Keys
         /\ stored \in Nat
<1>1. todo \in Seq(1 .. bulks) /\ result \in Seq(Logs)
  BY DEF RInv, EInv, IInv, RingTypes, Recovery, DataTypes
<1>2. \A i \in 1 .. Len(result) : result[i] \in Logs
  BY <1>1, ElementOfSeq
<1>3. \A n \in Logs : n \in Nat
  BY Bounds DEF Logs
<1>4. Asking => query.kind \in QueryKinds /\ query.key \in Keys
  BY DEF Asking, RInv, Recovery, DataTypes
<1> QED
  BY <1>1, <1>2, <1>3, <1>4, LenProperties, ElementOfSeq, Newest

(* What a query by key or by words asks of a bulk: all serials of the key, *)
(* in the order of the query. *)
LEMMA SerialsInOrder ==
  ASSUME RInv, ppc = "read", query.kind # "recent", NEW b, b = Head(todo)
  PROVE  LET S == Matching(start_serial_[b], size_[b], query.key)
         IN  /\ Serials(b) \in Seq(S) /\ InOrder(Serials(b)) /\ Onto(Serials(b), Len(Serials(b)), S)
             /\ S \in SUBSET Nat
<1> DEFINE S == Matching(start_serial_[b], size_[b], query.key)
           m == Ascending(S)
<1>1. b \in Bulks /\ query.kind \in QueryKinds
  BY BulkRead DEF RInv, Recovery, DataTypes
<1>2. start_serial_[b] \in Nat /\ size_[b] \in Nat
  BY <1>1, Newest
<1>3. S \in SUBSET (0 .. size_[b] - 1) /\ S \in SUBSET Nat
  BY DEF Matching
<1>4. m \in Seq(S) /\ Increasing(m, Len(m)) /\ Onto(m, Len(m), S)
  BY <1>2, <1>3, AscendingProperties, AscendingOnto
<1>5. /\ query.kind \in {"getkey", "search"} => Serials(b) = Reverse(m)
      /\ query.kind = "searchtime" => Serials(b) = m
  BY SerialsRead
<1> HIDE DEF S, m
<1>6. CASE query.kind = "searchtime"
  BY <1>3, <1>4, <1>5, <1>6 DEF InOrder, Follows, Increasing, S
<1>7. CASE query.kind # "searchtime"
  <2> DEFINE rev == Reverse(m)
  <2>1. Serials(b) = rev
    BY <1>1, <1>5, <1>7 DEF QueryKinds
  <2>2. rev \in Seq(S) /\ Len(rev) = Len(m) /\ Reverse(rev) = m
    BY <1>4, ReverseProperties
  <2> HIDE DEF rev
  <2>3. /\ \A i, j \in 1 .. Len(rev) : i < j => rev[j] < rev[i]
        /\ Onto(rev, Len(rev), S)
    BY <1>3, <1>4, <2>2, ReverseIncreases
  <2> QED
    BY <1>3, <1>7, <2>1, <2>2, <2>3 DEF InOrder, Follows, S
<1> QED
  BY <1>6, <1>7

-----------------------------------------------------------------------------
(* Steps that leave the queries alone. *)
LEMMA StillLead ==
  ASSUME FInv, UNCHANGED <<globalTrie, stored>>, ppc' = "global" => size_'[bulks'] > 0,
         \A b \in 1 .. bulks : start_serial_'[b] = start_serial_[b] /\ size_'[b] \in Nat
                               /\ size_[b] <= size_'[b]
  PROVE  KeysLead'
<1> USE DEF FInv, Found
<1>1. ASSUME NEW k \in Keys, NEW i \in 1 .. Len(globalTrie[k]), NEW n \in LogsOf(globalTrie[k][i])
      PROVE  n \in LogsOf(globalTrie[k][i])'
  <2> DEFINE b == globalTrie[k][i]
  <2>1. b \in 1 .. bulks
    <3>1. globalTrie[k] \in Seq(1 .. bulks)
      BY DEF RInv, EInv, IInv, RingTypes
    <3> QED
      BY <3>1, ElementOfSeq
  <2>2. n \in start_serial_[b] + 1 .. start_serial_[b] + size_[b]
    BY <1>1 DEF LogsOf
  <2>3. start_serial_[b] \in Nat /\ size_[b] \in Nat
    BY <2>1, Serial
  <2>4. start_serial_'[b] = start_serial_[b] /\ size_'[b] \in Nat /\ size_[b] <= size_'[b]
    BY <2>1
  <2>5. n \in start_serial_'[b] + 1 .. start_serial_'[b] + size_'[b]
    BY <2>2, <2>3, <2>4
  <2> QED
    BY <2>5 DEF LogsOf
<1> QED
  BY <1>1 DEF KeysLead

LEMMA NotAsking == ppc' \notin {"visit", "read"} => (FoundByKey /\ FoundRecent)'
  BY DEF FoundByKey, FoundRecent, Asking

LEMMA Unasked ==
  ASSUME FInv, UNCHANGED <<bulks, start_serial_, size_, globalTrie, ppc, query, todo, result,
                           stored>>
  PROVE  Found'
  BY DEF FInv, Found, KeysLead, FoundByKey, FoundRecent, Asking, InOrder, Follows, LogsOf, Upto

LEMMA AppendsFind ==
  FInv /\ (AppendCheck \/ AppendFull \/ AppendFits \/ GetUnit \/ BindUnit \/ BuildCheck
             \/ BuildIndex)
    => Found'
<1> SUFFICES ASSUME FInv, AppendCheck \/ AppendFull \/ AppendFits \/ GetUnit \/ BindUnit
                            \/ BuildCheck \/ BuildIndex
             PROVE  Found'
  OBVIOUS
<1> USE DEF FInv
<1>1. UNCHANGED <<globalTrie, stored>> /\ ppc' \notin {"visit", "read"}
  BY AfterBuildKinds
     DEF AppendCheck, AppendFull, AppendFits, GetUnit, BindUnit, BuildCheck, BuildIndex, bulkVars, indexVars, ringVars, wheelVars, queryVars,
         wVars, outVars,
         Kinds, Tries
<1>2. /\ \A b \in 1 .. bulks : start_serial_'[b] = start_serial_[b]
      /\ \A b \in 1 .. bulks : size_'[b] \in Nat /\ size_[b] <= size_'[b]
      /\ ppc' = "global" => size_'[bulks'] > 0
  <2>1. CASE AppendCheck \/ AppendFull \/ AppendFits \/ BuildCheck \/ BindUnit
    <3>1. UNCHANGED <<start_serial_, size_>>
      BY <2>1 DEF AppendCheck, AppendFull, AppendFits, BuildCheck, BindUnit, bulkVars, indexVars, ringVars, wheelVars, queryVars,
         wVars, outVars
    <3>2. ppc' # "global"
      BY <2>1 DEF AppendCheck, AppendFull, AppendFits, BuildCheck, BindUnit, TakesLogs,
                  RInv, Recovery, Guarded, Appending
    <3> QED
      BY <3>1, <3>2, Serial
  <2>2. CASE GetUnit
    <3>1. /\ start_serial_' = [start_serial_ EXCEPT ![bulks + 1] = LogSerial']
          /\ size_' = size_ /\ ppc' = "bind"
      BY <2>2 DEF GetUnit
    <3>2. start_serial_ \in [Bulks -> Names]
      BY DEF RInv, Recovery, DataTypes
    <3>3. \A b \in 1 .. bulks : b \in Bulks /\ b # bulks + 1
      BY Serial, Newest
    <3> QED
      BY <3>1, <3>2, <3>3, Serial
  <2>3. CASE BuildIndex
    <3>1. /\ start_serial_' = start_serial_ /\ bulks' = bulks
          /\ \/ size_' = size_ /\ ppc' # "global"
             \/ size_' = [size_ EXCEPT ![bulks] = @ + 1]
      <4>1. ppc \in Kinds /\ (ppc # "timestamp" => AfterBuild[ppc] # "global")
        BY <2>3 DEF BuildIndex, AfterBuild, Kinds, Tries
      <4> QED
        BY <2>3, <4>1 DEF BuildIndex
    <3>2. size_ \in [Bulks -> 0 .. BulkSize] /\ bulks \in 1 .. bulks /\ BulkSize \in Nat
      BY Newest, Bounds DEF RInv, Recovery, DataTypes
    <3>3. size_[bulks] \in Nat /\ \A b \in 1 .. bulks : b \in Bulks /\ size_[b] \in Nat
      BY Serial, Newest
    <3>4. \/ size_' = size_ /\ ppc' # "global"
          \/ size_'[bulks] = size_[bulks] + 1 /\ \A b \in Bulks : b # bulks => size_'[b] = size_[b]
      BY <3>1, <3>2, <3>3
    <3> QED
      BY <3>1, <3>3, <3>4
  <2> QED
    BY <2>1, <2>2, <2>3
<1>3. KeysLead'
  BY <1>1, <1>2, StillLead
<1> QED
  BY <1>1, <1>3, NotAsking DEF Found

(* Add_key_global_trie: the bulk of the log is there, or comes last. *)
LEMMA FinishAppendFinds == FInv /\ FinishAppend => Found'
<1> SUFFICES ASSUME FInv, FinishAppend PROVE Found'
  OBVIOUS
<1> USE DEF FInv
<1> DEFINE key == KeyOf(NewLog)
           list == globalTrie[key]
<1>1. /\ ppc = "global" /\ ppc' = "idle" /\ stored' = stored + 1
      /\ globalTrie' = [globalTrie EXCEPT ![key] = AddedToGlobal(list, bulks)]
      /\ UNCHANGED <<bulks, state_, data_, slot_, heap, offset_, size_, start_serial_,
                     LogSerial, index, inMemory, buffer, handler, write_position_,
                     read_position_, disk, releaseWheel, autosaveWheel, query, todo,
                     result, wpc, wb, wleft, asked>>
  BY DEF FinishAppend, bulkVars, indexVars, ringVars, wheelVars, queryVars,
         wVars, outVars
<1>2. stored \in Nat /\ stored + 1 \in 1 .. MaxLogs /\ bulks \in 1 .. bulks /\ bulks \in Nat
  BY <1>1, Newest, Bounds DEF RInv, EInv, IInv, RingTypes, BulkCount
<1>3. key \in Keys
  BY <1>2, StoreAssumption DEF NewLog
<1>4. globalTrie \in [Keys -> Seq(1 .. bulks)]
  BY DEF RInv, EInv, IInv, RingTypes
<1>5. list \in Seq(1 .. bulks) /\ Len(list) \in Nat /\ Increasing(list, Len(list))
      /\ \A i \in 1 .. Len(list) : list[i] \in 1 .. bulks
  BY <1>3, <1>4, LenProperties, ElementOfSeq DEF Found, KeysLead
<1>6. stored + 1 \in LogsOf(bulks)
  <2>1. start_serial_[bulks] + size_[bulks] = stored + 1 /\ size_[bulks] > 0
    BY <1>1 DEF RInv, Recovery, Numbers, Found, KeysLead
  <2> QED
    BY <1>2, <2>1, Serial DEF LogsOf
<1>7. /\ globalTrie'[key] = AddedToGlobal(list, bulks)
      /\ \A k \in Keys : k # key => globalTrie'[k] = globalTrie[k]
  BY <1>1, <1>3, <1>4
<1> HIDE DEF list
<1> DEFINE longer == AddedToGlobal(list, bulks)
<1>8. /\ longer \in Seq(1 .. bulks) /\ Increasing(longer, Len(longer))
      /\ \A i \in 1 .. Len(list) : i \in 1 .. Len(longer) /\ longer[i] = list[i]
      /\ Len(longer) \in 1 .. Len(longer) /\ longer[Len(longer)] = bulks
  <2>1. CASE list # <<>> /\ Last(list) = bulks
    <3>1. longer = list
      BY <2>1 DEF AddedToGlobal
    <3>2. Len(list) > 0
      BY <1>5, <2>1, EmptySeq
    <3> HIDE DEF longer
    <3> QED
      BY <1>5, <2>1, <3>1, <3>2 DEF Last
  <2>2. CASE ~ (list # <<>> /\ Last(list) = bulks)
    <3>1. longer = Append(list, bulks)
      BY <2>2 DEF AddedToGlobal
    <3>2. /\ longer \in Seq(1 .. bulks) /\ Len(longer) = Len(list) + 1
          /\ \A i \in 1 .. Len(list) : longer[i] = list[i]
          /\ longer[Len(list) + 1] = bulks
      BY <1>2, <1>5, <3>1, AppendProperties
    <3>3. \A i \in 1 .. Len(list) : list[i] < bulks
      <4> SUFFICES ASSUME NEW i \in 1 .. Len(list) PROVE list[i] < bulks
        OBVIOUS
      <4>1. list # <<>> /\ Len(list) \in 1 .. Len(list)
        BY <1>5, EmptySeq
      <4>2. list[Len(list)] # bulks /\ list[Len(list)] \in 1 .. bulks
        BY <1>5, <2>2, <4>1 DEF Last
      <4>3. i = Len(list) \/ list[i] < list[Len(list)]
        BY <1>5, <4>1 DEF Increasing
      <4> QED
        BY <1>2, <1>5, <4>2, <4>3
    <3> HIDE DEF longer
    <3>4. Increasing(longer, Len(longer))
      <4> SUFFICES ASSUME NEW i \in 1 .. Len(list) + 1, NEW j \in 1 .. Len(list) + 1, i < j
                   PROVE  longer[i] < longer[j]
        BY <3>2 DEF Increasing
      <4>1. i \in 1 .. Len(list) /\ (j \in 1 .. Len(list) \/ j = Len(list) + 1)
        BY <1>5
      <4> QED
        BY <1>5, <3>2, <3>3, <4>1 DEF Increasing
    <3> QED
      BY <1>5, <3>2, <3>4
  <2> QED
    BY <2>1, <2>2
<1> HIDE DEF longer, key
<1>9. ASSUME NEW k \in Keys, NEW n \in 1 .. stored + 1, KeyOf(n) = k
       PROVE  \E i \in 1 .. Len(globalTrie'[k]) : n \in LogsOf(globalTrie'[k][i])
  <2>1. CASE n = stored + 1
    <3>1. k = key
      BY <1>9, <2>1 DEF key, NewLog
    <3> QED
      BY <1>6, <1>7, <1>8, <2>1, <3>1 DEF longer
  <2>2. CASE n # stored + 1
    <3>1. n \in 1 .. stored
      BY <1>2, <2>2
    <3>2. PICK i \in 1 .. Len(globalTrie[k]) : n \in LogsOf(globalTrie[k][i])
      BY <1>9, <3>1 DEF Found, KeysLead
    <3>5. CASE k = key
      <4>1. globalTrie[k] = list /\ globalTrie'[k] = longer
        BY <1>7, <3>5 DEF longer, list
      <4>2. i \in 1 .. Len(longer) /\ longer[i] = list[i]
        BY <1>8, <4>1
      <4> QED
        BY <3>2, <4>1, <4>2
    <3>6. CASE k # key
      BY <1>7, <3>2, <3>6
    <3> QED
      BY <3>5, <3>6
  <2> QED
    BY <2>1, <2>2
<1>10. ASSUME NEW k \in Keys PROVE Increasing(globalTrie'[k], Len(globalTrie'[k]))
  <2>1. CASE k = key
    BY <1>7, <1>8, <2>1 DEF longer
  <2>2. CASE k # key
    BY <1>7, <2>2 DEF Found, KeysLead
  <2> QED
    BY <2>1, <2>2
<1>11. KeysLead'
  <2>1. \A b : LogsOf(b)' = LogsOf(b)
    BY <1>1 DEF LogsOf
  <2> QED
    BY <1>1, <1>9, <1>10 DEF KeysLead, LogsOf
<1> QED
  BY <1>1, <1>11, NotAsking DEF Found

-----------------------------------------------------------------------------
(* The steps of a query. *)
LEMMA ToVisitProperties ==
  ASSUME FInv, ppc = "idle", NEW kind \in QueryKinds, NEW k \in Keys, NEW t, t = ToVisit(kind, k)
  PROVE  /\ t \in Seq(1 .. bulks) /\ Len(t) \in Nat
         /\ kind = "searchtime" => \A i, j \in 1 .. Len(t) : i < j => t[i] < t[j]
         /\ kind # "searchtime" => \A i, j \in 1 .. Len(t) : i < j => t[j] < t[i]
         /\ kind # "recent" => \A n \in 1 .. stored : KeyOf(n) = k =>
               \E i \in 1 .. Len(t) : n \in LogsOf(t[i])
         /\ kind = "recent" => Len(t) = bulks /\ \A i \in 1 .. bulks : t[i] = bulks + 1 - i
<1> USE DEF FInv
<1> DEFINE list == IF kind \in {"getkey", "searchtime"} THEN globalTrie[k]
                                                        ELSE [b \in 1 .. bulks |-> b]
<1>1. bulks \in Nat /\ bulks > 0 /\ 1 .. bulks \in SUBSET Nat
  BY Newest
<1>2. /\ list \in Seq(1 .. bulks) /\ Increasing(list, Len(list))
      /\ \A n \in 1 .. stored : KeyOf(n) = k => \E i \in 1 .. Len(list) : n \in LogsOf(list[i])
      /\ kind = "recent" => Len(list) = bulks /\ \A i \in 1 .. bulks : list[i] = i
  <2>1. CASE kind \in {"getkey", "searchtime"}
    <3>1. list = globalTrie[k] /\ globalTrie[k] \in Seq(1 .. bulks)
      BY <2>1 DEF RInv, EInv, IInv, RingTypes
    <3> QED
      BY <2>1, <3>1 DEF Found, KeysLead
  <2>2. CASE kind \notin {"getkey", "searchtime"}
    <3>1. list = [b \in 1 .. bulks |-> b]
      BY <2>2
    <3>2. list \in Seq(1 .. bulks)
      BY <1>1, <3>1, IsASeq
    <3>3. Len(list) = bulks /\ \A i \in 1 .. bulks : list[i] = i
      BY <1>1, <3>1, <3>2, LenProperties
    <3>4. Increasing(list, Len(list))
      BY <3>3 DEF Increasing
    <3>5. ASSUME NEW n \in 1 .. stored PROVE \E i \in 1 .. Len(list) : n \in LogsOf(list[i])
      <4>1. n \in 1 .. start_serial_[bulks] + size_[bulks]
        BY Newest DEF RInv, Recovery, Numbers
      <4>2. PICK b \in 1 .. bulks : start_serial_[b] < n /\ n <= start_serial_[b] + size_[b]
        BY <4>1 DEF RInv, Recovery, Covered
      <4>3. n \in LogsOf(b)
        BY <4>2, Serial, Newest DEF LogsOf
      <4> QED
        BY <3>3, <4>3
    <3> QED
      BY <3>2, <3>3, <3>4, <3>5
  <2> QED
    BY <2>1, <2>2
<1>3. t = IF kind = "searchtime" THEN list ELSE Reverse(list)
  BY DEF ToVisit, QueryKinds
<1> HIDE DEF list
<1>4. CASE kind = "searchtime"
  BY <1>2, <1>3, <1>4, LenProperties DEF Increasing
<1>5. CASE kind # "searchtime"
  <2>1. /\ t \in Seq(1 .. bulks) /\ Len(t) = Len(list) /\ Len(t) \in Nat /\ Reverse(t) = list
        /\ \A i \in 1 .. Len(list) : /\ Len(list) - i + 1 \in 1 .. Len(list)
                                     /\ t[i] = list[Len(list) - i + 1]
    BY <1>2, <1>3, <1>5, ReverseProperties, LenProperties
  <2>2. \A i, j \in 1 .. Len(t) : i < j => t[j] < t[i]
    BY <1>1, <1>2, <2>1, ReverseIncreases
  <2>3. ASSUME NEW n \in 1 .. stored, KeyOf(n) = k
        PROVE  \E i \in 1 .. Len(t) : n \in LogsOf(t[i])
    <3>1. PICK i \in 1 .. Len(list) : n \in LogsOf(list[i])
      BY <1>2, <2>3
    <3>2. /\ Len(list) - i + 1 \in 1 .. Len(list)
          /\ Len(list) - (Len(list) - i + 1) + 1 = i
      BY <2>1
    <3>3. t[Len(list) - i + 1] = list[i]
      BY <2>1, <3>2
    <3> QED
      BY <2>1, <3>1, <3>2, <3>3
  <2>4. kind = "recent" => Len(t) = bulks /\ \A i \in 1 .. bulks : t[i] = bulks + 1 - i
    <3> SUFFICES ASSUME kind = "recent", NEW i \in 1 .. bulks
                 PROVE  Len(t) = bulks /\ t[i] = bulks + 1 - i
      BY <1>1
    <3>1. Len(list) = bulks
      BY <1>2
    <3>2. bulks - i + 1 \in 1 .. bulks /\ bulks - i + 1 = bulks + 1 - i
      BY <1>1
    <3>3. t[i] = list[bulks - i + 1] /\ list[bulks - i + 1] = bulks - i + 1
      BY <1>2, <2>1, <3>1, <3>2
    <3> QED
      BY <2>1, <3>1, <3>2, <3>3
  <2> QED
    BY <1>5, <2>1, <2>2, <2>3, <2>4
<1> QED
  BY <1>4, <1>5

LEMMA StartQueryFinds == FInv /\ StartQuery => Found'
<1> SUFFICES ASSUME FInv, StartQuery PROVE Found'
  OBVIOUS
<1> USE DEF FInv
<1>1. PICK kind \in QueryKinds, k \in Keys :
         query' = [kind |-> kind, key |-> k] /\ todo' = ToVisit(kind, k)
  BY DEF StartQuery
<1>2. /\ ppc = "idle" /\ ppc' = "visit" /\ result' = <<>>
      /\ UNCHANGED <<bulks, state_, data_, slot_, heap, offset_, size_, start_serial_,
                     LogSerial, index, inMemory, globalTrie, buffer, handler,
                     write_position_, read_position_, disk, releaseWheel, autosaveWheel,
                     wpc, wb, wleft, stored>>
  BY DEF StartQuery, bulkVars, indexVars, ringVars, wheelVars, queryVars,
         wVars, outVars
<1>3. /\ query'.kind = kind /\ query'.key = k
  BY <1>1
<1>4. /\ todo' \in Seq(1 .. bulks) /\ Len(todo') \in Nat
      /\ kind = "searchtime" => \A i, j \in 1 .. Len(todo') : i < j => todo'[i] < todo'[j]
      /\ kind # "searchtime" => \A i, j \in 1 .. Len(todo') : i < j => todo'[j] < todo'[i]
      /\ kind # "recent" => \A n \in 1 .. stored : KeyOf(n) = k =>
            \E i \in 1 .. Len(todo') : n \in LogsOf(todo'[i])
      /\ kind = "recent" => Len(todo') = bulks /\ \A i \in 1 .. bulks : todo'[i] = bulks + 1 - i
  BY <1>1, <1>2, ToVisitProperties
<1>5. Len(result') = 0 /\ \A i : ~ (i \in 1 .. 0)
  BY <1>2
<1>6. FoundByKey'
  <2>1. kind # "recent" => InOrder(todo)'
    BY <1>3, <1>4 DEF InOrder, Follows
  <2>2. InOrder(result)'
    BY <1>5 DEF InOrder
  <2> QED
    BY <1>2, <1>3, <1>4, <1>5, <2>1, <2>2 DEF FoundByKey, LogsOf
<1>7. FoundRecent'
  <2>1. stored \in Nat /\ RecentCount \in Nat /\ bulks \in Nat /\ bulks # 0
    BY Newest, StoreAssumption
  <2>2. stored = start_serial_[bulks] + size_[bulks]
    BY <1>2, <2>1 DEF RInv, Recovery, Numbers
  <2>3. stored - 0 = Upto(bulks) /\ Upto(bulks)' = Upto(bulks)
    BY <1>2, <2>1, <2>2 DEF Upto
  <2> QED
    BY <1>2, <1>3, <1>4, <1>5, <2>1, <2>3 DEF FoundRecent, Upto
<1>8. KeysLead'
  BY <1>2, Serial, StillLead
<1> QED
  BY <1>6, <1>7, <1>8 DEF Found

LEMMA VisitBulkFinds == FInv /\ VisitBulk => Found'
<1> SUFFICES ASSUME FInv, VisitBulk PROVE Found'
  OBVIOUS
<1> USE DEF FInv, Found
<1>1. /\ ppc = "visit" /\ ppc' = "read" /\ ~ Enough
      /\ UNCHANGED <<bulks, state_, data_, slot_, heap, offset_, size_, start_serial_,
                     LogSerial, globalTrie, buffer, handler, write_position_,
                     read_position_, disk, autosaveWheel, query, todo, result, wpc, wb,
                     wleft, asked, stored>>
  BY DEF VisitBulk, bulkVars, indexVars, ringVars, wheelVars, queryVars,
         wVars, outVars
<1>2. query.kind = "recent" => Len(result) < RecentCount
  BY <1>1, QueryTypes, StoreAssumption DEF Enough
<1>3. KeysLead'
  BY <1>1, Serial, StillLead
<1>4. FoundByKey'
  BY <1>1 DEF FoundByKey, Asking, InOrder, Follows, LogsOf
<1>5. FoundRecent'
  BY <1>1, <1>2 DEF FoundRecent, Asking, Upto
<1> QED
  BY <1>3, <1>4, <1>5

LEMMA FinishQueryFinds == FInv /\ FinishQuery => Found'
<1> SUFFICES ASSUME FInv, FinishQuery PROVE Found'
  OBVIOUS
<1>1. /\ ppc' = "idle"
      /\ UNCHANGED <<bulks, state_, data_, slot_, heap, offset_, size_, start_serial_,
                     LogSerial, index, inMemory, globalTrie, buffer, handler,
                     write_position_, read_position_, disk, releaseWheel, autosaveWheel,
                     wpc, wb, wleft, asked, stored>>
  BY DEF FinishQuery, bulkVars, indexVars, ringVars, wheelVars, queryVars,
         wVars, outVars
<1>2. KeysLead'
  BY <1>1, Serial, StillLead DEF FInv
<1> QED
  BY <1>1, <1>2, NotAsking DEF Found

-----------------------------------------------------------------------------
(* A bulk is done with: what was found in it comes behind the rest. *)
Passed(found) ==
    /\ ppc = "read" /\ ppc' = "visit"
    /\ todo' = Tail(todo) /\ result' = result \o found
    /\ UNCHANGED <<query, stored, start_serial_, size_, bulks, globalTrie>>

LEMMA PassedTypes ==
  ASSUME FInv, NEW found \in Seq(Nat), Passed(found), NEW b, b = Head(todo)
  PROVE  /\ Len(todo) \in Nat /\ 1 \in 1 .. Len(todo) /\ b = todo[1] /\ b \in 1 .. bulks
         /\ Len(todo') = Len(todo) - 1
         /\ \A i \in 1 .. Len(todo') : /\ i + 1 \in 1 .. Len(todo) /\ 1 < i + 1
                                       /\ todo'[i] = todo[i + 1] /\ todo[i + 1] \in 1 .. bulks
         /\ Len(result) \in Nat /\ Len(found) \in Nat /\ Len(result') = Len(result) + Len(found)
         /\ \A i \in 1 .. Len(result) : i \in 1 .. Len(result') /\ result'[i] = result[i]
         /\ \A i \in 1 .. Len(found) : /\ Len(result) + i \in 1 .. Len(result')
                                       /\ result'[Len(result) + i] = found[i]
         /\ \A i \in 1 .. Len(result') : i \in 1 .. Len(result)
                                           \/ \E j \in 1 .. Len(found) : i = Len(result) + j
<1>1. todo # <<>> /\ b \in 1 .. bulks
  BY BulkRead DEF FInv, Passed
<1>2. todo \in Seq(1 .. bulks) /\ result \in Seq(Nat) /\ Len(result) \in Nat /\ Len(todo) \in Nat
  <2>1. result \in Seq(Logs) /\ Logs \subseteq Nat
    BY QueryTypes, Bounds DEF FInv, Logs
  <2> QED
    BY <2>1, QueryTypes, SeqMonotonic DEF FInv
<1>3. /\ 1 \in 1 .. Len(todo) /\ b = todo[1]
  BY <1>1, <1>2, EmptySeq
<1>4. /\ Len(todo') = Len(todo) - 1
      /\ \A i \in 1 .. Len(todo') : todo'[i] = todo[i + 1]
  BY <1>1, <1>2, HeadTailProperties DEF Passed
<1>5. \A i \in 1 .. Len(todo') : /\ i + 1 \in 1 .. Len(todo) /\ 1 < i + 1
                                 /\ todo[i + 1] \in 1 .. bulks
  <2> SUFFICES ASSUME NEW i \in 1 .. Len(todo')
               PROVE  i + 1 \in 1 .. Len(todo) /\ 1 < i + 1 /\ todo[i + 1] \in 1 .. bulks
    OBVIOUS
  <2>1. i + 1 \in 1 .. Len(todo) /\ 1 < i + 1
    BY <1>2, <1>4
  <2> QED
    BY <1>2, <2>1, ElementOfSeq
<1>6. /\ Len(found) \in Nat /\ Len(result') = Len(result) + Len(found)
      /\ \A i \in 1 .. Len(result) + Len(found) :
            result'[i] = IF i <= Len(result) THEN result[i] ELSE found[i - Len(result)]
  BY <1>2, ConcatProperties, LenProperties DEF Passed
<1>7. \A i \in 1 .. Len(result) : i \in 1 .. Len(result') /\ result'[i] = result[i]
  BY <1>2, <1>6
<1>8. \A i \in 1 .. Len(found) : /\ Len(result) + i \in 1 .. Len(result')
                                 /\ result'[Len(result) + i] = found[i]
  <2> SUFFICES ASSUME NEW i \in 1 .. Len(found)
               PROVE  /\ Len(result) + i \in 1 .. Len(result')
                      /\ result'[Len(result) + i] = found[i]
    OBVIOUS
  <2>1. /\ Len(result) + i \in 1 .. Len(result) + Len(found) /\ ~ Len(result) + i <= Len(result)
        /\ (Len(result) + i) - Len(result) = i
    BY <1>2, <1>6
  <2>2. result'[Len(result) + i] = found[(Len(result) + i) - Len(result)]
    BY <1>6, <2>1
  <2> QED
    BY <1>6, <2>1, <2>2
<1>9. ASSUME NEW i \in 1 .. Len(result'), i \notin 1 .. Len(result)
      PROVE  \E j \in 1 .. Len(found) : i = Len(result) + j
  <2>1. i - Len(result) \in 1 .. Len(found) /\ i = Len(result) + (i - Len(result))
    BY <1>2, <1>6, <1>9
  <2> QED
    BY <2>1
<1> QED
  BY <1>1, <1>2, <1>3, <1>4, <1>5, <1>6, <1>7, <1>8, <1>9

LEMMA PassedByKey ==
  ASSUME FInv, query.kind # "recent", NEW found \in Seq(Nat), Passed(found),
         NEW b, b = Head(todo), InOrder(found),
         \A i \in 1 .. Len(found) : found[i] \in LogsOf(b) /\ KeyOf(found[i]) = query.key,
         \A n \in LogsOf(b) : KeyOf(n) = query.key => \E i \in 1 .. Len(found) : found[i] = n
  PROVE  FoundByKey'
<1> USE DEF FInv, Found
<1>1. /\ Len(todo) \in Nat /\ 1 \in 1 .. Len(todo) /\ b = todo[1] /\ b \in 1 .. bulks
      /\ \A i \in 1 .. Len(todo') : /\ i + 1 \in 1 .. Len(todo) /\ 1 < i + 1
                                    /\ todo'[i] = todo[i + 1] /\ todo[i + 1] \in 1 .. bulks
  BY PassedTypes
<1>2. /\ Len(result) \in Nat /\ Len(found) \in Nat /\ Len(result') = Len(result) + Len(found)
      /\ \A i \in 1 .. Len(result) : i \in 1 .. Len(result') /\ result'[i] = result[i]
      /\ \A i \in 1 .. Len(found) : /\ Len(result) + i \in 1 .. Len(result')
                                    /\ result'[Len(result) + i] = found[i]
      /\ \A i \in 1 .. Len(result') : i \in 1 .. Len(result)
                                        \/ \E j \in 1 .. Len(found) : i = Len(result) + j
  BY PassedTypes
<1>3. /\ InOrder(todo) /\ InOrder(result)
      /\ \A i \in 1 .. Len(result) :
            /\ result[i] \in 1 .. stored /\ KeyOf(result[i]) = query.key
            /\ \A j \in 1 .. Len(todo) : \A n \in LogsOf(todo[j]) : Follows(result[i], n)
      /\ \A n \in 1 .. stored : KeyOf(n) = query.key =>
            \/ \E i \in 1 .. Len(result) : result[i] = n
            \/ \E j \in 1 .. Len(todo) : n \in LogsOf(todo[j])
  BY DEF FoundByKey, Asking, Passed
<1> HIDE DEF Found
<1>4. \A j \in 1 .. Len(todo') : Follows(b, todo'[j]) /\ todo'[j] \in 1 .. bulks
  BY <1>1, <1>3 DEF InOrder
<1>5. ASSUME NEW i \in 1 .. Len(todo'), NEW j \in 1 .. Len(todo'), i < j
      PROVE  Follows(todo'[i], todo'[j])
  <2>1. Len(todo') \in Nat /\ i + 1 < j + 1
    BY <1>1, <1>5, PassedTypes
  <2> QED
    BY <1>1, <1>3, <2>1 DEF InOrder
<1>6. ASSUME NEW i \in 1 .. Len(result'), NEW j \in 1 .. Len(result'), i < j
      PROVE  Follows(result'[i], result'[j])
  <2>1. CASE i \in 1 .. Len(result) /\ j \in 1 .. Len(result)
    BY <1>2, <1>3, <1>6, <2>1 DEF InOrder
  <2>2. CASE i \in 1 .. Len(result) /\ j \notin 1 .. Len(result)
    <3>1. PICK y \in 1 .. Len(found) : j = Len(result) + y
      BY <1>2, <2>2
    <3>2. result'[j] = found[y] /\ result'[i] = result[i] /\ found[y] \in LogsOf(todo[1])
      BY <1>1, <1>2, <2>2, <3>1
    <3> QED
      BY <1>1, <1>3, <2>2, <3>2
  <2>3. CASE i \notin 1 .. Len(result)
    <3>1. PICK x \in 1 .. Len(found) : i = Len(result) + x
      BY <1>2, <2>3
    <3>2. j \notin 1 .. Len(result)
      BY <1>2, <1>6, <3>1
    <3>3. PICK y \in 1 .. Len(found) : j = Len(result) + y
      BY <1>2, <3>2
    <3>4. x < y
      BY <1>2, <1>6, <3>1, <3>3
    <3> QED
      BY <1>2, <3>1, <3>3, <3>4 DEF InOrder
  <2> QED
    BY <2>1, <2>2, <2>3
<1>7. ASSUME NEW i \in 1 .. Len(result')
      PROVE  /\ result'[i] \in 1 .. stored /\ KeyOf(result'[i]) = query.key
             /\ \A j \in 1 .. Len(todo') : \A n \in LogsOf(todo'[j]) : Follows(result'[i], n)
  <2>1. CASE i \in 1 .. Len(result)
    <3>1. result'[i] = result[i]
      BY <1>2, <2>1
    <3>2. \A j \in 1 .. Len(todo') :
             \A n \in LogsOf(todo'[j]) : Follows(result[i], n)
      BY <1>1, <1>3, <2>1
    <3> QED
      BY <1>3, <2>1, <3>1, <3>2
  <2>2. CASE i \notin 1 .. Len(result)
    <3>1. PICK x \in 1 .. Len(found) : i = Len(result) + x
      BY <1>2, <2>2
    <3>2. result'[i] = found[x] /\ found[x] \in LogsOf(b) /\ KeyOf(found[x]) = query.key
      BY <1>2, <3>1
    <3>3. found[x] \in 1 .. stored
      <4>1. ppc # "global" /\ b \in 1 .. bulks
        BY <1>1 DEF Passed
      <4>2. LogsOf(b) \subseteq 1 .. stored
        BY <4>1, InStored
      <4> QED
        BY <3>2, <4>2
    <3>4. ASSUME NEW j \in 1 .. Len(todo'), NEW n \in LogsOf(todo'[j])
          PROVE  Follows(found[x], n)
      <4>1. b \in 1 .. bulks /\ todo'[j] \in 1 .. bulks /\ Follows(b, todo'[j])
        BY <1>1, <1>4
      <4> QED
        BY <3>2, <4>1, FollowsLogs
    <3> QED
      BY <3>2, <3>3, <3>4
  <2> QED
    BY <2>1, <2>2
<1>8. ASSUME NEW n \in 1 .. stored, KeyOf(n) = query.key
      PROVE  \/ \E i \in 1 .. Len(result') : result'[i] = n
             \/ \E j \in 1 .. Len(todo') : n \in LogsOf(todo'[j])
  <2>1. CASE \E i \in 1 .. Len(result) : result[i] = n
    BY <1>2, <2>1
  <2>2. CASE \E j \in 1 .. Len(todo) : n \in LogsOf(todo[j])
    <3>1. PICK j \in 1 .. Len(todo) : n \in LogsOf(todo[j])
      BY <2>2
    <3>2. CASE j = 1
      <4>1. PICK i \in 1 .. Len(found) : found[i] = n
        BY <1>1, <1>8, <3>1, <3>2
      <4> QED
        BY <1>2, <4>1
    <3>3. CASE j # 1
      <4>1. j - 1 \in 1 .. Len(todo') /\ (j - 1) + 1 = j
        BY <1>1, <3>3, PassedTypes
      <4>2. todo'[j - 1] = todo[j]
        BY <1>1, <4>1
      <4> QED
        BY <3>1, <4>1, <4>2
    <3> QED
      BY <3>2, <3>3
  <2> QED
    BY <1>3, <1>8, <2>1, <2>2
<1>9. query' = query /\ stored' = stored /\ start_serial_' = start_serial_ /\ size_' = size_
  BY DEF Passed
<1> QED
  BY <1>5, <1>6, <1>7, <1>8, <1>9 DEF FoundByKey, InOrder, Follows, LogsOf

LEMMA PassedRecent ==
  ASSUME FInv, query.kind = "recent", NEW found \in Seq(Nat), Passed(found),
         NEW b, b = Head(todo), NEW wanted, wanted = RecentCount - Len(result),
         Len(found) = IF size_[b] < wanted THEN size_[b] ELSE wanted,
         \A i \in 1 .. Len(found) : found[i] = start_serial_[b] + size_[b] + 1 - i
  PROVE  FoundRecent'
<1> USE DEF FInv, Found
<1>1. /\ Len(todo) \in Nat /\ 1 \in 1 .. Len(todo) /\ b = todo[1] /\ b \in 1 .. bulks
      /\ Len(todo') = Len(todo) - 1
      /\ \A i \in 1 .. Len(todo') : i + 1 \in 1 .. Len(todo) /\ todo'[i] = todo[i + 1]
  BY PassedTypes
<1>2. /\ Len(result) \in Nat /\ Len(found) \in Nat /\ Len(result') = Len(result) + Len(found)
      /\ \A i \in 1 .. Len(result) : result'[i] = result[i]
      /\ \A i \in 1 .. Len(found) : result'[Len(result) + i] = found[i]
      /\ \A i \in 1 .. Len(result') : i \in 1 .. Len(result)
                                        \/ \E j \in 1 .. Len(found) : i = Len(result) + j
  BY PassedTypes
<1>3. /\ \A i \in 1 .. Len(todo) : todo[i] = Len(todo) + 1 - i
      /\ Len(result) < RecentCount /\ Len(result) <= stored
      /\ \A i \in 1 .. Len(result) : result[i] = stored + 1 - i
      /\ stored - Len(result) = Upto(Len(todo))
  BY DEF FoundRecent, Asking, Passed
<1>4. /\ RecentCount \in Nat /\ stored \in Nat /\ start_serial_[b] \in Nat /\ size_[b] \in Nat
  BY <1>1, Serial, Newest, StoreAssumption
<1>5. b = Len(todo) /\ stored - Len(result) = start_serial_[b] + size_[b]
  BY <1>1, <1>2, <1>3 DEF Upto
<1>6. start_serial_[b] = Upto(Len(todo'))
  BY <1>1, <1>5, Adjacent
<1>7. \A i \in 1 .. Len(todo') : todo'[i] = Len(todo') + 1 - i
  BY <1>1, <1>3
<1>8. /\ Len(result') <= RecentCount /\ Len(result') <= stored
      /\ Len(result') < RecentCount => stored - Len(result') = Upto(Len(todo'))
  <2>1. CASE size_[b] < wanted
    <3>1. Len(result') = Len(result) + size_[b]
      BY <1>2, <2>1
    <3>2. stored - Len(result') = start_serial_[b]
      <4>1. stored - Len(result) = start_serial_[b] + size_[b]
        BY <1>5
      <4> HIDE DEF FInv, Found
      <4> QED
        BY ONLY <1>2, <1>4, <4>1, <3>1
    <3>3. Len(result') <= stored
      BY <1>2, <1>4, <3>1, <3>2
    <3>4. Len(result') <= RecentCount
      <4>1. size_[b] < RecentCount - Len(result)
        BY <2>1
      <4> HIDE DEF FInv, Found
      <4> QED
        BY ONLY <1>2, <1>4, <3>1, <4>1
    <3> QED
      BY <1>6, <3>2, <3>3, <3>4
  <2>2. CASE ~ size_[b] < wanted
    <3>1. Len(result') = RecentCount
      BY <1>2, <1>3, <1>4, <2>2
    <3>2. RecentCount <= Len(result) + size_[b]
      BY <1>2, <1>4, <2>2
    <3>3. RecentCount <= stored
      BY <1>2, <1>4, <1>5, <3>2
    <3> QED
      BY <1>4, <3>1, <3>3
  <2> QED
    BY <2>1, <2>2
<1>9. ASSUME NEW i \in 1 .. Len(result') PROVE result'[i] = stored + 1 - i
  <2>1. CASE i \in 1 .. Len(result)
    BY <1>2, <1>3, <2>1
  <2>2. CASE i \notin 1 .. Len(result)
    <3>1. PICK j \in 1 .. Len(found) : i = Len(result) + j
      BY <1>2, <2>2
    <3>2. result'[i] = start_serial_[b] + size_[b] + 1 - j
      BY <1>2, <3>1
    <3>3. stored - Len(result) = start_serial_[b] + size_[b]
      BY <1>5
    <3>4. j \in Nat /\ Len(result) \in Nat
      BY <1>2
    <3>5. \A s, l, a, n, m \in Nat : s - l = a + n => a + n + 1 - m = s + 1 - (l + m)
      OBVIOUS
    <3>6. start_serial_[b] + size_[b] + 1 - j = stored + 1 - (Len(result) + j)
      BY ONLY <1>4, <3>3, <3>4, <3>5
    <3> QED
      BY ONLY <3>1, <3>2, <3>6
  <2> QED
    BY <2>1, <2>2
<1>10. Upto(Len(todo))' = Upto(Len(todo'))
  BY DEF Upto, Passed
<1>11. query' = query /\ stored' = stored /\ ppc' = "visit"
  BY DEF Passed
<1> QED
  BY <1>7, <1>8, <1>9, <1>10, <1>11 DEF FoundRecent

-----------------------------------------------------------------------------
(* What the query reads from a bulk. *)
LogsRead(b) == [i \in 1 .. Len(Serials(b)) |-> ContentOf(b)[OffsetsOf(b)[Serials(b)[i] + 1] + 1]]

LEMMA LogsReadProperties ==
  ASSUME RInv, ppc = "read", NEW b, b = Head(todo)
  PROVE  /\ LogsRead(b) \in Seq(Nat) /\ Len(LogsRead(b)) = Len(Serials(b))
         /\ Len(Serials(b)) \in Nat
         /\ \A i \in 1 .. Len(Serials(b)) :
               /\ Serials(b)[i] \in 0 .. size_[b] - 1
               /\ LogsRead(b)[i] = start_serial_[b] + Serials(b)[i] + 1
<1> DEFINE list == Serials(b)
           log(i) == ContentOf(b)[OffsetsOf(b)[list[i] + 1] + 1]
<1>1. list \in Seq(0 .. size_[b] - 1) /\ Len(list) \in Nat
  BY SerialsRead, LenProperties
<1>2. start_serial_[b] \in Nat /\ size_[b] \in Nat
  BY BulkRead, Newest
<1> HIDE DEF list
<1>3. ASSUME NEW i \in 1 .. Len(list)
      PROVE  /\ list[i] \in 0 .. size_[b] - 1
             /\ log(i) = start_serial_[b] + list[i] + 1 /\ log(i) \in Nat
  <2>1. list[i] \in 0 .. size_[b] - 1 /\ list[i] \in Nat
    BY <1>1, <1>2, ElementOfSeq
  <2>2. /\ OffsetsOf(b)[list[i] + 1] = list[i]
        /\ ContentOf(b)[list[i] + 1] = start_serial_[b] + list[i] + 1
    BY <2>1, LogRead
  <2>3. log(i) = start_serial_[b] + list[i] + 1
    BY <2>2
  <2>4. start_serial_[b] + list[i] + 1 \in Nat
    BY <1>2, <2>1
  <2> QED
    BY <2>1, <2>3, <2>4
<1>4. LogsRead(b) = [i \in 1 .. Len(list) |-> log(i)]
  BY DEF LogsRead, list
<1> HIDE DEF log
<1>5. [i \in 1 .. Len(list) |-> log(i)] \in Seq(Nat)
  BY <1>1, <1>3, IsASeq
<1>6. Len(LogsRead(b)) = Len(list)
  BY <1>1, <1>4, <1>5, LenProperties
<1> QED
  BY <1>1, <1>3, <1>4, <1>5, <1>6 DEF list

LEMMA ReadsByKey ==
  ASSUME RInv, ppc = "read", query.kind # "recent", NEW b, b = Head(todo),
         NEW found, found = LogsRead(b)
  PROVE  /\ InOrder(found)
         /\ \A i \in 1 .. Len(found) : found[i] \in LogsOf(b) /\ KeyOf(found[i]) = query.key
         /\ \A n \in LogsOf(b) : KeyOf(n) = query.key => \E i \in 1 .. Len(found) : found[i] = n
<1> DEFINE S == Matching(start_serial_[b], size_[b], query.key)
           list == Serials(b)
<1>1. /\ list \in Seq(S) /\ InOrder(list) /\ Onto(list, Len(list), S)
  BY SerialsInOrder
<1>2. /\ Len(found) = Len(list) /\ Len(list) \in Nat
      /\ \A i \in 1 .. Len(list) : /\ list[i] \in 0 .. size_[b] - 1
                                   /\ found[i] = start_serial_[b] + list[i] + 1
  BY LogsReadProperties
<1>3. start_serial_[b] \in Nat /\ size_[b] \in Nat
  BY BulkRead, Newest
<1>4. \A i \in 1 .. Len(list) : list[i] \in S /\ list[i] \in Nat
  <2>1. \A i \in 1 .. Len(list) : list[i] \in S
    BY <1>1, ElementOfSeq
  <2> QED
    BY <1>2, <1>3, <2>1
<1>5. \A i \in S : i \in 0 .. size_[b] - 1 /\ KeyOf(start_serial_[b] + i + 1) = query.key
  BY DEF Matching
<1> HIDE DEF list
<1>6. ASSUME NEW i \in 1 .. Len(found), NEW j \in 1 .. Len(found), i < j
      PROVE  Follows(found[i], found[j])
  <2>1. /\ found[i] = start_serial_[b] + list[i] + 1 /\ list[i] \in Nat
        /\ found[j] = start_serial_[b] + list[j] + 1 /\ list[j] \in Nat
        /\ Follows(list[i], list[j])
    BY <1>1, <1>2, <1>4, <1>6 DEF InOrder
  <2>2. CASE query.kind = "searchtime"
    BY <1>3, <2>1, <2>2 DEF Follows
  <2>3. CASE query.kind # "searchtime"
    BY <1>3, <2>1, <2>3 DEF Follows
  <2> QED
    BY <2>2, <2>3
<1>7. ASSUME NEW i \in 1 .. Len(found)
      PROVE  found[i] \in LogsOf(b) /\ KeyOf(found[i]) = query.key
  <2>1. /\ found[i] = start_serial_[b] + list[i] + 1
        /\ list[i] \in S /\ list[i] \in 0 .. size_[b] - 1
    BY <1>2, <1>4
  <2>2. KeyOf(found[i]) = query.key
    BY <1>5, <2>1
  <2>3. found[i] \in start_serial_[b] + 1 .. start_serial_[b] + size_[b]
    BY <1>3, <2>1
  <2> QED
    BY <2>2, <2>3 DEF LogsOf
<1>8. ASSUME NEW n \in LogsOf(b), KeyOf(n) = query.key
      PROVE  \E i \in 1 .. Len(found) : found[i] = n
  <2> DEFINE serial == n - start_serial_[b] - 1
  <2>1. /\ n \in start_serial_[b] + 1 .. start_serial_[b] + size_[b]
    BY DEF LogsOf
  <2>2. serial \in 0 .. size_[b] - 1 /\ start_serial_[b] + serial + 1 = n
    BY <1>3, <2>1
  <2> HIDE DEF serial
  <2>3. serial \in S
    BY <1>8, <2>2 DEF Matching
  <2>4. PICK i \in 1 .. Len(list) : list[i] = serial
    BY <1>1, <2>3 DEF Onto
  <2> QED
    BY <1>2, <2>2, <2>4
<1> QED
  BY <1>6, <1>7, <1>8 DEF InOrder

LEMMA ReadsRecent ==
  ASSUME FInv, ppc = "read", query.kind = "recent", NEW b, b = Head(todo),
         NEW found, found = LogsRead(b)
  PROVE  LET wanted == RecentCount - Len(result)
         IN  /\ Len(found) = IF size_[b] < wanted THEN size_[b] ELSE wanted
             /\ \A i \in 1 .. Len(found) : found[i] = start_serial_[b] + size_[b] + 1 - i
<1> USE DEF FInv, Found
<1> DEFINE wanted == RecentCount - Len(result)
           count == IF size_[b] < wanted THEN size_[b] ELSE wanted
           list == Serials(b)
<1>1. list = [i \in 1 .. count |-> size_[b] - i]
  BY DEF Serials
<1>2. start_serial_[b] \in Nat /\ size_[b] \in Nat
  BY BulkRead, Newest
<1>3. Len(result) < RecentCount /\ Len(result) \in Nat /\ RecentCount \in Nat
  BY QueryTypes, StoreAssumption DEF FoundRecent, Asking
<1>4. count \in Nat /\ count <= size_[b]
  BY <1>2, <1>3
<1> HIDE DEF count
<1>5. \A i \in 1 .. count : size_[b] - i \in Nat
  BY <1>2, <1>4
<1>6. [i \in 1 .. count |-> size_[b] - i] \in Seq(Nat)
  BY <1>4, <1>5, IsASeq
<1>7. Len(list) = count /\ \A i \in 1 .. count : list[i] = size_[b] - i
  BY <1>1, <1>4, <1>6, LenProperties
<1> HIDE DEF list
<1>8. /\ Len(found) = Len(list)
      /\ \A i \in 1 .. Len(list) : found[i] = start_serial_[b] + list[i] + 1
  BY LogsReadProperties DEF list
<1>9. ASSUME NEW i \in 1 .. Len(found) PROVE found[i] = start_serial_[b] + size_[b] + 1 - i
  <2>1. found[i] = start_serial_[b] + (size_[b] - i) + 1 /\ i \in Nat
    BY <1>4, <1>7, <1>8
  <2> QED
    BY <1>2, <2>1
<1> QED
  BY <1>7, <1>8, <1>9 DEF count

LEMMA BulkPassedFinds ==
  ASSUME FInv, ppc = "read", Passed(LogsRead(Head(todo)))
  PROVE  Found'
<1> USE DEF FInv
<1> DEFINE b == Head(todo)
           found == LogsRead(b)
<1>1. found \in Seq(Nat)
  BY LogsReadProperties
<1>2. /\ ppc' = "visit" /\ query' = query
      /\ UNCHANGED <<globalTrie, stored, start_serial_, size_, bulks>>
  BY DEF Passed
<1>3. KeysLead'
  BY <1>2, Serial, StillLead
<1>4. CASE query.kind = "recent"
  <2>1. FoundByKey'
    BY <1>2, <1>4 DEF FoundByKey
  <2>2. /\ Len(found) = IF size_[b] < RecentCount - Len(result) THEN size_[b]
                                                                ELSE RecentCount - Len(result)
        /\ \A i \in 1 .. Len(found) : found[i] = start_serial_[b] + size_[b] + 1 - i
    BY <1>4, ReadsRecent
  <2> HIDE DEF found
  <2>3. Passed(found)
    BY DEF found
  <2>4. FoundRecent'
    BY <1>1, <1>4, <2>2, <2>3, PassedRecent
  <2> QED
    BY <1>3, <2>1, <2>4 DEF Found
<1>5. CASE query.kind # "recent"
  <2>1. FoundRecent'
    BY <1>2, <1>5 DEF FoundRecent
  <2>2. /\ InOrder(found)
        /\ \A i \in 1 .. Len(found) : found[i] \in LogsOf(b) /\ KeyOf(found[i]) = query.key
        /\ \A n \in LogsOf(b) : KeyOf(n) = query.key => \E i \in 1 .. Len(found) : found[i] = n
    BY <1>5, ReadsByKey
  <2> HIDE DEF found
  <2>3. Passed(found)
    BY DEF found
  <2>4. FoundByKey'
    BY <1>1, <1>5, <2>2, <2>3, PassedByKey
  <2> QED
    BY <1>3, <2>1, <2>4 DEF Found
<1> QED
  BY <1>4, <1>5

LEMMA PassBulkFinds == FInv /\ PassBulk => Found'
<1> SUFFICES ASSUME FInv, PassBulk PROVE Found'
  OBVIOUS
<1>1. /\ ppc = "read" /\ ppc' = "visit" /\ Serials(Head(todo)) = <<>> /\ todo' = Tail(todo)
      /\ UNCHANGED <<bulks, state_, data_, slot_, heap, offset_, size_, start_serial_,
                     LogSerial, index, inMemory, globalTrie, buffer, handler,
                     write_position_, read_position_, disk, releaseWheel, autosaveWheel,
                     query, result, wpc, wb, wleft, asked, stored>>
  BY DEF PassBulk, bulkVars, indexVars, ringVars, wheelVars, queryVars,
         wVars, outVars
<1>2. LogsRead(Head(todo)) = <<>>
  <2>1. /\ LogsRead(Head(todo)) \in Seq(Nat)
        /\ Len(LogsRead(Head(todo))) = Len(Serials(Head(todo)))
    BY <1>1, LogsReadProperties DEF FInv
  <2> QED
    BY <1>1, <2>1, EmptySeq
<1>3. result' = result \o <<>>
  <2>1. result \in Seq(Logs)
    BY QueryTypes DEF FInv
  <2> QED
    BY <1>1, <2>1, ConcatEmptySeq
<1>4. Passed(LogsRead(Head(todo)))
  BY <1>1, <1>2, <1>3 DEF Passed
<1> QED
  BY <1>1, <1>4, BulkPassedFinds

LEMMA ReadBulkFinds == FInv /\ ReadBulk => Found'
<1> SUFFICES ASSUME FInv, ReadBulk PROVE Found'
  OBVIOUS
<1>1. ppc = "read" /\ Passed(LogsRead(Head(todo)))
  BY DEF ReadBulk, Passed, LogsRead, outVars
<1> QED
  BY <1>1, BulkPassedFinds

-----------------------------------------------------------------------------
(* The invariant. *)
LEMMA InitFinds == Init => FInv
<1> SUFFICES ASSUME Init PROVE FInv
  OBVIOUS
<1>1. RInv
  BY InitRecovers
<1>2. KeysLead
  BY DEF Init, KeysLead, Increasing
<1>3. FoundByKey /\ FoundRecent
  BY DEF Init, FoundByKey, FoundRecent, Asking
<1> QED
  BY <1>1, <1>2, <1>3 DEF FInv, Found

LEMMA WorkerFinds == FInv /\ Worker => Found'
<1> SUFFICES ASSUME FInv, Worker PROVE Found'
  OBVIOUS
<1>1. ~ SaveNull
  BY NoCrashes DEF FInv
<1>2. UNCHANGED <<bulks, start_serial_, size_, globalTrie, ppc, query, todo, result, stored>>
  BY <1>1
     DEF Worker, CheckQueue, FrontUnit, ReleaseFrontUnit, PersistenceCheck, SaveContent,
         SaveIndex, Detach, TickRelease, PopRelease, ReleaseSpace, ForgetRelease,
         TickAutosave, PopAutosave, ForgetAutosave, Sleep,
         bulkVars, indexVars, ringVars, wheelVars, queryVars,
         wVars, outVars
<1> QED
  BY <1>2, Unasked

LEMMA NextFinds == FInv /\ [Next]_vars /\ ~ hit' => FInv'
<1> SUFFICES ASSUME FInv, [Next]_vars, ~ hit' PROVE FInv'
  OBVIOUS
<1>1. RInv'
  BY NextRecovers DEF FInv
<1>2. ~ (AppendToNull \/ ReadNothing \/ SaveNull)
  BY NoCrashes DEF FInv
<1>3. CASE ServeRequest \/ AppendCheck \/ StartQuery
  BY <1>1, <1>2, <1>3, AppendsFind, FinishAppendFinds, StartQueryFinds, VisitBulkFinds,
     PassBulkFinds, ReadBulkFinds, FinishQueryFinds
     DEF ServeRequest, FInv
<1>4. CASE Worker
  BY <1>1, <1>4, WorkerFinds DEF FInv
<1>5. CASE UNCHANGED vars
  <2>1. UNCHANGED <<bulks, start_serial_, size_, globalTrie, ppc, query, todo, result, stored>>
    BY <1>5 DEF vars, bulkVars, indexVars, ringVars, wheelVars, queryVars,
         wVars, outVars
  <2> QED
    BY <1>1, <2>1, Unasked DEF FInv
<1> QED
  BY <1>3, <1>4, <1>5 DEF Next

FindsUntilHit == hit \/ FInv

LEMMA FindsInvariant == Spec => []FindsUntilHit
<1>1. Init => FindsUntilHit
  BY InitFinds DEF FindsUntilHit
<1>2. FindsUntilHit /\ [Next]_vars => FindsUntilHit'
  BY NextFinds, HitStays DEF FindsUntilHit
<1> QED
  BY <1>1, <1>2, PTL DEF Spec

-----------------------------------------------------------------------------
(* The answers. *)
LEMMA StoreAscending ==
  ASSUME NEW S
  PROVE  Store!Ascending(S) = Ascending(S)
<1>1. Store!Cardinality(S) = Cardinality(S)
  BY Zenon DEF Store!Cardinality, Cardinality
<1> QED
  BY Zenon, <1>1 DEF Store!Ascending, Ascending

LEMMA StoreReverse == \A s : Store!Reverse(s) = Reverse(s)
  BY DEF Store!Reverse, Reverse

LEMMA RecentRight ==
  ASSUME FInv, FinishQuery, query.kind = "recent"
  PROVE  result = Store!MostRecent
<1> USE DEF FInv, Found
<1> DEFINE count == IF stored < RecentCount THEN stored ELSE RecentCount
<1>1. ppc = "visit" /\ (todo = <<>> \/ Len(result) >= RecentCount)
  BY DEF FinishQuery, Enough
<1>2. /\ Len(result) <= RecentCount /\ Len(result) <= stored
      /\ \A i \in 1 .. Len(result) : result[i] = stored + 1 - i
      /\ Len(result) < RecentCount => stored - Len(result) = Upto(Len(todo))
  BY <1>1 DEF FoundRecent, Asking
<1>3. Len(result) \in Nat /\ stored \in Nat /\ RecentCount \in Nat /\ result \in Seq(Logs)
  BY QueryTypes, StoreAssumption
<1>4. Len(result) < RecentCount => Len(result) = stored
  <2>1. ASSUME Len(result) < RecentCount PROVE Len(result) = stored
    <3>1. todo = <<>>
      BY <1>1, <1>3, <2>1
    <3>2. Len(todo) = 0 /\ Upto(0) = 0
      BY <3>1 DEF Upto
    <3>3. stored - Len(result) = 0
      BY <1>2, <2>1, <3>2
    <3> QED
      BY ONLY <1>3, <3>3
  <2> QED
    BY <2>1
<1>5. Len(result) = count
  BY <1>2, <1>3, <1>4
<1>6. result = [i \in 1 .. Len(result) |-> result[i]]
  BY <1>3, LenProperties
<1>7. result = [i \in 1 .. count |-> stored + 1 - i]
  BY <1>2, <1>5, <1>6
<1> QED
  BY <1>7 DEF Store!MostRecent

LEMMA ByKeyRight ==
  ASSUME FInv, FinishQuery, query.kind # "recent"
  PROVE  result = IF query.kind = "searchtime" THEN Store!OldestFirst(query.key)
                                               ELSE Store!NewestFirst(query.key)
<1> USE DEF FInv, Found
<1> DEFINE S == {n \in 1 .. stored : KeyOf(n) = query.key}
<1>1. ppc = "visit" /\ todo = <<>>
  BY DEF FinishQuery, Enough
<1>2. /\ InOrder(result)
      /\ \A i \in 1 .. Len(result) : result[i] \in 1 .. stored /\ KeyOf(result[i]) = query.key
      /\ \A n \in 1 .. stored : KeyOf(n) = query.key =>
            \/ \E i \in 1 .. Len(result) : result[i] = n
            \/ \E j \in 1 .. Len(todo) : n \in LogsOf(todo[j])
  BY <1>1 DEF FoundByKey, Asking
<1>3. Len(result) \in Nat /\ stored \in Nat /\ result \in Seq(Logs)
  BY QueryTypes
<1>4. stored + 1 \in Nat /\ S \in SUBSET (0 .. (stored + 1) - 1) /\ S \in SUBSET Nat
  BY <1>3
<1>5. \A i \in 1 .. Len(result) : result[i] \in S
  BY <1>2
<1>6. Onto(result, Len(result), S)
  <2>1. \A j : ~ (j \in 1 .. Len(todo))
    BY <1>1
  <2> QED
    BY <1>2, <2>1 DEF Onto
<1> HIDE DEF S
<1>7. result \in Seq(S)
  <2>1. result = [i \in 1 .. Len(result) |-> result[i]]
    BY <1>3, LenProperties
  <2>2. [i \in 1 .. Len(result) |-> result[i]] \in Seq(S)
    BY <1>3, <1>5, IsASeq
  <2> QED
    BY <2>1, <2>2
<1>8. Store!OldestFirst(query.key) = Ascending(S)
  BY StoreAscending DEF Store!OldestFirst, S
<1>9. CASE query.kind = "searchtime"
  <2>1. Increasing(result, Len(result))
    BY <1>2, <1>9 DEF InOrder, Follows, Increasing
  <2>2. result = Ascending(S)
    BY <1>4, <1>6, <1>7, <2>1, AscendingIs
  <2> QED
    BY <1>8, <1>9, <2>2
<1>10. CASE query.kind # "searchtime"
  <2> DEFINE back == Reverse(result)
  <2>1. /\ back \in Seq(S) /\ Len(back) = Len(result) /\ Reverse(back) = result
    BY <1>7, ReverseProperties
  <2>2. \A i, j \in 1 .. Len(result) : i < j => result[j] < result[i]
    BY <1>2, <1>10 DEF InOrder, Follows
  <2>3. Increasing(back, Len(result)) /\ Onto(back, Len(result), S)
    BY <1>4, <1>6, <1>7, <2>2, ReverseIncreases
  <2> HIDE DEF back
  <2>4. back = Ascending(S)
    BY <1>4, <2>1, <2>3, AscendingIs
  <2>5. Store!NewestFirst(query.key) = Reverse(Ascending(S))
    BY <1>8, StoreReverse DEF Store!NewestFirst
  <2> QED
    BY <1>10, <2>1, <2>4, <2>5
<1> QED
  BY <1>9, <1>10

LEMMA FinishQueryAnswers == FInv /\ FinishQuery => Store!Query
<1> SUFFICES ASSUME FInv, FinishQuery PROVE Store!Query
  OBVIOUS
<1>1. /\ ppc = "visit" /\ stored' = stored
      /\ answer' = [kind |-> query.kind, key |-> query.key, logs |-> result]
  BY DEF FinishQuery
<1>2. query.kind \in Store!QueryKinds /\ query.key \in Keys
  BY <1>1, QueryTypes DEF FInv, Asking, Store!QueryKinds, QueryKinds
<1>3. answer' = Store!Answer(query.kind, query.key)
  <2>1. CASE query.kind = "recent"
    BY <1>1, <2>1, RecentRight DEF Store!Answer
  <2>2. CASE query.kind = "searchtime"
    BY <1>1, <2>2, ByKeyRight DEF Store!Answer
  <2>3. CASE query.kind \notin {"recent", "searchtime"}
    BY <1>1, <2>3, ByKeyRight DEF Store!Answer
  <2> QED
    BY <2>1, <2>2, <2>3
<1> QED
  BY <1>1, <1>2, <1>3 DEF Store!Query

LEMMA NextImplements == FInv /\ [Next]_vars => [Store!Next]_(Store!vars)
<1> SUFFICES ASSUME FInv, [Next]_vars PROVE [Store!Next]_(Store!vars)
  OBVIOUS
<1>1. CASE FinishQuery
  BY <1>1, FinishQueryAnswers DEF Store!Next
<1>2. CASE FinishAppend
  BY <1>2 DEF FinishAppend, Store!Next, Store!Store
<1>3. CASE UNCHANGED <<stored, answer>>
  BY <1>3 DEF Store!vars
<1>4. FinishQuery \/ FinishAppend \/ UNCHANGED <<stored, answer>>
  <2>1. CASE ServeRequest \/ AppendCheck \/ StartQuery \/ UNCHANGED vars
    BY <2>1
       DEF ServeRequest, AppendCheck, StartQuery, AppendFull, AppendToNull, AppendFits,
           GetUnit, BindUnit, BuildCheck, BuildIndex, VisitBulk, PassBulk, ReadBulk,
           ReadNothing, outVars, vars
  <2>2. CASE Worker
    BY <2>2
       DEF Worker, CheckQueue, FrontUnit, ReleaseFrontUnit, PersistenceCheck, SaveContent,
           SaveNull, SaveIndex, Detach, TickRelease, PopRelease, ReleaseSpace, ForgetRelease,
           TickAutosave, PopAutosave, ForgetAutosave, Sleep, outVars
  <2> QED
    BY <2>1, <2>2 DEF Next
<1> QED
  BY <1>1, <1>2, <1>3, <1>4

(* What log_processor promises: every query answers with exactly the logs  *)
(* stored that it asks for, each once and in its order, whether a log is   *)
(* in the ring, in a file, or on the heap by then -- until an autosave     *)
(* hits an append.                                                         *)
THEOREM StoreImplementsLogStore == Spec => LogStoreSpec
<1>1. Init => Store!Init
  BY DEF Init, NoQuery, Store!Init
<1>2. FindsUntilHit /\ [Next]_vars => [hit \/ Store!Next]_(Store!vars)
  BY NextImplements DEF FindsUntilHit, vars, outVars, Store!vars
<1> QED
  BY <1>1, <1>2, FindsInvariant, PTL DEF Spec, LogStoreSpec
=============================================================================
