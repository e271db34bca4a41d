-------------------------- MODULE BulkStoreProofs ---------------------------
(***************************************************************************)
(* Whatever the two threads of log_processor do, autosaves of a bulk under *)
(* append included, and for every number of logs, queries and slots, every *)
(* threshold below the length of the ring and every setting of the timers: *)
(* a bulk owns its slot of the ring until it has been detached from it, a  *)
(* pass of the worker spares the bulk that takes logs, and an eviction     *)
(* never deletes a slot.                                                   *)
(***************************************************************************)
EXTENDS BulkStore, SequenceTheorems, TLAPS

(***************************************************************************)
(* The inductive invariant.  SlotOwned alone is not inductive: freeing the *)
(* front slot keeps it only because a pass detaches the slot's bulk first, *)
(* which it does only if PersistenceCheck lets it, which depends on state_,*)
(* which depends on the bulk lock and on what the wheels hold.             *)
(***************************************************************************)
RingTypes ==
    /\ bulks \in Bulks
    /\ state_ \in [Bulks -> States]
    /\ data_ \in [Bulks -> {"null", "slot", "heap"}]
    /\ slot_ \in [Bulks -> Slots]
    /\ offset_ \in [Bulks -> Nat]
    /\ handler \in [Slots -> Bulks \cup {NoBulk}]
    /\ write_position_ \in Slots /\ read_position_ \in Slots
    /\ ppc \in PPlaces /\ wpc \in WPlaces
    /\ ppc = "crashed" <=> wpc = "crashed"
    /\ wleft \in 0 .. Threshold - 1
    /\ stored \in 0 .. MaxLogs
    /\ todo \in Seq(1 .. bulks)
    /\ globalTrie \in [Keys -> Seq(1 .. bulks)]

(* An append makes one bulk at most, so that the new bulk is one of Bulks. *)
BulkCount ==
    /\ ppc \in Appending \cup {"new", "bind", "global"} => stored < MaxLogs
    /\ bulks <= stored + 1
         \/ (bulks = stored + 2 /\ ppc \in (Appending \ {"append"}) \cup {"global", "crashed"})
         \/ (bulks = stored + 2 /\ ppc = "append" /\ offset_[bulks] = 0)
    /\ \A b \in Bulks : b > bulks => offset_[b] = 0 /\ data_[b] = "null"

(* Each slot of the ring and the bulk it serves point to each other.       *)
HandlerMatches ==
    \A s \in Slots : handler[s] # NoBulk =>
        data_[handler[s]] = "slot" /\ slot_[handler[s]] = s

(* The slot given out last, bound or not yet.                              *)
UnboundSlot ==
    ppc = "bind" => /\ handler[slot_[bulks + 1]] = NoBulk
                    /\ Live(slot_[bulks + 1])
                    /\ NextPosition(slot_[bulks + 1]) = write_position_

OpenBulk ==
    \A b \in Bulks : state_[b] = "Appending" =>
        /\ b = bulks /\ data_[b] = "slot" /\ ppc \notin {"new", "bind"}
        /\ NextPosition(slot_[b]) = write_position_

(* A bulk in the ring has not been saved, unless it is being saved.        *)
InRing ==
    /\ \A b \in Bulks : WWrites(b) => state_[b] = "Saved"
    /\ Running => \A b \in Bulks : data_[b] = "slot" =>
                      state_[b] \in {"Appending", "InQueue"} \/ WWrites(b)

SavePlaces == {"lock", "detach"} \cup Kinds

PassBound ==
    /\ wleft > 0 => wpc \in {"front", "releaseFront", "check", "crashed"} \cup SavePlaces
    /\ wpc \in {"front", "releaseFront"} => wleft > 0
    /\ wleft > 0 => Size >= wleft + 1
    /\ wleft > 0 /\ wpc \in {"check"} \cup SavePlaces => handler[read_position_] = wb
    /\ wpc = "releaseFront" => handler[read_position_] = NoBulk
    /\ wpc \in {"check"} \cup SavePlaces => wb \in 1 .. bulks

(* A query that reads a bulk has one, and not the bulk being saved. *)
LockExcludes ==
    /\ ppc = "read" => todo # <<>>
    /\ ppc = "read" /\ wpc \in Kinds \cup {"detach"} => Head(todo) # wb

TimerUnits == [bulk : 1 .. bulks, left : Int, known : BOOLEAN]

Wheels ==
    /\ releaseWheel \subseteq TimerUnits /\ autosaveWheel \subseteq TimerUnits
    /\ \A u \in releaseWheel : data_[u.bulk] # "slot"
    /\ wpc = "release" => wb \in 1 .. bulks /\ data_[wb] # "slot"

IInv ==
    /\ RingTypes /\ BulkCount /\ SlotOwned /\ HandlerMatches /\ UnboundSlot
    /\ OpenBulk /\ InRing /\ PassBound /\ LockExcludes /\ Wheels

LEMMA Bounds ==
  /\ MaxLogs \in Nat /\ QueueLen \in Nat /\ Threshold \in Nat /\ BulkSize \in Nat
  /\ 1 < Threshold /\ Threshold < QueueLen /\ 0 < BulkSize
  /\ ReleaseTicks \in Nat /\ AutosaveTicks \in Nat
  BY StoreAssumption

(* The ring: NextPosition stays in the ring and no two slots share one. *)
LEMMA NextPositionInSlots == \A p \in Slots : NextPosition(p) \in Slots
  BY Bounds DEF NextPosition, Slots

(* There is room for the bulk an append is about to make. *)
LEMMA RoomForBulk ==
  ASSUME RingTypes, BulkCount, ppc \in {"new", "bind"}
  PROVE  /\ bulks + 1 \in Bulks /\ bulks + 1 # bulks /\ bulks <= stored + 1
         /\ offset_[bulks + 1] = 0 /\ data_[bulks + 1] = "null"
<1>1. stored < MaxLogs
  BY DEF BulkCount
<1>2. bulks <= stored + 1 /\ bulks + 1 > bulks
  BY DEF RingTypes, BulkCount, Appending, Kinds, Tries, Bulks
<1>3. bulks + 1 \in Bulks
  BY <1>1, <1>2, Bounds DEF RingTypes, Bulks
<1> QED
  BY <1>2, <1>3 DEF BulkCount, RingTypes, Bulks

(* A pass under way leaves two slots of the ring in use at least. *)
LEMMA PassLeavesTwo ==
  ASSUME RingTypes, PassBound, wleft > 0
  PROVE  /\ Size \in Nat /\ wleft \in Nat /\ Size >= wleft + 1
         /\ read_position_ # write_position_
         /\ NextPosition(read_position_) # write_position_
<1>1. wleft \in Nat
  BY Bounds DEF RingTypes
<1>2. Size >= wleft + 1
  BY DEF PassBound
<1>3. write_position_ \in 0 .. QueueLen - 1 /\ read_position_ \in 0 .. QueueLen - 1
  BY DEF RingTypes, Slots
<1>4. Size \in Nat
  BY <1>3, Bounds DEF Size
<1> QED
  BY <1>1, <1>2, <1>3, <1>4, Bounds DEF Size, NextPosition

LEMMA AfterBuildKinds == \A k \in Kinds : AfterBuild[k] \in {"word", "offset", "timestamp", "global"}
  BY DEF AfterBuild, Kinds, Tries

LEMMA AfterSaveKinds == \A k \in Kinds : AfterSave[k] \in Kinds \cup {"detach"}
  BY DEF AfterSave, Kinds, Tries

(* What the operations on a wheel make of its units. *)
LEMMA ResetTimerUnits ==
  ASSUME NEW wheel, wheel \subseteq TimerUnits, NEW b \in 1 .. bulks, NEW ticks \in Nat
  PROVE  /\ ResetTimer(wheel, b, ticks) \subseteq TimerUnits
         /\ \A u \in ResetTimer(wheel, b, ticks) : u \in wheel \/ u.bulk = b
<1> DEFINE new == [bulk |-> b, left |-> ticks, known |-> TRUE]
<1>1. new \in TimerUnits /\ new.bulk = b
  BY DEF TimerUnits
<1>2. \A u \in ResetTimer(wheel, b, ticks) : u \in wheel \/ u = new
  BY DEF ResetTimer
<1> QED
  BY <1>1, <1>2

LEMMA TickedUnits ==
  ASSUME NEW wheel, wheel \subseteq TimerUnits
  PROVE  /\ Ticked(wheel) \subseteq TimerUnits
         /\ \A u \in Ticked(wheel) : \E v \in wheel : u.bulk = v.bulk
<1>1. \A v \in wheel : LET u == [v EXCEPT !.left = @ - 1]
                       IN  u \in TimerUnits /\ u.bulk = v.bulk
  BY DEF TimerUnits
<1> QED
  BY <1>1 DEF Ticked

LEMMA ForgottenUnits ==
  ASSUME NEW wheel, wheel \subseteq TimerUnits, NEW b
  PROVE  /\ Forgotten(wheel, b) \subseteq TimerUnits
         /\ \A u \in Forgotten(wheel, b) : \E v \in wheel : u.bulk = v.bulk
<1>1. \A v \in wheel : LET u == [v EXCEPT !.known = @ /\ v.bulk # b]
                       IN  u \in TimerUnits /\ u.bulk = v.bulk
  BY DEF TimerUnits
<1> QED
  BY <1>1 DEF Forgotten

LEMMA AppendFullKeeps == IInv /\ AppendFull => IInv'
<1> SUFFICES ASSUME IInv, AppendFull PROVE IInv'
  OBVIOUS
<1> USE DEF IInv
<1>1. /\ ppc = "append" /\ ppc' = "new" /\ ~ WWrites(bulks)
      /\ offset_[bulks] >= BulkSize
      /\ state_' = [state_ EXCEPT ![bulks] = "InQueue"]
      /\ UNCHANGED <<bulks, data_, slot_, offset_, handler, write_position_, read_position_,
                     stored, wpc, wb, wleft, todo, globalTrie, releaseWheel, autosaveWheel>>
  BY DEF AppendFull, bulkVars, indexVars, ringVars, wheelVars, queryVars, wVars, outVars
<1>2. RingTypes'
  BY <1>1 DEF RingTypes, States, PPlaces
<1>3. BulkCount'
  <2>1. offset_[bulks] # 0
    BY <1>1, Bounds DEF RingTypes
  <2>2. bulks <= stored + 1 /\ stored < MaxLogs
    BY <1>1, <2>1 DEF BulkCount, Appending, Kinds, Tries
  <2> QED
    BY <1>1, <2>2 DEF BulkCount, Appending, Kinds, Tries
<1>4. (SlotOwned /\ HandlerMatches /\ UnboundSlot)'
  BY <1>1 DEF SlotOwned, HandlerMatches, UnboundSlot, Live
<1>5. OpenBulk'
  BY <1>1 DEF OpenBulk, RingTypes
<1>6. InRing'
  BY <1>1 DEF InRing, RingTypes, Running, WWrites
<1>7. (PassBound /\ LockExcludes /\ Wheels)'
  BY <1>1 DEF PassBound, LockExcludes, Wheels, Size, TimerUnits
<1> QED
  BY <1>2, <1>3, <1>4, <1>5, <1>6, <1>7

LEMMA AppendFitsKeeps == IInv /\ AppendFits => IInv'
<1> SUFFICES ASSUME IInv, AppendFits PROVE IInv'
  OBVIOUS
<1> USE DEF IInv
<1>1. /\ ppc = "append" /\ ppc' = "index"
      /\ offset_' = [offset_ EXCEPT ![bulks] = @ + 1]
      /\ autosaveWheel' = SetAutosave(bulks, state_[bulks])
      /\ UNCHANGED <<bulks, state_, data_, slot_, handler, write_position_, read_position_,
                     stored, wpc, wb, wleft, todo, globalTrie, releaseWheel>>
  BY DEF AppendFits, bulkVars, indexVars, ringVars, wheelVars, queryVars, wVars, outVars
<1>2. RingTypes'
  BY <1>1 DEF RingTypes, PPlaces
<1>3. BulkCount'
  BY <1>1 DEF BulkCount, RingTypes, Appending, Kinds, Tries, Bulks
<1>4. (SlotOwned /\ HandlerMatches /\ UnboundSlot /\ OpenBulk /\ InRing)'
  BY <1>1 DEF SlotOwned, HandlerMatches, UnboundSlot, Live, OpenBulk, InRing, Running, WWrites
<1>5. (PassBound /\ LockExcludes)'
  BY <1>1 DEF PassBound, LockExcludes, Size
<1>6. Wheels'
  <2>1. bulks \in 1 .. bulks
    BY Bounds DEF RingTypes, Bulks
  <2>2. autosaveWheel' \subseteq TimerUnits
    BY <1>1, <2>1, ResetTimerUnits, Bounds DEF Wheels, SetAutosave
  <2> QED
    BY <1>1, <2>2 DEF Wheels, TimerUnits
<1> QED
  BY <1>2, <1>3, <1>4, <1>5, <1>6

LEMMA GetUnitKeeps == IInv /\ GetUnit => IInv'
<1> SUFFICES ASSUME IInv, GetUnit PROVE IInv'
  OBVIOUS
<1> USE DEF IInv
<1>1. /\ ppc = "new" /\ ppc' = "bind" /\ NextPosition(write_position_) # read_position_
      /\ slot_' = [slot_ EXCEPT ![bulks + 1] = write_position_]
      /\ handler' = [handler EXCEPT ![write_position_] = NoBulk]
      /\ write_position_' = NextPosition(write_position_)
      /\ UNCHANGED <<bulks, state_, data_, offset_, read_position_,
                     stored, wpc, wb, wleft, todo, globalTrie, releaseWheel, autosaveWheel>>
  BY DEF GetUnit, Full, bulkVars, indexVars, ringVars, wheelVars, queryVars, wVars, outVars
<1>2. /\ bulks + 1 \in Bulks /\ bulks + 1 # bulks /\ bulks <= stored + 1
      /\ data_[bulks + 1] = "null"
  BY <1>1, RoomForBulk
<1>3. /\ write_position_' \in Slots /\ slot_'[bulks + 1] = write_position_
      /\ handler'[write_position_] = NoBulk
      /\ \A b \in Bulks : b # bulks + 1 => slot_'[b] = slot_[b]
      /\ \A s \in Slots : s # write_position_ => handler'[s] = handler[s]
  BY <1>1, <1>2, NextPositionInSlots DEF RingTypes
<1>4. RingTypes'
  BY <1>1, <1>3 DEF RingTypes, PPlaces
<1>5. BulkCount'
  BY <1>1, <1>2 DEF BulkCount, Appending, Kinds, Tries
(* The slot given out held no bulk; the live slots stay live. *)
<1>6. PICK w \in Slots : w = write_position_
  BY DEF RingTypes
<1>7. ~ Live(w) /\ Live(w)' /\ \A s \in Slots : Live(s) => Live(s)'
  <2>1. read_position_ \in 0 .. QueueLen - 1 /\ w \in 0 .. QueueLen - 1
    BY DEF RingTypes, Slots
  <2> QED
    BY <1>1, <1>6, <2>1, Bounds DEF Live, NextPosition, Slots
<1>8. SlotOwned'
  <2> SUFFICES ASSUME NEW b \in Bulks, data_[b] = "slot"
               PROVE  Live(slot_[b])' /\ handler'[slot_'[b]] = b
    BY <1>1 DEF SlotOwned
  <2>1. b # bulks + 1 /\ Live(slot_[b]) /\ handler[slot_[b]] = b /\ slot_[b] \in Slots
    BY <1>2 DEF SlotOwned, RingTypes
  <2>2. slot_'[b] = slot_[b] /\ slot_[b] # write_position_
    BY <1>3, <1>6, <1>7, <2>1
  <2> QED
    BY <1>3, <1>7, <2>1, <2>2
<1>9. HandlerMatches'
  <2> SUFFICES ASSUME NEW s \in Slots, handler'[s] # NoBulk
               PROVE  data_[handler'[s]] = "slot" /\ slot_'[handler'[s]] = s
    BY <1>1 DEF HandlerMatches
  <2>1. handler'[s] = handler[s] /\ handler[s] \in Bulks
    BY <1>3 DEF RingTypes
  <2>2. data_[handler[s]] = "slot" /\ slot_[handler[s]] = s
    BY <2>1 DEF HandlerMatches
  <2> QED
    BY <1>2, <1>3, <2>1, <2>2
<1>10. UnboundSlot'
  BY <1>1, <1>2, <1>3, <1>6, <1>7 DEF UnboundSlot
<1>11. OpenBulk'
  BY <1>1 DEF OpenBulk
<1>12. (InRing /\ LockExcludes /\ Wheels)'
  BY <1>1 DEF InRing, Running, WWrites, LockExcludes, Wheels, TimerUnits
<1>13. PassBound'
  <2>1. /\ write_position_ \in 0 .. QueueLen - 1 /\ read_position_ \in 0 .. QueueLen - 1
        /\ wleft \in Nat
    BY Bounds DEF RingTypes, Slots
  <2>2. Size' = Size + 1 /\ Size \in Nat
    BY <1>1, <2>1, Bounds DEF Size, NextPosition
  <2>3. wleft > 0 => Size' >= wleft + 1
    BY <2>1, <2>2, PassLeavesTwo
  <2>4. wleft > 0 => handler'[read_position_] = handler[read_position_]
    BY <1>3, PassLeavesTwo DEF RingTypes
  <2>5. (wpc = "releaseFront") => wleft > 0
    BY DEF PassBound
  <2> QED
    BY <1>1, <2>3, <2>4, <2>5 DEF PassBound, SavePlaces
<1> QED
  BY <1>4, <1>5, <1>8, <1>9, <1>10, <1>11, <1>12, <1>13

LEMMA BindUnitKeeps == IInv /\ BindUnit => IInv'
<1> SUFFICES ASSUME IInv, BindUnit PROVE IInv'
  OBVIOUS
<1> USE DEF IInv
<1>1. /\ ppc = "bind" /\ ppc' = "append" /\ bulks' = bulks + 1
      /\ data_' = [data_ EXCEPT ![bulks + 1] = "slot"]
      /\ state_' = [state_ EXCEPT ![bulks + 1] = "Appending"]
      /\ handler' = [handler EXCEPT ![slot_[bulks + 1]] = bulks + 1]
      /\ UNCHANGED <<slot_, offset_, write_position_, read_position_, stored, wpc, wb, wleft,
                     todo, globalTrie, releaseWheel, autosaveWheel>>
  BY DEF BindUnit, bulkVars, indexVars, ringVars, wheelVars, queryVars, wVars, outVars
<1>2. /\ bulks + 1 \in Bulks /\ bulks + 1 # bulks /\ bulks <= stored + 1
      /\ offset_[bulks + 1] = 0 /\ data_[bulks + 1] = "null"
      /\ bulks \in Nat /\ stored \in Nat
  BY <1>1, RoomForBulk, Bounds DEF RingTypes, Bulks
<1>3. PICK s \in Slots : s = slot_[bulks + 1]
  BY <1>2 DEF RingTypes
<1>4. /\ handler[s] = NoBulk /\ Live(s) /\ NextPosition(s) = write_position_
      /\ handler'[s] = bulks + 1 /\ \A t \in Slots : t # s => handler'[t] = handler[t]
  BY <1>1, <1>3 DEF UnboundSlot, RingTypes
<1>5. /\ data_'[bulks + 1] = "slot" /\ state_'[bulks + 1] = "Appending"
      /\ \A b \in Bulks : b # bulks + 1 => data_'[b] = data_[b] /\ state_'[b] = state_[b]
  BY <1>1, <1>2 DEF RingTypes
<1>6. 1 .. bulks \subseteq 1 .. bulks'
  BY <1>1, <1>2
<1>7. RingTypes'
  <2>1. todo' \in Seq(1 .. bulks') /\ globalTrie' \in [Keys -> Seq(1 .. bulks')]
    BY <1>1, <1>6, SeqMonotonic DEF RingTypes
  <2> QED
    BY <1>1, <1>2, <2>1 DEF RingTypes, States, PPlaces
<1>8. BulkCount'
  <2>1. stored < MaxLogs
    BY <1>1 DEF BulkCount
  <2>2. \A b \in Bulks : b > bulks' => b > bulks /\ b # bulks + 1
    BY <1>1, <1>2 DEF Bulks
  <2>3. \A b \in Bulks : b > bulks' => offset_'[b] = 0 /\ data_'[b] = "null"
    BY <1>1, <1>5, <2>2 DEF BulkCount
  <2>4. bulks' <= stored' + 1 \/ (bulks' = stored' + 2 /\ ppc' = "append" /\ offset_'[bulks'] = 0)
    BY <1>1, <1>2
  <2> QED
    BY <1>1, <2>1, <2>3, <2>4 DEF BulkCount
<1>9. SlotOwned'
  <2>1. \A t \in Slots : Live(t)' = Live(t)
    BY <1>1 DEF Live
  <2> SUFFICES ASSUME NEW b \in Bulks, data_'[b] = "slot"
               PROVE  Live(slot_[b])' /\ handler'[slot_'[b]] = b
    BY DEF SlotOwned
  <2>2. CASE b = bulks + 1
    BY <1>1, <1>3, <1>4, <2>1, <2>2 DEF Live
  <2>3. CASE b # bulks + 1
    <3>1. Live(slot_[b]) /\ handler[slot_[b]] = b /\ slot_[b] \in Slots
      BY <1>5, <2>3 DEF SlotOwned, RingTypes
    <3>2. slot_[b] # s
      BY <1>4, <3>1 DEF NoBulk, Bulks
    <3> QED
      BY <1>1, <1>4, <3>1, <3>2 DEF Live
  <2> QED
    BY <2>2, <2>3
<1>10. HandlerMatches'
  <2> SUFFICES ASSUME NEW t \in Slots, handler'[t] # NoBulk
               PROVE  data_'[handler'[t]] = "slot" /\ slot_'[handler'[t]] = t
    BY DEF HandlerMatches
  <2>1. CASE t = s
    BY <1>1, <1>3, <1>4, <1>5, <2>1
  <2>2. CASE t # s
    <3>1. handler'[t] = handler[t] /\ handler[t] \in Bulks
      BY <1>4, <2>2 DEF RingTypes, NoBulk
    <3>2. data_[handler[t]] = "slot" /\ slot_[handler[t]] = t
      BY <3>1 DEF HandlerMatches
    <3> QED
      BY <1>1, <1>2, <1>5, <3>1, <3>2
  <2> QED
    BY <2>1, <2>2
<1>11. UnboundSlot'
  BY <1>1 DEF UnboundSlot
<1>12. OpenBulk'
  <2>1. \A b \in Bulks : state_'[b] = "Appending" => b = bulks + 1
    BY <1>1, <1>5 DEF OpenBulk
  <2> QED
    BY <1>1, <1>3, <1>4, <1>5, <2>1 DEF OpenBulk, NextPosition
<1>13. InRing'
  <2>1. \A b \in Bulks : WWrites(b)' = WWrites(b)
    BY <1>1 DEF WWrites
  <2>2. ~ WWrites(bulks + 1)
    BY <1>2 DEF PassBound, SavePlaces, WWrites
  <2> QED
    BY <1>1, <1>5, <2>1, <2>2 DEF InRing, Running
<1>14. PassBound'
  <2>1. Size' = Size
    BY <1>1 DEF Size
  <2>2. wleft > 0 => NextPosition(read_position_) # write_position_
    BY PassLeavesTwo
  <2>3. wleft > 0 => handler'[read_position_] = handler[read_position_]
    BY <1>4, <2>2 DEF RingTypes
  <2>4. (wpc = "releaseFront") => wleft > 0
    BY DEF PassBound
  <2>5. wb \in 1 .. bulks => wb \in 1 .. bulks'
    BY <1>6
  <2> QED
    BY <1>1, <2>1, <2>3, <2>4, <2>5 DEF PassBound, SavePlaces
<1>15. LockExcludes'
  BY <1>1 DEF LockExcludes
<1>16. Wheels'
  <2>1. TimerUnits \subseteq TimerUnits'
    BY <1>6 DEF TimerUnits
  <2>2. \A b \in 1 .. bulks : b \in Bulks /\ data_'[b] = data_[b]
    BY <1>2, <1>5, Bounds DEF Bulks, RingTypes
  <2> QED
    BY <1>1, <1>6, <2>1, <2>2 DEF Wheels, TimerUnits
<1> QED
  BY <1>7, <1>8, <1>9, <1>10, <1>11, <1>12, <1>13, <1>14, <1>15, <1>16

LEMMA BuildIndexKeeps == IInv /\ BuildIndex => IInv'
<1> SUFFICES ASSUME IInv, BuildIndex PROVE IInv'
  OBVIOUS
<1> USE DEF IInv
<1>1. /\ ppc \in Kinds /\ ppc' = AfterBuild[ppc]
      /\ UNCHANGED <<bulks, state_, data_, slot_, offset_, handler, write_position_,
                     read_position_, stored, wpc, wb, wleft, todo, globalTrie, releaseWheel,
                     autosaveWheel>>
  BY DEF BuildIndex, bulkVars, indexVars, ringVars, wheelVars, queryVars, wVars, outVars
<1>2. ppc' \in {"word", "offset", "timestamp", "global"}
  BY <1>1, AfterBuildKinds
<1>3. /\ ppc \in (Appending \ {"append"}) /\ ppc # "crashed"
      /\ ppc' \in (Appending \ {"append"}) \cup {"global", "crashed"}
  BY <1>1, <1>2 DEF Appending, Kinds, Tries
<1>4. RingTypes'
  BY <1>1, <1>2, <1>3 DEF RingTypes, PPlaces, Kinds, Tries
<1>5. BulkCount'
  BY <1>1, <1>2, <1>3 DEF BulkCount, Appending, Kinds, Tries
<1>6. (SlotOwned /\ HandlerMatches)'
  BY <1>1 DEF SlotOwned, HandlerMatches, Live
<1>7. (UnboundSlot /\ OpenBulk /\ InRing)'
  BY <1>1, <1>2, <1>3 DEF UnboundSlot, OpenBulk, InRing, Running, WWrites
<1>8. (PassBound /\ LockExcludes /\ Wheels)'
  BY <1>1, <1>2 DEF PassBound, LockExcludes, Wheels, Size, TimerUnits
<1> QED
  BY <1>4, <1>5, <1>6, <1>7, <1>8

LEMMA FinishAppendKeeps == IInv /\ FinishAppend => IInv'
<1> SUFFICES ASSUME IInv, FinishAppend PROVE IInv'
  OBVIOUS
<1> USE DEF IInv
<1>1. /\ ppc = "global" /\ ppc' = "idle" /\ stored' = stored + 1
      /\ globalTrie' = [globalTrie EXCEPT ![KeyOf(NewLog)] = AddedToGlobal(@, bulks)]
      /\ UNCHANGED <<bulks, state_, data_, slot_, offset_, handler, write_position_,
                     read_position_, wpc, wb, wleft, todo, releaseWheel, autosaveWheel>>
  BY DEF FinishAppend, bulkVars, indexVars, ringVars, wheelVars, queryVars, wVars, outVars
<1>2. stored \in Nat /\ stored < MaxLogs
  BY <1>1, Bounds DEF BulkCount, RingTypes
<1>3. bulks \in 1 .. bulks
  BY Bounds DEF RingTypes, Bulks
<1>4. RingTypes'
  <2>1. \A list \in Seq(1 .. bulks) : AddedToGlobal(list, bulks) \in Seq(1 .. bulks)
    BY <1>3, AppendProperties DEF AddedToGlobal
  <2>2. globalTrie' \in [Keys -> Seq(1 .. bulks)]
    BY <1>1, <2>1 DEF RingTypes
  <2> QED
    BY <1>1, <1>2, <2>2, Bounds DEF RingTypes, PPlaces
<1>5. BulkCount'
  <2>1. bulks <= stored + 2
    BY <1>1, <1>2, <1>3 DEF BulkCount
  <2> QED
    BY <1>1, <1>2, <1>3, <2>1 DEF BulkCount, Appending, Kinds, Tries
<1>6. (SlotOwned /\ HandlerMatches)'
  BY <1>1 DEF SlotOwned, HandlerMatches, Live
<1>7. (UnboundSlot /\ OpenBulk /\ InRing)'
  BY <1>1 DEF UnboundSlot, OpenBulk, InRing, Running, WWrites
<1>8. (PassBound /\ LockExcludes /\ Wheels)'
  BY <1>1 DEF PassBound, LockExcludes, Wheels, Size, TimerUnits
<1> QED
  BY <1>4, <1>5, <1>6, <1>7, <1>8

LEMMA ReverseType ==
  ASSUME NEW S, NEW s \in Seq(S)
  PROVE  Reverse(s) \in Seq(S)
<1> DEFINE r == [i \in 1 .. Len(s) |-> s[(Len(s) - i) + 1]]
<1>1. Len(s) \in Nat /\ \A i \in 1 .. Len(s) : s[(Len(s) - i) + 1] \in S
  BY ElementOfSeq
<1>2. r \in [1 .. Len(s) -> S]
  BY <1>1
<1> QED
  BY <1>1, <1>2, IsASeq DEF Reverse

LEMMA StartQueryKeeps == IInv /\ StartQuery => IInv'
<1> SUFFICES ASSUME IInv, StartQuery PROVE IInv'
  OBVIOUS
<1> USE DEF IInv
<1>1. PICK kind \in QueryKinds, k \in Keys : todo' = ToVisit(kind, k)
  BY DEF StartQuery
<1>2. /\ ppc = "idle" /\ ppc' = "visit"
      /\ UNCHANGED <<bulks, state_, data_, slot_, offset_, handler, write_position_,
                     read_position_, stored, wpc, wb, wleft, globalTrie, releaseWheel,
                     autosaveWheel>>
  BY DEF StartQuery, bulkVars, indexVars, ringVars, wheelVars, wVars
<1>3. todo' \in Seq(1 .. bulks)
  <2>1. globalTrie[k] \in Seq(1 .. bulks) /\ Reverse(globalTrie[k]) \in Seq(1 .. bulks)
    BY <1>1, ReverseType DEF RingTypes
  <2>2. [b \in 1 .. bulks |-> b] \in Seq(1 .. bulks)
    BY Bounds, IsASeq DEF RingTypes, Bulks
  <2>3. Reverse([b \in 1 .. bulks |-> b]) \in Seq(1 .. bulks)
    BY <2>2, ReverseType
  <2> QED
    BY <1>1, <2>1, <2>3 DEF ToVisit
<1>4. RingTypes'
  BY <1>2, <1>3 DEF RingTypes, PPlaces
<1>5. BulkCount'
  BY <1>2 DEF BulkCount, Appending, Kinds, Tries
<1>6. (SlotOwned /\ HandlerMatches)'
  BY <1>2 DEF SlotOwned, HandlerMatches, Live
<1>7. (UnboundSlot /\ OpenBulk /\ InRing)'
  BY <1>2 DEF UnboundSlot, OpenBulk, InRing, Running, WWrites
<1>8. (PassBound /\ LockExcludes /\ Wheels)'
  BY <1>2 DEF PassBound, LockExcludes, Wheels, Size, TimerUnits
<1> QED
  BY <1>4, <1>5, <1>6, <1>7, <1>8

LEMMA VisitBulkKeeps == IInv /\ VisitBulk => IInv'
<1> SUFFICES ASSUME IInv, VisitBulk PROVE IInv'
  OBVIOUS
<1> USE DEF IInv
<1> DEFINE b == Head(todo)
<1>1. /\ ppc = "visit" /\ ppc' = "read" /\ todo # <<>> /\ ~ WWrites(b)
      /\ releaseWheel' = releaseWheel \/ releaseWheel' = SetTimer(b, state_[b])
      /\ UNCHANGED <<bulks, state_, data_, slot_, offset_, handler, write_position_,
                     read_position_, stored, wpc, wb, wleft, todo, globalTrie, autosaveWheel>>
  BY DEF VisitBulk, bulkVars, indexVars, ringVars, wheelVars, queryVars, wVars, outVars
<1>2. b \in 1 .. bulks /\ b \in Bulks
  BY <1>1, HeadTailProperties, Bounds DEF RingTypes, Bulks
<1>3. RingTypes'
  BY <1>1 DEF RingTypes, PPlaces
<1>4. BulkCount'
  BY <1>1 DEF BulkCount, Appending, Kinds, Tries
<1>5. (SlotOwned /\ HandlerMatches)'
  BY <1>1 DEF SlotOwned, HandlerMatches, Live
<1>6. (UnboundSlot /\ OpenBulk /\ InRing)'
  BY <1>1 DEF UnboundSlot, OpenBulk, InRing, Running, WWrites
<1>7. PassBound'
  BY <1>1 DEF PassBound, Size
<1>8. LockExcludes'
  BY <1>1 DEF LockExcludes, WWrites
<1>9. Wheels'
  <2>1. CASE releaseWheel' = releaseWheel
    BY <1>1, <2>1 DEF Wheels, TimerUnits
  <2>2. CASE releaseWheel' = ResetTimer(releaseWheel, b, ReleaseTicks) /\ data_[b] # "slot"
    <3>1. /\ releaseWheel' \subseteq TimerUnits
          /\ \A u \in releaseWheel' : u \in releaseWheel \/ u.bulk = b
      BY <1>2, <2>2, ResetTimerUnits, Bounds DEF Wheels
    <3> QED
      BY <1>1, <2>2, <3>1 DEF Wheels, TimerUnits
  <2>3. state_[b] \notin {"Appending", "InQueue"} => data_[b] # "slot"
    BY <1>1, <1>2 DEF InRing, Running
  <2> QED
    BY <1>1, <2>1, <2>2, <2>3 DEF SetTimer
<1> QED
  BY <1>3, <1>4, <1>5, <1>6, <1>7, <1>8, <1>9

LEMMA PassBulkKeeps == IInv /\ PassBulk => IInv'
<1> SUFFICES ASSUME IInv, PassBulk PROVE IInv'
  OBVIOUS
<1> USE DEF IInv
<1>1. /\ ppc = "read" /\ ppc' = "visit" /\ todo' = Tail(todo)
      /\ UNCHANGED <<bulks, state_, data_, slot_, offset_, handler, write_position_,
                     read_position_, stored, wpc, wb, wleft, globalTrie, releaseWheel,
                     autosaveWheel>>
  BY DEF PassBulk, bulkVars, indexVars, ringVars, wheelVars, queryVars, wVars, outVars
<1>2. todo # <<>>
  BY <1>1 DEF LockExcludes
<1>3. RingTypes'
  BY <1>1, <1>2, HeadTailProperties DEF RingTypes, PPlaces
<1>4. BulkCount'
  BY <1>1 DEF BulkCount, Appending, Kinds, Tries
<1>5. (SlotOwned /\ HandlerMatches)'
  BY <1>1 DEF SlotOwned, HandlerMatches, Live
<1>6. (UnboundSlot /\ OpenBulk /\ InRing)'
  BY <1>1 DEF UnboundSlot, OpenBulk, InRing, Running, WWrites
<1>7. (PassBound /\ LockExcludes /\ Wheels)'
  BY <1>1 DEF PassBound, LockExcludes, Wheels, Size, TimerUnits
<1> QED
  BY <1>3, <1>4, <1>5, <1>6, <1>7

LEMMA ReadBulkKeeps == IInv /\ ReadBulk => IInv'
<1> SUFFICES ASSUME IInv, ReadBulk PROVE IInv'
  OBVIOUS
<1> USE DEF IInv
<1> DEFINE b == Head(todo)
<1>1. /\ ppc = "read" /\ ppc' = "visit" /\ todo' = Tail(todo)
      /\ \/ /\ state_[b] = "Saved"
            /\ state_' = [state_ EXCEPT ![b] = "InMemory"]
            /\ data_' = [data_ EXCEPT ![b] = "heap"]
            /\ releaseWheel' = SetTimer(b, "InMemory")
         \/ UNCHANGED <<state_, data_, releaseWheel>>
      /\ UNCHANGED <<bulks, slot_, offset_, handler, write_position_, read_position_,
                     stored, wpc, wb, wleft, globalTrie, autosaveWheel>>
  BY DEF ReadBulk, MustLoad, bulkVars, indexVars, ringVars, wheelVars, queryVars, wVars, outVars
<1>2. todo # <<>>
  BY <1>1 DEF LockExcludes
<1>3. b \in 1 .. bulks /\ b \in Bulks /\ todo' \in Seq(1 .. bulks)
  BY <1>1, <1>2, HeadTailProperties, Bounds DEF RingTypes, Bulks
<1>4. CASE UNCHANGED <<state_, data_, releaseWheel>>
  <2>1. RingTypes'
    BY <1>1, <1>3, <1>4 DEF RingTypes, PPlaces
  <2>2. BulkCount'
    BY <1>1, <1>4 DEF BulkCount, Appending, Kinds, Tries
  <2>3. (SlotOwned /\ HandlerMatches)'
    BY <1>1, <1>4 DEF SlotOwned, HandlerMatches, Live
  <2>4. (UnboundSlot /\ OpenBulk /\ InRing)'
    BY <1>1, <1>4 DEF UnboundSlot, OpenBulk, InRing, Running, WWrites
  <2>5. (PassBound /\ LockExcludes /\ Wheels)'
    BY <1>1, <1>4 DEF PassBound, LockExcludes, Wheels, Size, TimerUnits
  <2> QED
    BY <2>1, <2>2, <2>3, <2>4, <2>5
<1>5. CASE /\ state_[b] = "Saved"
           /\ state_' = [state_ EXCEPT ![b] = "InMemory"]
           /\ data_' = [data_ EXCEPT ![b] = "heap"]
           /\ releaseWheel' = SetTimer(b, "InMemory")
(* The lock keeps the worker out: a bulk that is Saved has left the ring.  *)
  <2>1. data_[b] # "slot"
    BY <1>1, <1>3, <1>5 DEF InRing, Running, LockExcludes, WWrites
  <2>2. /\ data_'[b] = "heap" /\ state_'[b] = "InMemory"
        /\ \A c \in Bulks : c # b => data_'[c] = data_[c] /\ state_'[c] = state_[c]
    BY <1>3, <1>5 DEF RingTypes
  <2>3. RingTypes'
    BY <1>1, <1>3, <1>5 DEF RingTypes, PPlaces, States
  <2>4. BulkCount'
    <3>1. \A c \in Bulks : c > bulks => c # b
      BY <1>3 DEF Bulks, RingTypes
    <3> QED
      BY <1>1, <2>2, <3>1 DEF BulkCount, Appending, Kinds, Tries
  <2>5. SlotOwned'
    BY <1>1, <2>2 DEF SlotOwned, Live
  <2>6. HandlerMatches'
    <3>1. \A s \in Slots : handler[s] # NoBulk => handler[s] \in Bulks /\ handler[s] # b
      BY <2>1 DEF HandlerMatches, RingTypes
    <3> QED
      BY <1>1, <2>2, <3>1 DEF HandlerMatches
  <2>7. (UnboundSlot /\ OpenBulk)'
    BY <1>1, <2>2 DEF UnboundSlot, OpenBulk, Live
  <2>8. InRing'
    BY <1>1, <2>2 DEF InRing, Running, WWrites, LockExcludes
  <2>9. (PassBound /\ LockExcludes)'
    BY <1>1 DEF PassBound, LockExcludes, Size
  <2>10. Wheels'
    <3>1. releaseWheel' = ResetTimer(releaseWheel, b, ReleaseTicks)
      BY <1>5 DEF SetTimer
    <3>2. \A u \in releaseWheel' : u \in TimerUnits /\ (u \in releaseWheel \/ u.bulk = b)
      BY <1>3, <3>1, ResetTimerUnits, Bounds DEF Wheels
    <3>3. ASSUME NEW c \in 1 .. bulks
          PROVE  c \in Bulks /\ (data_[c] # "slot" => data_'[c] # "slot")
      <4>1. c \in Bulks
        BY Bounds DEF RingTypes, Bulks
      <4> QED
        BY <2>2, <4>1
    <3>4. ASSUME NEW u \in releaseWheel' PROVE data_'[u.bulk] # "slot"
      <4>1. CASE u.bulk = b
        BY <2>2, <4>1
      <4>2. CASE u \in releaseWheel
        <5>1. u.bulk \in 1 .. bulks /\ data_[u.bulk] # "slot"
          BY <4>2 DEF Wheels, TimerUnits
        <5> QED
          BY <3>3, <5>1
      <4> QED
        BY <3>2, <4>1, <4>2
    <3> QED
      BY <1>1, <3>2, <3>3, <3>4 DEF Wheels, TimerUnits
  <2> QED
    BY <2>3, <2>4, <2>5, <2>6, <2>7, <2>8, <2>9, <2>10
<1> QED
  BY <1>1, <1>4, <1>5

LEMMA AppendCheckKeeps == IInv /\ AppendCheck => IInv'
<1> SUFFICES ASSUME IInv, AppendCheck PROVE IInv'
  OBVIOUS
<1> USE DEF IInv
<1>1. /\ ppc = "idle" /\ stored < MaxLogs
      /\ \/ ppc' = "append"
         \/ ppc' = "new" /\ state_[bulks] # "Appending"
      /\ UNCHANGED <<bulks, state_, data_, slot_, offset_, handler, write_position_,
                     read_position_, stored, wpc, wb, wleft, todo, globalTrie,
                     releaseWheel, autosaveWheel>>
  BY DEF AppendCheck, TakesLogs, bulkVars, indexVars, ringVars, wheelVars, queryVars, wVars, outVars
<1>2. RingTypes'
  BY <1>1 DEF RingTypes, PPlaces
<1>3. BulkCount'
  BY <1>1 DEF BulkCount, Appending, Kinds, Tries
<1>4. (SlotOwned /\ HandlerMatches)'
  BY <1>1 DEF SlotOwned, HandlerMatches, Live
<1>5. (UnboundSlot /\ OpenBulk /\ InRing)'
  BY <1>1 DEF UnboundSlot, OpenBulk, InRing, Running, WWrites, Live
<1>6. (PassBound /\ LockExcludes /\ Wheels)'
  BY <1>1 DEF PassBound, LockExcludes, Wheels, Size, TimerUnits
<1> QED
  BY <1>2, <1>3, <1>4, <1>5, <1>6

LEMMA BuildCheckKeeps == IInv /\ BuildCheck => IInv'
<1> SUFFICES ASSUME IInv, BuildCheck PROVE IInv'
  OBVIOUS
<1> USE DEF IInv
<1>1. /\ ppc = "index" /\ ppc' \in {"key", "global"}
      /\ UNCHANGED <<bulks, state_, data_, slot_, offset_, handler, write_position_,
                     read_position_, stored, wpc, wb, wleft, todo, globalTrie,
                     releaseWheel, autosaveWheel>>
  BY DEF BuildCheck, TakesLogs, bulkVars, indexVars, ringVars, wheelVars, queryVars, wVars, outVars
<1>2. RingTypes'
  BY <1>1 DEF RingTypes, PPlaces, Kinds, Tries
<1>3. BulkCount'
  BY <1>1 DEF BulkCount, Appending, Kinds, Tries
<1>4. (SlotOwned /\ HandlerMatches)'
  BY <1>1 DEF SlotOwned, HandlerMatches, Live
<1>5. (UnboundSlot /\ OpenBulk /\ InRing)'
  BY <1>1 DEF UnboundSlot, OpenBulk, InRing, Running, WWrites, Live
<1>6. (PassBound /\ LockExcludes /\ Wheels)'
  BY <1>1 DEF PassBound, LockExcludes, Wheels, Size, TimerUnits
<1> QED
  BY <1>2, <1>3, <1>4, <1>5, <1>6

LEMMA FinishQueryKeeps == IInv /\ FinishQuery => IInv'
<1> SUFFICES ASSUME IInv, FinishQuery PROVE IInv'
  OBVIOUS
<1> USE DEF IInv
<1>1. /\ ppc = "visit" /\ ppc' = "idle" /\ todo' = <<>>
      /\ UNCHANGED <<bulks, state_, data_, slot_, offset_, handler, write_position_,
                     read_position_, stored, wpc, wb, wleft, globalTrie, releaseWheel,
                     autosaveWheel>>
  BY DEF FinishQuery, bulkVars, indexVars, ringVars, wheelVars, queryVars, wVars, outVars
<1>2. RingTypes'
  BY <1>1 DEF RingTypes, PPlaces
<1>3. BulkCount'
  BY <1>1 DEF BulkCount, Appending, Kinds, Tries
<1>4. (SlotOwned /\ HandlerMatches)'
  BY <1>1 DEF SlotOwned, HandlerMatches, Live
<1>5. (UnboundSlot /\ OpenBulk /\ InRing)'
  BY <1>1 DEF UnboundSlot, OpenBulk, InRing, Running, WWrites, Live
<1>6. (PassBound /\ LockExcludes /\ Wheels)'
  BY <1>1 DEF PassBound, LockExcludes, Wheels, Size, TimerUnits
<1> QED
  BY <1>2, <1>3, <1>4, <1>5, <1>6

(* The three crashes stop both threads where they are. *)
LEMMA CrashKeeps == IInv /\ (AppendToNull \/ ReadNothing \/ SaveNull) => IInv'
<1> SUFFICES ASSUME IInv, AppendToNull \/ ReadNothing \/ SaveNull PROVE IInv'
  OBVIOUS
<1> USE DEF IInv
<1>1. /\ ppc' = "crashed" /\ wpc' = "crashed"
      /\ ppc \in {"append", "read"} \/ wpc = "lock"
      /\ UNCHANGED <<bulks, state_, data_, slot_, offset_, handler, write_position_,
                     read_position_, stored, wb, wleft, todo, globalTrie, releaseWheel,
                     autosaveWheel>>
  BY DEF AppendToNull, ReadNothing, SaveNull, Crash, bulkVars, indexVars, ringVars, wheelVars,
         queryVars, wVars, outVars
<1>2. RingTypes'
  BY <1>1 DEF RingTypes, PPlaces, WPlaces
<1>3. BulkCount'
  BY <1>1 DEF BulkCount, Appending, Kinds, Tries
<1>4. (SlotOwned /\ HandlerMatches)'
  BY <1>1 DEF SlotOwned, HandlerMatches, Live
<1>5. (UnboundSlot /\ OpenBulk /\ InRing)'
  BY <1>1 DEF UnboundSlot, OpenBulk, InRing, Running, WWrites, Kinds, Tries
<1>6. (PassBound /\ LockExcludes /\ Wheels)'
  BY <1>1 DEF PassBound, LockExcludes, Wheels, Size, TimerUnits, SavePlaces, Kinds, Tries
<1> QED
  BY <1>2, <1>3, <1>4, <1>5, <1>6

(* A step of the worker that moves no bulk and no slot. *)
LEMMA WorkerMovesOn ==
  ASSUME IInv, wpc # "crashed", wpc' \in WPlaces \ {"crashed"}, wleft' \in 0 .. Threshold - 1,
         UNCHANGED <<bulks, state_, data_, slot_, offset_, handler, write_position_,
                     read_position_, stored, ppc, todo, globalTrie>>
  PROVE  (RingTypes /\ BulkCount /\ SlotOwned /\ HandlerMatches /\ UnboundSlot /\ OpenBulk)'
<1> USE DEF IInv
<1>1. RingTypes'
  BY DEF RingTypes
<1>2. BulkCount'
  BY DEF BulkCount
<1>3. (SlotOwned /\ HandlerMatches)'
  BY DEF SlotOwned, HandlerMatches, Live
<1>4. (UnboundSlot /\ OpenBulk)'
  BY DEF UnboundSlot, OpenBulk, Live
<1> QED
  BY <1>1, <1>2, <1>3, <1>4

LEMMA CheckQueueKeeps == IInv /\ CheckQueue => IInv'
<1> SUFFICES ASSUME IInv, CheckQueue PROVE IInv'
  OBVIOUS
<1> USE DEF IInv
<1>1. /\ wpc = "queue"
      /\ \/ wpc' = "front" /\ wleft' = Threshold - 1 /\ Size >= Threshold
         \/ wpc' = "tick" /\ wleft' = 0
      /\ UNCHANGED <<bulks, state_, data_, slot_, offset_, handler, write_position_,
                     read_position_, stored, ppc, wb, todo, globalTrie, releaseWheel,
                     autosaveWheel>>
  BY DEF CheckQueue, PassDue, PassLength, bulkVars, indexVars, ringVars, wheelVars,
         queryVars, wVars, outVars
<1>2. wleft' \in 0 .. Threshold - 1 /\ wpc # "crashed"
  BY <1>1, Bounds
<1>3. (RingTypes /\ BulkCount /\ SlotOwned /\ HandlerMatches /\ UnboundSlot /\ OpenBulk)'
  BY <1>1, <1>2, WorkerMovesOn DEF WPlaces, Kinds, Tries
<1>4. InRing'
  BY <1>1 DEF InRing, Running, WWrites, Kinds, Tries
<1>5. PassBound'
  <2>1. Size' = Size
    BY <1>1 DEF Size
  <2>2. wleft' > 0 => Size' >= wleft' + 1
    BY <1>1, <2>1, Bounds
  <2> QED
    BY <1>1, <2>2, Bounds DEF PassBound, SavePlaces, Kinds, Tries
<1>6. LockExcludes'
  BY <1>1 DEF LockExcludes, Kinds, Tries
<1>7. Wheels'
  BY <1>1 DEF Wheels, TimerUnits
<1> QED
  BY <1>3, <1>4, <1>5, <1>6, <1>7

LEMMA FrontUnitKeeps == IInv /\ FrontUnit => IInv'
<1> SUFFICES ASSUME IInv, FrontUnit PROVE IInv'
  OBVIOUS
<1> USE DEF IInv
<1>1. /\ wpc = "front" /\ wb' = handler[read_position_]
      /\ \/ wpc' = "releaseFront" /\ wb' = NoBulk
         \/ wpc' = "check" /\ wb' # NoBulk
      /\ UNCHANGED <<bulks, state_, data_, slot_, offset_, handler, write_position_,
                     read_position_, stored, ppc, wleft, todo, globalTrie, releaseWheel,
                     autosaveWheel>>
  BY DEF FrontUnit, bulkVars, indexVars, ringVars, wheelVars, queryVars, wVars, outVars
<1>2. wleft' \in 0 .. Threshold - 1 /\ wpc # "crashed"
  BY <1>1 DEF RingTypes, Kinds, Tries
<1>3. (RingTypes /\ BulkCount /\ SlotOwned /\ HandlerMatches /\ UnboundSlot /\ OpenBulk)'
  BY <1>1, <1>2, WorkerMovesOn DEF WPlaces, Kinds, Tries
<1>4. InRing'
  BY <1>1 DEF InRing, Running, WWrites, Kinds, Tries
<1>5. PassBound'
  <2>1. read_position_ \in Slots /\ handler[read_position_] \in Bulks \cup {NoBulk}
    BY DEF RingTypes
  <2>2. wb' # NoBulk => wb' \in 1 .. bulks
    <3> SUFFICES ASSUME wb' # NoBulk PROVE wb' \in 1 .. bulks
      OBVIOUS
    <3>1. wb' \in Bulks /\ data_[wb'] = "slot"
      BY <1>1, <2>1 DEF HandlerMatches
    <3>2. ~ (wb' > bulks)
      BY <3>1 DEF BulkCount
    <3> QED
      BY <3>1, <3>2, Bounds DEF Bulks, RingTypes
  <2> QED
    BY <1>1, <2>2 DEF PassBound, Size, SavePlaces, Kinds, Tries
<1>6. LockExcludes'
  BY <1>1 DEF LockExcludes, Kinds, Tries
<1>7. Wheels'
  BY <1>1 DEF Wheels, TimerUnits
<1> QED
  BY <1>3, <1>4, <1>5, <1>6, <1>7

LEMMA ReleaseFrontUnitKeeps == IInv /\ ReleaseFrontUnit => IInv'
<1> SUFFICES ASSUME IInv, ReleaseFrontUnit PROVE IInv'
  OBVIOUS
<1> USE DEF IInv
<1>1. /\ wpc = "releaseFront" /\ wleft' = wleft - 1 /\ wb' = NoBulk
      /\ read_position_' = NextPosition(read_position_)
      /\ \/ wpc' = "tick" /\ wleft' = 0
         \/ wpc' = "front" /\ wleft' # 0
      /\ UNCHANGED <<bulks, state_, data_, slot_, offset_, handler, write_position_,
                     stored, ppc, todo, globalTrie, releaseWheel, autosaveWheel>>
  BY DEF ReleaseFrontUnit, bulkVars, indexVars, ringVars, wheelVars, queryVars, wVars, outVars
<1>2. wleft > 0 /\ handler[read_position_] = NoBulk
  BY <1>1 DEF PassBound
<1>3. /\ Size \in Nat /\ wleft \in Nat /\ Size >= wleft + 1 /\ wleft' \in 0 .. Threshold - 1
      /\ read_position_ # write_position_ /\ NextPosition(read_position_) # write_position_
  BY <1>1, <1>2, PassLeavesTwo, Bounds DEF RingTypes
<1>4. RingTypes'
  BY <1>1, <1>3, NextPositionInSlots DEF RingTypes, WPlaces
<1>5. BulkCount'
  BY <1>1 DEF BulkCount
(* The slot set free has no bulk; all others stay live.                    *)
<1>6. \A s \in Slots : Live(s) /\ s # read_position_ => Live(s)'
  <2>1. read_position_ \in 0 .. QueueLen - 1 /\ write_position_ \in 0 .. QueueLen - 1
    BY DEF RingTypes, Slots
  <2> QED
    BY <1>1, <1>3, <2>1, Bounds DEF Live, NextPosition, Slots
<1>7. SlotOwned'
  <2> SUFFICES ASSUME NEW b \in Bulks, data_[b] = "slot"
               PROVE  Live(slot_[b])' /\ handler[slot_[b]] = b
    BY <1>1 DEF SlotOwned
  <2>1. Live(slot_[b]) /\ handler[slot_[b]] = b /\ slot_[b] \in Slots
    BY DEF SlotOwned, RingTypes
  <2>2. slot_[b] # read_position_
    BY <1>2, <2>1 DEF Bulks, NoBulk
  <2>3. PICK s \in Slots : s = slot_[b]
    BY <2>1
  <2> QED
    BY <1>1, <1>6, <2>1, <2>2, <2>3 DEF Live
<1>8. HandlerMatches'
  BY <1>1 DEF HandlerMatches
<1>9. UnboundSlot'
  <2> SUFFICES ASSUME ppc = "bind" PROVE UnboundSlot'
    BY <1>1 DEF UnboundSlot
  <2>1. PICK s \in Slots : s = slot_[bulks + 1]
    BY RoomForBulk DEF RingTypes
  <2>2. handler[s] = NoBulk /\ Live(s) /\ NextPosition(s) = write_position_
    BY <2>1 DEF UnboundSlot
  <2>3. Live(s)'
    BY <1>3, <1>6, <2>2
  <2> QED
    BY <1>1, <2>1, <2>2, <2>3 DEF UnboundSlot, Live, NextPosition
<1>10. (OpenBulk /\ InRing /\ LockExcludes)'
  BY <1>1 DEF OpenBulk, InRing, Running, WWrites, LockExcludes, NextPosition, Kinds, Tries
<1>11. PassBound'
  <2>1. read_position_ \in 0 .. QueueLen - 1 /\ write_position_ \in 0 .. QueueLen - 1
    BY DEF RingTypes, Slots
  <2>2. Size' = Size - 1
    BY <1>1, <1>3, <2>1, Bounds DEF Size, NextPosition
  <2>3. Size' >= wleft' + 1
    BY <1>1, <1>3, <2>2
  <2>4. wpc' = "front" => wleft' > 0
    BY <1>1, <1>3
  <2> QED
    BY <1>1, <2>3, <2>4 DEF PassBound, SavePlaces, Kinds, Tries
<1>12. Wheels'
  BY <1>1 DEF Wheels, TimerUnits
<1> QED
  BY <1>4, <1>5, <1>7, <1>8, <1>9, <1>10, <1>11, <1>12

LEMMA PersistenceCheckKeeps == IInv /\ PersistenceCheck => IInv'
<1> SUFFICES ASSUME IInv, PersistenceCheck PROVE IInv'
  OBVIOUS
<1> USE DEF IInv
<1>1. /\ wpc = "check"
      /\ \/ wpc' = "lock"
         \/ wpc' = Persisted /\ state_[wb] \notin {"InMemory", "InQueue", "Appending"}
      /\ UNCHANGED <<bulks, state_, data_, slot_, offset_, handler, write_position_,
                     read_position_, stored, ppc, wb, wleft, todo, globalTrie,
                     releaseWheel, autosaveWheel>>
  BY DEF PersistenceCheck, Saveable, bulkVars, indexVars, ringVars, wheelVars,
         queryVars, wVars, outVars
(* In a pass the bulk is still in the ring, and so is saved. *)
<1>2. wleft > 0 => state_[wb] \in {"InQueue", "Appending"}
  <2> SUFFICES ASSUME wleft > 0 PROVE state_[wb] \in {"InQueue", "Appending"}
    OBVIOUS
  <2>1. handler[read_position_] = wb /\ wb \in 1 .. bulks
    BY <1>1 DEF PassBound
  <2>2. wb # NoBulk /\ wb \in Bulks
    BY <2>1, Bounds DEF RingTypes, NoBulk, Bulks
  <2>3. data_[wb] = "slot"
    BY <2>1, <2>2 DEF HandlerMatches, RingTypes
  <2>4. ppc # "crashed"
    BY <1>1 DEF RingTypes
  <2> QED
    BY <1>1, <2>2, <2>3, <2>4 DEF InRing, Running, WWrites, Kinds, Tries
<1>3. /\ wleft' \in 0 .. Threshold - 1 /\ wpc # "crashed"
      /\ wpc' = "lock" \/ (wpc' = "autosaved" /\ ~ (wleft > 0))
  BY <1>1, <1>2 DEF RingTypes, Persisted
<1>4. (RingTypes /\ BulkCount /\ SlotOwned /\ HandlerMatches /\ UnboundSlot /\ OpenBulk)'
  BY <1>1, <1>3, WorkerMovesOn DEF WPlaces, Kinds, Tries
<1>5. InRing'
  BY <1>1, <1>3 DEF InRing, Running, WWrites, Kinds, Tries
<1>6. PassBound'
  BY <1>1, <1>3 DEF PassBound, Size, SavePlaces, Kinds, Tries
<1>7. LockExcludes'
  BY <1>1, <1>3 DEF LockExcludes, Kinds, Tries
<1>8. Wheels'
  BY <1>1, <1>3 DEF Wheels, TimerUnits
<1> QED
  BY <1>4, <1>5, <1>6, <1>7, <1>8

LEMMA SaveIndexKeeps == IInv /\ SaveIndex => IInv'
<1> SUFFICES ASSUME IInv, SaveIndex PROVE IInv'
  OBVIOUS
<1> USE DEF IInv
<1>1. /\ wpc \in Kinds /\ wpc' = AfterSave[wpc]
      /\ UNCHANGED <<bulks, state_, data_, slot_, offset_, handler, write_position_,
                     read_position_, stored, ppc, wb, wleft, todo, globalTrie,
                     releaseWheel, autosaveWheel>>
  BY DEF SaveIndex, bulkVars, indexVars, ringVars, wheelVars, queryVars,
         wVars, outVars
<1>2. wleft' \in 0 .. Threshold - 1 /\ wpc \in Kinds \cup {"detach"} /\ wpc # "crashed"
  BY <1>1 DEF RingTypes, Kinds, Tries
<1>3. wpc' \in Kinds \cup {"detach"} /\ wpc' # "crashed" /\ wpc' # "check" /\ wpc' # "front"
      /\ wpc' # "releaseFront" /\ wpc' # "release"
  BY <1>1, AfterSaveKinds DEF Kinds, Tries
<1>4. (RingTypes /\ BulkCount /\ SlotOwned /\ HandlerMatches /\ UnboundSlot /\ OpenBulk)'
  BY <1>1, <1>2, <1>3, WorkerMovesOn DEF WPlaces
<1>5. (InRing /\ LockExcludes)'
  BY <1>1, <1>2, <1>3 DEF InRing, Running, WWrites, LockExcludes
<1>6. PassBound'
  BY <1>1, <1>2, <1>3 DEF PassBound, Size, SavePlaces
<1>7. Wheels'
  BY <1>1, <1>3 DEF Wheels, TimerUnits
<1> QED
  BY <1>4, <1>5, <1>6, <1>7

LEMMA TickReleaseKeeps == IInv /\ TickRelease => IInv'
<1> SUFFICES ASSUME IInv, TickRelease PROVE IInv'
  OBVIOUS
<1> USE DEF IInv
<1>1. /\ wpc = "tick" /\ wpc' = "evict" /\ wb' = NoBulk
      /\ releaseWheel' = Ticked(releaseWheel)
      /\ UNCHANGED <<bulks, state_, data_, slot_, offset_, handler, write_position_,
                     read_position_, stored, ppc, wleft, todo, globalTrie, autosaveWheel>>
  BY DEF TickRelease, bulkVars, indexVars, ringVars, wheelVars, queryVars,
         wVars, outVars
<1>2. wleft' \in 0 .. Threshold - 1 /\ wpc # "crashed"
  BY <1>1 DEF RingTypes, Kinds, Tries
<1>3. (RingTypes /\ BulkCount /\ SlotOwned /\ HandlerMatches /\ UnboundSlot /\ OpenBulk)'
  BY <1>1, <1>2, WorkerMovesOn DEF WPlaces, Kinds, Tries
<1>4. (InRing /\ LockExcludes)'
  BY <1>1 DEF InRing, Running, WWrites, LockExcludes, Kinds, Tries
<1>5. PassBound'
  BY <1>1 DEF PassBound, Size, SavePlaces, Kinds, Tries
<1>6. Wheels'
  <2>1. /\ releaseWheel' \subseteq TimerUnits
        /\ \A u \in releaseWheel' : \E v \in releaseWheel : u.bulk = v.bulk
    BY <1>1, TickedUnits DEF Wheels
  <2> QED
    BY <1>1, <2>1 DEF Wheels, TimerUnits
<1> QED
  BY <1>3, <1>4, <1>5, <1>6

LEMMA PopReleaseKeeps == IInv /\ PopRelease => IInv'
<1> SUFFICES ASSUME IInv, PopRelease PROVE IInv'
  OBVIOUS
<1> USE DEF IInv
<1>1. /\ wpc = "evict" /\ wpc' = "release"
      /\ \E u \in releaseWheel : releaseWheel' = releaseWheel \ {u} /\ wb' = u.bulk
      /\ UNCHANGED <<bulks, state_, data_, slot_, offset_, handler, write_position_,
                     read_position_, stored, ppc, wleft, todo, globalTrie, autosaveWheel>>
  BY DEF PopRelease, Due, bulkVars, indexVars, ringVars, wheelVars, queryVars,
         wVars, outVars
<1>2. wleft' \in 0 .. Threshold - 1 /\ wpc # "crashed"
  BY <1>1 DEF RingTypes, Kinds, Tries
<1>3. (RingTypes /\ BulkCount /\ SlotOwned /\ HandlerMatches /\ UnboundSlot /\ OpenBulk)'
  BY <1>1, <1>2, WorkerMovesOn DEF WPlaces, Kinds, Tries
<1>4. (InRing /\ LockExcludes)'
  BY <1>1 DEF InRing, Running, WWrites, LockExcludes, Kinds, Tries
<1>5. PassBound'
  BY <1>1 DEF PassBound, Size, SavePlaces, Kinds, Tries
<1>6. Wheels'
  BY <1>1 DEF Wheels, TimerUnits
<1> QED
  BY <1>3, <1>4, <1>5, <1>6

LEMMA ForgetReleaseKeeps == IInv /\ ForgetRelease => IInv'
<1> SUFFICES ASSUME IInv, ForgetRelease PROVE IInv'
  OBVIOUS
<1> USE DEF IInv
<1>1. /\ wpc = "released" /\ wpc' = "evict" /\ wb' = NoBulk
      /\ releaseWheel' = Forgotten(releaseWheel, wb)
      /\ UNCHANGED <<bulks, state_, data_, slot_, offset_, handler, write_position_,
                     read_position_, stored, ppc, wleft, todo, globalTrie, autosaveWheel>>
  BY DEF ForgetRelease, bulkVars, indexVars, ringVars, wheelVars, queryVars,
         wVars, outVars
<1>2. wleft' \in 0 .. Threshold - 1 /\ wpc # "crashed"
  BY <1>1 DEF RingTypes, Kinds, Tries
<1>3. (RingTypes /\ BulkCount /\ SlotOwned /\ HandlerMatches /\ UnboundSlot /\ OpenBulk)'
  BY <1>1, <1>2, WorkerMovesOn DEF WPlaces, Kinds, Tries
<1>4. (InRing /\ LockExcludes)'
  BY <1>1 DEF InRing, Running, WWrites, LockExcludes, Kinds, Tries
<1>5. PassBound'
  BY <1>1 DEF PassBound, Size, SavePlaces, Kinds, Tries
<1>6. Wheels'
  <2>1. /\ releaseWheel' \subseteq TimerUnits
        /\ \A u \in releaseWheel' : \E v \in releaseWheel : u.bulk = v.bulk
    BY <1>1, ForgottenUnits DEF Wheels
  <2> QED
    BY <1>1, <2>1 DEF Wheels, TimerUnits
<1> QED
  BY <1>3, <1>4, <1>5, <1>6

LEMMA TickAutosaveKeeps == IInv /\ TickAutosave => IInv'
<1> SUFFICES ASSUME IInv, TickAutosave PROVE IInv'
  OBVIOUS
<1> USE DEF IInv
<1>1. /\ wpc = "evict" /\ wpc' = "autosave" /\ autosaveWheel' = Ticked(autosaveWheel)
      /\ UNCHANGED <<bulks, state_, data_, slot_, offset_, handler, write_position_,
                     read_position_, stored, ppc, wb, wleft, todo, globalTrie,
                     releaseWheel>>
  BY DEF TickAutosave, bulkVars, indexVars, ringVars, wheelVars, queryVars,
         wVars, outVars
<1>2. wleft' \in 0 .. Threshold - 1 /\ wpc # "crashed"
  BY <1>1 DEF RingTypes, Kinds, Tries
<1>3. (RingTypes /\ BulkCount /\ SlotOwned /\ HandlerMatches /\ UnboundSlot /\ OpenBulk)'
  BY <1>1, <1>2, WorkerMovesOn DEF WPlaces, Kinds, Tries
<1>4. (InRing /\ LockExcludes)'
  BY <1>1 DEF InRing, Running, WWrites, LockExcludes, Kinds, Tries
<1>5. PassBound'
  BY <1>1 DEF PassBound, Size, SavePlaces, Kinds, Tries
<1>6. Wheels'
  <2>1. /\ autosaveWheel' \subseteq TimerUnits
        /\ \A u \in autosaveWheel' : \E v \in autosaveWheel : u.bulk = v.bulk
    BY <1>1, TickedUnits DEF Wheels
  <2> QED
    BY <1>1, <2>1 DEF Wheels, TimerUnits
<1> QED
  BY <1>3, <1>4, <1>5, <1>6

LEMMA PopAutosaveKeeps == IInv /\ PopAutosave => IInv'
<1> SUFFICES ASSUME IInv, PopAutosave PROVE IInv'
  OBVIOUS
<1> USE DEF IInv
<1>1. /\ wpc = "autosave" /\ wpc' = "check"
      /\ \E u \in autosaveWheel : autosaveWheel' = autosaveWheel \ {u} /\ wb' = u.bulk
      /\ UNCHANGED <<bulks, state_, data_, slot_, offset_, handler, write_position_,
                     read_position_, stored, ppc, wleft, todo, globalTrie, releaseWheel>>
  BY DEF PopAutosave, Due, bulkVars, indexVars, ringVars, wheelVars, queryVars,
         wVars, outVars
<1>2. wleft' \in 0 .. Threshold - 1 /\ wpc # "crashed"
  BY <1>1 DEF RingTypes, Kinds, Tries
<1>3. (RingTypes /\ BulkCount /\ SlotOwned /\ HandlerMatches /\ UnboundSlot /\ OpenBulk)'
  BY <1>1, <1>2, WorkerMovesOn DEF WPlaces, Kinds, Tries
<1>4. (InRing /\ LockExcludes)'
  BY <1>1 DEF InRing, Running, WWrites, LockExcludes, Kinds, Tries
<1>5. PassBound'
  BY <1>1 DEF PassBound, Wheels, TimerUnits, Size, SavePlaces, Kinds, Tries
<1>6. Wheels'
  BY <1>1 DEF Wheels, TimerUnits
<1> QED
  BY <1>3, <1>4, <1>5, <1>6

LEMMA ForgetAutosaveKeeps == IInv /\ ForgetAutosave => IInv'
<1> SUFFICES ASSUME IInv, ForgetAutosave PROVE IInv'
  OBVIOUS
<1> USE DEF IInv
<1>1. /\ wpc = "autosaved" /\ wpc' = "autosave" /\ wb' = NoBulk
      /\ autosaveWheel' = Forgotten(autosaveWheel, wb)
      /\ UNCHANGED <<bulks, state_, data_, slot_, offset_, handler, write_position_,
                     read_position_, stored, ppc, wleft, todo, globalTrie, releaseWheel>>
  BY DEF ForgetAutosave, bulkVars, indexVars, ringVars, wheelVars, queryVars,
         wVars, outVars
<1>2. wleft' \in 0 .. Threshold - 1 /\ wpc # "crashed"
  BY <1>1 DEF RingTypes, Kinds, Tries
<1>3. (RingTypes /\ BulkCount /\ SlotOwned /\ HandlerMatches /\ UnboundSlot /\ OpenBulk)'
  BY <1>1, <1>2, WorkerMovesOn DEF WPlaces, Kinds, Tries
<1>4. (InRing /\ LockExcludes)'
  BY <1>1 DEF InRing, Running, WWrites, LockExcludes, Kinds, Tries
<1>5. PassBound'
  BY <1>1 DEF PassBound, Size, SavePlaces, Kinds, Tries
<1>6. Wheels'
  <2>1. /\ autosaveWheel' \subseteq TimerUnits
        /\ \A u \in autosaveWheel' : \E v \in autosaveWheel : u.bulk = v.bulk
    BY <1>1, ForgottenUnits DEF Wheels
  <2> QED
    BY <1>1, <2>1 DEF Wheels, TimerUnits
<1> QED
  BY <1>3, <1>4, <1>5, <1>6

LEMMA SleepKeeps == IInv /\ Sleep => IInv'
<1> SUFFICES ASSUME IInv, Sleep PROVE IInv'
  OBVIOUS
<1> USE DEF IInv
<1>1. /\ wpc = "autosave" /\ wpc' = "queue"
      /\ UNCHANGED <<bulks, state_, data_, slot_, offset_, handler, write_position_,
                     read_position_, stored, ppc, wb, wleft, todo, globalTrie,
                     releaseWheel, autosaveWheel>>
  BY DEF Sleep, bulkVars, indexVars, ringVars, wheelVars, queryVars,
         wVars, outVars
<1>2. wleft' \in 0 .. Threshold - 1 /\ wpc # "crashed"
  BY <1>1 DEF RingTypes, Kinds, Tries
<1>3. (RingTypes /\ BulkCount /\ SlotOwned /\ HandlerMatches /\ UnboundSlot /\ OpenBulk)'
  BY <1>1, <1>2, WorkerMovesOn DEF WPlaces, Kinds, Tries
<1>4. (InRing /\ LockExcludes)'
  BY <1>1 DEF InRing, Running, WWrites, LockExcludes, Kinds, Tries
<1>5. PassBound'
  BY <1>1 DEF PassBound, Size, SavePlaces, Kinds, Tries
<1>6. Wheels'
  BY <1>1 DEF Wheels, TimerUnits
<1> QED
  BY <1>3, <1>4, <1>5, <1>6

LEMMA SaveContentKeeps == IInv /\ SaveContent => IInv'
<1> SUFFICES ASSUME IInv, SaveContent PROVE IInv'
  OBVIOUS
<1> USE DEF IInv
<1>1. /\ wpc = "lock" /\ wpc' = "offset" /\ ~ PReads(wb)
      /\ state_' = [state_ EXCEPT ![wb] = "Saved"]
      /\ UNCHANGED <<bulks, data_, slot_, offset_, handler, write_position_,
                     read_position_, stored, ppc, wb, wleft, todo, globalTrie,
                     releaseWheel, autosaveWheel>>
  BY DEF SaveContent, bulkVars, indexVars, ringVars, wheelVars, queryVars,
         wVars, outVars
<1>2. wb \in Bulks /\ state_'[wb] = "Saved" /\ \A b \in Bulks : b # wb => state_'[b] = state_[b]
  BY <1>1, Bounds DEF PassBound, RingTypes, Bulks, SavePlaces
<1>3. RingTypes'
  BY <1>1, <1>2 DEF RingTypes, States, WPlaces, Kinds, Tries
<1>4. BulkCount'
  BY <1>1 DEF BulkCount
<1>5. (SlotOwned /\ HandlerMatches /\ UnboundSlot)'
  BY <1>1 DEF SlotOwned, HandlerMatches, UnboundSlot, Live
<1>6. OpenBulk'
  BY <1>1, <1>2 DEF OpenBulk
<1>7. InRing'
  BY <1>1, <1>2 DEF InRing, Running, WWrites, Kinds, Tries
<1>8. PassBound'
  BY <1>1 DEF PassBound, Size, SavePlaces, Kinds, Tries
<1>9. LockExcludes'
  BY <1>1 DEF LockExcludes, PReads
<1>10. Wheels'
  BY <1>1 DEF Wheels, TimerUnits
<1> QED
  BY <1>3, <1>4, <1>5, <1>6, <1>7, <1>8, <1>9, <1>10

LEMMA ReleaseSpaceKeeps == IInv /\ ReleaseSpace => IInv'
<1> SUFFICES ASSUME IInv, ReleaseSpace PROVE IInv'
  OBVIOUS
<1> USE DEF IInv
<1>1. /\ wpc = "release" /\ wpc' = "released"
      /\ state_' = [state_ EXCEPT ![wb] = "Saved"]
      /\ data_' = [data_ EXCEPT ![wb] = IF state_[wb] = "Saved" THEN @ ELSE "null"]
      /\ UNCHANGED <<bulks, slot_, offset_, handler, write_position_, read_position_,
                     stored, ppc, wb, wleft, todo, globalTrie, releaseWheel,
                     autosaveWheel>>
  BY DEF ReleaseSpace, bulkVars, indexVars, ringVars, wheelVars, queryVars,
         wVars, outVars
<1>2. wb \in 1 .. bulks /\ wb \in Bulks /\ data_[wb] # "slot"
  BY <1>1, Bounds DEF Wheels, RingTypes, Bulks
<1>3. /\ state_'[wb] = "Saved" /\ data_'[wb] # "slot" /\ data_'[wb] \in {"null", "heap"}
      /\ \A b \in Bulks : b # wb => state_'[b] = state_[b] /\ data_'[b] = data_[b]
  BY <1>1, <1>2 DEF RingTypes
<1>4. RingTypes'
  <2>1. data_' \in [Bulks -> {"null", "slot", "heap"}]
    BY <1>1, <1>2, <1>3 DEF RingTypes
  <2> QED
    BY <1>1, <1>2, <2>1 DEF RingTypes, States, WPlaces, Kinds, Tries
<1>5. BulkCount'
  <2>1. \A b \in Bulks : b > bulks => b # wb
    BY <1>2, Bounds DEF Bulks, RingTypes
  <2> QED
    BY <1>1, <1>3, <2>1 DEF BulkCount
<1>6. SlotOwned'
  BY <1>1, <1>3 DEF SlotOwned, Live
<1>7. HandlerMatches'
  <2>1. \A s \in Slots : handler[s] # NoBulk => handler[s] \in Bulks /\ handler[s] # wb
    BY <1>2 DEF HandlerMatches, RingTypes
  <2> QED
    BY <1>1, <1>3, <2>1 DEF HandlerMatches
<1>8. (UnboundSlot /\ OpenBulk)'
  BY <1>1, <1>3 DEF UnboundSlot, OpenBulk, Live
<1>9. InRing'
  BY <1>1, <1>3 DEF InRing, Running, WWrites, Kinds, Tries
<1>10. (PassBound /\ LockExcludes)'
  BY <1>1 DEF PassBound, Size, SavePlaces, LockExcludes, Kinds, Tries
<1>11. Wheels'
  <2>1. \A b \in 1 .. bulks : b \in Bulks
    BY Bounds DEF RingTypes, Bulks
  <2> QED
    BY <1>1, <1>3, <2>1 DEF Wheels, TimerUnits
<1> QED
  BY <1>4, <1>5, <1>6, <1>7, <1>8, <1>9, <1>10, <1>11

LEMMA DetachKeeps == IInv /\ Detach => IInv'
<1> SUFFICES ASSUME IInv, Detach PROVE IInv'
  OBVIOUS
<1> USE DEF IInv
<1>1. /\ wpc = "detach" /\ wpc' = Persisted
      /\ handler' = IF data_[wb] = "slot" THEN [handler EXCEPT ![slot_[wb]] = NoBulk]
                                          ELSE handler
      /\ data_' = [data_ EXCEPT ![wb] = "null"]
      /\ UNCHANGED <<bulks, state_, slot_, offset_, write_position_, read_position_,
                     stored, ppc, wb, wleft, todo, globalTrie, releaseWheel,
                     autosaveWheel>>
  BY DEF Detach, bulkVars, indexVars, ringVars, wheelVars, queryVars,
         wVars, outVars
<1>2. wb \in 1 .. bulks /\ wb \in Bulks /\ wb # NoBulk
  BY <1>1, Bounds DEF PassBound, RingTypes, Bulks, NoBulk, SavePlaces
<1>3. data_'[wb] = "null" /\ \A b \in Bulks : b # wb => data_'[b] = data_[b]
  BY <1>1, <1>2 DEF RingTypes
(* The slot that pointed to the bulk points to none; all others are left.  *)
<1>4. \A s \in Slots : handler'[s] = IF handler[s] = wb THEN NoBulk ELSE handler[s]
  <2>1. CASE data_[wb] = "slot"
    <3>1. slot_[wb] \in Slots /\ handler[slot_[wb]] = wb
      BY <1>2, <2>1 DEF SlotOwned, RingTypes
    <3>2. \A s \in Slots : handler[s] = wb => s = slot_[wb]
      BY <1>2 DEF HandlerMatches
    <3> QED
      BY <1>1, <2>1, <3>1, <3>2 DEF RingTypes
  <2>2. CASE data_[wb] # "slot"
    <3>1. \A s \in Slots : handler[s] # wb
      BY <1>2, <2>2 DEF HandlerMatches
    <3> QED
      BY <1>1, <2>2, <3>1
  <2> QED
    BY <2>1, <2>2
<1>5. wpc' \in {"releaseFront", "autosaved"} /\ (wpc' = "releaseFront" <=> wleft > 0)
  BY <1>1 DEF Persisted
<1>6. RingTypes'
  <2>1. handler' \in [Slots -> Bulks \cup {NoBulk}]
    BY <1>1 DEF RingTypes
  <2> QED
    BY <1>1, <1>5, <2>1 DEF RingTypes, WPlaces
<1>7. BulkCount'
  BY <1>1, <1>3 DEF BulkCount
<1>8. SlotOwned'
  <2> SUFFICES ASSUME NEW b \in Bulks, data_'[b] = "slot"
               PROVE  Live(slot_[b])' /\ handler'[slot_[b]] = b
    BY <1>1 DEF SlotOwned
  <2>1. b # wb /\ Live(slot_[b]) /\ handler[slot_[b]] = b /\ slot_[b] \in Slots
    BY <1>3 DEF SlotOwned, RingTypes
  <2> QED
    BY <1>1, <1>4, <2>1 DEF Live
<1>9. HandlerMatches'
  <2> SUFFICES ASSUME NEW s \in Slots, handler'[s] # NoBulk
               PROVE  data_'[handler'[s]] = "slot" /\ slot_[handler'[s]] = s
    BY <1>1 DEF HandlerMatches
  <2>1. handler'[s] = handler[s] /\ handler[s] # wb /\ handler[s] \in Bulks
    BY <1>4 DEF RingTypes
  <2> QED
    BY <1>3, <2>1 DEF HandlerMatches
<1>10. UnboundSlot'
  <2> SUFFICES ASSUME ppc = "bind" PROVE UnboundSlot'
    BY <1>1 DEF UnboundSlot
  <2>1. slot_[bulks + 1] \in Slots
    BY RoomForBulk DEF RingTypes
  <2>2. handler'[slot_[bulks + 1]] = NoBulk
    BY <1>4, <2>1 DEF UnboundSlot
  <2> QED
    BY <1>1, <2>2 DEF UnboundSlot, Live, NextPosition
(* The bulk saved is marked as saved, and so is not the one that takes logs. *)
<1>11. state_[wb] = "Saved"
  BY <1>1, <1>2 DEF InRing, WWrites
<1>12. OpenBulk'
  BY <1>1, <1>2, <1>3, <1>11 DEF OpenBulk, NextPosition
<1>13. InRing'
  BY <1>1, <1>2, <1>3, <1>5, <1>11 DEF InRing, Running, WWrites, Kinds, Tries
<1>14. PassBound'
  <2>1. wleft > 0 => /\ read_position_ \in Slots /\ handler[read_position_] = wb
                     /\ handler'[read_position_] = NoBulk
    BY <1>1, <1>4 DEF PassBound, RingTypes, SavePlaces
  <2> QED
    BY <1>1, <1>5, <2>1 DEF PassBound, Size, SavePlaces, Kinds, Tries
<1>15. LockExcludes'
  BY <1>1, <1>5 DEF LockExcludes, Kinds, Tries
<1>16. Wheels'
  <2>1. \A b \in 1 .. bulks : b \in Bulks
    BY Bounds DEF RingTypes, Bulks
  <2> QED
    BY <1>1, <1>3, <1>5, <2>1 DEF Wheels, TimerUnits
<1> QED
  BY <1>6, <1>7, <1>8, <1>9, <1>10, <1>12, <1>13, <1>14, <1>15, <1>16

(* One bulk, in the first slot; the worker about to look at the ring.      *)
LEMMA InitKeeps == Init => IInv
<1> SUFFICES ASSUME Init PROVE IInv
  OBVIOUS
<1> USE DEF Init
<1>1. 1 \in Bulks /\ 0 \in Slots /\ 1 \in Slots
  BY Bounds DEF Bulks, Slots
<1>2. <<>> \in Seq(1 .. bulks)
  OBVIOUS
<1>3. RingTypes
  BY <1>1, <1>2, Bounds DEF RingTypes, States, PPlaces, WPlaces, NoBulk
<1>4. BulkCount
  BY Bounds DEF BulkCount, Appending, Kinds, Tries, Bulks
<1>5. \A b \in Bulks : data_[b] = "slot" => b = 1
  OBVIOUS
<1>6. SlotOwned
  BY <1>1, <1>5 DEF SlotOwned, Live
<1>7. HandlerMatches
  BY <1>1 DEF HandlerMatches, NoBulk
<1>8. UnboundSlot /\ LockExcludes
  BY DEF UnboundSlot, LockExcludes
<1>9. OpenBulk
  BY <1>1, Bounds DEF OpenBulk, NextPosition
<1>10. InRing
  BY <1>1 DEF InRing, Running, WWrites, Kinds, Tries
<1>11. PassBound
  BY DEF PassBound, SavePlaces, Kinds, Tries
<1>12. Wheels
  BY DEF Wheels
<1> QED
  BY <1>3, <1>4, <1>6, <1>7, <1>8, <1>9, <1>10, <1>11, <1>12 DEF IInv

LEMMA NextKeeps == IInv /\ [Next]_vars => IInv'
<1> SUFFICES ASSUME IInv, [Next]_vars PROVE IInv'
  OBVIOUS
<1>1. CASE ServeRequest
  BY <1>1, AppendFullKeeps, AppendFitsKeeps, GetUnitKeeps, BindUnitKeeps, BuildCheckKeeps,
     BuildIndexKeeps, FinishAppendKeeps, VisitBulkKeeps, PassBulkKeeps, ReadBulkKeeps,
     FinishQueryKeeps, CrashKeeps DEF ServeRequest
<1>2. CASE Worker
  BY <1>2, CheckQueueKeeps, FrontUnitKeeps, ReleaseFrontUnitKeeps, PersistenceCheckKeeps,
     SaveContentKeeps, SaveIndexKeeps, DetachKeeps, TickReleaseKeeps, PopReleaseKeeps,
     ReleaseSpaceKeeps, ForgetReleaseKeeps, TickAutosaveKeeps, PopAutosaveKeeps,
     ForgetAutosaveKeeps, SleepKeeps, CrashKeeps DEF Worker
<1>3. CASE AppendCheck \/ StartQuery
  BY <1>3, AppendCheckKeeps, StartQueryKeeps
<1>4. CASE UNCHANGED vars
  <2>1. UNCHANGED <<bulks, state_, data_, slot_, offset_, handler, write_position_,
                     read_position_, stored, ppc, wpc, wb, wleft, todo, globalTrie,
                     releaseWheel, autosaveWheel>>
    BY <1>4 DEF vars, bulkVars, indexVars, ringVars, wheelVars, queryVars, wVars, outVars
  <2>2. (RingTypes /\ BulkCount)'
    BY <2>1 DEF IInv, RingTypes, BulkCount
  <2>3. (SlotOwned /\ HandlerMatches /\ UnboundSlot /\ OpenBulk)'
    BY <2>1 DEF IInv, SlotOwned, HandlerMatches, UnboundSlot, OpenBulk, Live, NextPosition
  <2>4. (InRing /\ PassBound /\ LockExcludes)'
    BY <2>1 DEF IInv, InRing, Running, WWrites, PassBound, Size, LockExcludes
  <2>5. Wheels'
    BY <2>1 DEF IInv, Wheels, TimerUnits
  <2> QED
    BY <2>2, <2>3, <2>4, <2>5 DEF IInv
<1> QED
  BY <1>1, <1>2, <1>3, <1>4 DEF Next

(* Every reachable state satisfies the inductive invariant.                *)
THEOREM RingInvariant == Spec => []IInv
  BY InitKeeps, NextKeeps, PTL DEF Spec

(* A bulk owns the slot its data_ points to until it has been detached.    *)
THEOREM StoreOwnsSlots == Spec => []SlotOwned
<1>1. IInv => SlotOwned
  BY DEF IInv
<1> QED
  BY <1>1, RingInvariant, PTL

LEMMA PassSpares == IInv => PassSparesOpenBulks
<1> SUFFICES ASSUME IInv, wleft > 0
             PROVE  /\ wpc = "check" => state_[wb] # "Appending"
                    /\ ppc = "bind" => read_position_ # slot_[bulks + 1]
  BY DEF PassSparesOpenBulks
<1>1. NextPosition(read_position_) # write_position_
  BY PassLeavesTwo DEF IInv
<1>2. ASSUME wpc = "check", state_[wb] = "Appending" PROVE FALSE
  <2>1. handler[read_position_] = wb /\ wb \in 1 .. bulks /\ read_position_ \in Slots
    BY <1>2 DEF IInv, PassBound, RingTypes
  <2>2. wb # NoBulk /\ wb \in Bulks
    BY <2>1, Bounds DEF IInv, RingTypes, NoBulk, Bulks
  <2>3. slot_[wb] = read_position_
    BY <2>1, <2>2 DEF IInv, HandlerMatches
  <2> QED
    BY <1>1, <1>2, <2>2, <2>3 DEF IInv, OpenBulk
<1>3. ASSUME ppc = "bind", read_position_ = slot_[bulks + 1] PROVE FALSE
  BY <1>1, <1>3 DEF IInv, UnboundSlot
<1> QED
  BY <1>2, <1>3

(* A pass over the ring frees neither the slot of the bulk that takes logs *)
(* nor one that New_memory_bulk has not bound yet.                         *)
THEOREM StoreSparesOpenBulks == Spec => []PassSparesOpenBulks
  BY PassSpares, RingInvariant, PTL

(* Delete_Content never gets a slot of the ring to delete.                 *)
THEOREM StoreEvictsHeapOnly == Spec => []EvictionSparesRing
<1>1. IInv => EvictionSparesRing
  BY DEF IInv, Wheels, EvictionSparesRing
<1> QED
  BY <1>1, RingInvariant, PTL
=============================================================================
