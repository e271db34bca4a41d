----------------------------- MODULE TimerWheel -----------------------------
(***************************************************************************)
(* The timer wheels of log_processor (TimerWheel.h): three wheels of N     *)
(* slots, each turning once while the next moves by one slot.  A unit      *)
(* waits in a slot of the first wheel that can hold the time it has left,  *)
(* and moves down as that time passes.                                     *)
(*                                                                         *)
(* The persistence thread ticks the wheels and acts for the units that are *)
(* due; meanwhile the main thread sets timers (Set_timer of                *)
(* MemoryBulkHandler: DelTimer, then AddTimer).  There is no lock.  A step *)
(* reads or writes one thing both threads touch: a member's pointer, a     *)
(* unit's location, a wheel's index, or one list of units (an operation on *)
(* a list is one step).  Times are in ticks, so that the first wheel has   *)
(* interval 1.                                                             *)
(***************************************************************************)
EXTENDS Integers, Sequences, FiniteSets, SequencesExt

CONSTANTS Members,   \* the objects that timers are set for
          N,         \* slots of a wheel
          Times,     \* the times a timer may be set to
          Ids        \* addresses of units; bound: units in existence

ASSUME WheelAssumption ==
    /\ N \in Nat \ {0, 1}
    /\ Times \subseteq Nat \ {0}
    /\ Ids \subseteq Nat \ {0} /\ IsFiniteSet(Ids)

Wheels == 1 .. 3
Null == 0
Nowhere == <<0, 0>>
DelTimer == 0   \* the time of a timer that is only deleted: AddTimer returns at once

VARIABLES
    current_index_,   \* of each wheel
    slot_list_,       \* the list of units in each slot
    unit,             \* the units in existence: member_, time_, past_time_
    location_,        \* the slot whose list each unit is in
    timer_unit_p,     \* the unit each member points to
    turning,          \* worker: the wheel whose slot is being emptied
    hand, doing,      \* worker: the unit that has been popped, and what comes next
    at, obj, time,    \* setter: what comes next, the member and the time
    held,             \* setter: the unit it points to
    wheel, slot,      \* setter: the wheel, then the slot the unit goes to
    age,              \* history: ticks since the place of each unit was looked for
    hurried,          \* history: units placed while a wheel was about to follow
    races             \* history: the races between the threads that have happened

unitVars == <<slot_list_, unit, location_>>
worker == <<current_index_, turning, hand, doing>>
setter == <<at, obj, time, held, wheel, slot>>
history == <<age, hurried, races>>
vars == <<unitVars, timer_unit_p, worker, setter, history>>

interval_(w) == CASE w = 1 -> 1 [] w = 2 -> N [] w = 3 -> N * N
Slots == Wheels \X (0 .. N - 1)
Live == DOMAIN unit
LeftOf(id) == unit[id].time_ - unit[id].past_time_

(* What can come of the missing lock.  "shared": a thread has a unit in    *)
(* hand that the other has popped, or has deleted.  "missed": DelTimer     *)
(* finds no location, since the unit is on its way down.  "cleared": a     *)
(* unit that has acted clears its member's pointer to another.  "outrun":  *)
(* a wheel moves before a unit is put where its index said.                *)
Races == {"shared", "missed", "cleared", "outrun"}
Race(race, happens) == races' = races \cup (IF happens THEN {race} ELSE {})

Init ==
    /\ current_index_ = [w \in Wheels |-> 0]
    /\ slot_list_ = [s \in Slots |-> <<>>]
    /\ unit = <<>> /\ location_ = [id \in Ids |-> Nowhere]
    /\ timer_unit_p = [m \in Members |-> Null]
    /\ turning = Null /\ hand = Null /\ doing = "none"
    /\ at = "idle" /\ obj \in Members /\ time = DelTimer
    /\ held = Null /\ wheel = 1 /\ slot = Nowhere
    /\ age = [id \in Ids |-> 0] /\ hurried = {} /\ races = {}

-----------------------------------------------------------------------------
(* A wheel takes a unit if it can hold the time left; else the unit goes   *)
(* to the next, which moves when this one has come round.                  *)
TurnEnd_counting_slot(w) == (N - current_index_[w] - 1) * interval_(w)   \* a slip
TurnEnd(w) == (N - current_index_[w]) * interval_(w)

Holds(w, left) == w = 3 \/ left < N * interval_(w)

SlotOffset(w, left) ==
    LET offset == left \div interval_(w)
    IN  IF offset >= N THEN N - 1 ELSE IF offset < 1 THEN 1 ELSE offset

SlotAt_past_the_end(w, left) ==     \* a slip: the index is not taken modulo N
    <<w, current_index_[w] + SlotOffset(w, left)>>
SlotAt(w, left) == <<w, (current_index_[w] + SlotOffset(w, left)) % N>>

(* The time that passes before the slot is reached, and is recorded. *)
RunUp(w, left) == (SlotOffset(w, left) - 1) * interval_(w)

-----------------------------------------------------------------------------
(* The main thread.  DelTimer loads the member's pointer, reads the        *)
(* location of the unit, and unlinks and deletes it.                       *)
Rest(next) ==
    /\ at' = next
    /\ held' = Null /\ wheel' = 1 /\ slot' = Nowhere

AddNext(t) == Rest(IF t = DelTimer THEN "idle" ELSE "new")

SetTimer(m, t) ==
    /\ at = "idle"
    /\ obj' = m /\ time' = t
    /\ IF timer_unit_p[m] = Null
         THEN AddNext(t)
         ELSE at' = "follow" /\ held' = timer_unit_p[m] /\ UNCHANGED <<wheel, slot>>
    /\ UNCHANGED <<unitVars, timer_unit_p, worker, history>>

(* What GetLocation returns: the location is set after the insertion, and  *)
(* cleared by Pop.                                                         *)
GetLocation_of_new(id) ==      \* a slip: the second AddTimer does not set it
    IF hand = id \/ unit[id].past_time_ > 0 THEN Nowhere ELSE location_[id]
GetLocation(id) == IF hand = id /\ doing = "locate" THEN Nowhere ELSE location_[id]

Follow ==
    /\ at = "follow"
    /\ IF held \notin Live
         THEN /\ Race("shared", TRUE)
              /\ UNCHANGED setter
         ELSE /\ IF GetLocation(held) = Nowhere
                   THEN AddNext(time) /\ UNCHANGED <<obj, time>>
                   ELSE at' = "unlink" /\ UNCHANGED <<obj, time, held, wheel, slot>>
              /\ Race("missed", hand = held /\ doing \in {"move", "locate"})
    /\ UNCHANGED <<unitVars, timer_unit_p, worker, age, hurried>>

Without(list, id) == RemoveAt(list, CHOOSE i \in 1 .. Len(list) : list[i] = id)

Unlink ==
    /\ at = "unlink"
    /\ IF hand = held
         THEN /\ Race("shared", TRUE)
              /\ UNCHANGED <<unitVars, timer_unit_p, setter, hurried>>
         ELSE /\ slot_list_' = [slot_list_ EXCEPT ![location_[held]] = Without(@, held)]
              /\ location_' = [location_ EXCEPT ![held] = Nowhere]
              /\ unit' = [u \in Live \ {held} |-> unit[u]]
              /\ timer_unit_p' = [timer_unit_p EXCEPT ![obj] = Null]
              /\ hurried' = hurried \ {held}
              /\ AddNext(time) /\ UNCHANGED <<obj, time, races>>
    /\ UNCHANGED <<worker, age>>

(* AddTimer makes a unit, to which the member points; reads the index of a *)
(* wheel, and then of the next; and inserts the unit and sets its location.*)
New ==
    /\ at = "new"
    /\ \E id \in Ids \ Live :
         /\ \A other \in Ids \ Live : id <= other
         /\ unit' = [u \in Live \cup {id} |->
                        IF u = id THEN [member_ |-> obj, time_ |-> time, past_time_ |-> 0]
                                  ELSE unit[u]]
         /\ timer_unit_p' = [timer_unit_p EXCEPT ![obj] = id]
         /\ held' = id
         /\ age' = [age EXCEPT ![id] = 0]
    /\ at' = "add" /\ wheel' = 1
    /\ UNCHANGED <<slot_list_, location_, worker, obj, time, slot, hurried, races>>

AddTimer ==
    /\ at = "add"
    /\ LET left == LeftOf(held)
       IN  IF Holds(wheel, left)
             THEN /\ slot' = SlotAt(wheel, left)
                  /\ at' = "insert"
                  /\ unit' = [unit EXCEPT ![held].past_time_ =
                                 @ + (IF wheel = 1 THEN 0 ELSE RunUp(wheel, left))]
                  /\ UNCHANGED <<wheel, hurried>>
             ELSE /\ wheel' = wheel + 1
                  /\ unit' = [unit EXCEPT ![held].past_time_ = @ + TurnEnd(wheel)]
                  /\ hurried' = hurried \cup
                         (IF turning = wheel /\ current_index_[wheel] = 0 THEN {held} ELSE {})
                  /\ UNCHANGED <<at, slot>>
    /\ UNCHANGED <<slot_list_, location_, timer_unit_p, worker, obj, time, held, age, races>>

Insert ==
    /\ at = "insert"
    /\ slot_list_' = [slot_list_ EXCEPT ![slot] = <<held>> \o @]
    /\ location_' = [location_ EXCEPT ![held] = slot]
    /\ at' = "locate"
    /\ UNCHANGED <<unit, timer_unit_p, worker, obj, time, held, wheel, slot, history>>

(* SetLocation, and the write of past_time_: the thread's last of the unit. *)
Locate ==
    /\ at = "locate"
    /\ Rest("idle") /\ UNCHANGED <<obj, time>>
    /\ UNCHANGED <<unitVars, timer_unit_p, worker, history>>

Setter ==
    \/ \E m \in Members, t \in Times \cup {DelTimer} : SetTimer(m, t)
    \/ Follow \/ Unlink \/ New \/ AddTimer \/ Insert \/ Locate

-----------------------------------------------------------------------------
(* The persistence thread.  Tick moves a wheel on by a slot and empties    *)
(* that slot; when the wheel has come round, the next one ticks.           *)
Timing(id) == id \in Live /\ "outrun" \notin races /\ ~ (at = "add" /\ wheel = 1 /\ held = id)

Outruns(w, index) ==
    \/ at = "insert" /\ slot = <<w, index>>
    \/ at = "add" /\ wheel = w /\ w > 1

Tick ==
    /\ turning = Null
    /\ turning' = 1
    /\ current_index_' = [current_index_ EXCEPT ![1] = (@ + 1) % N]
    /\ age' = [id \in Ids |-> IF Timing(id) THEN age[id] + 1 ELSE 0]
    /\ Race("outrun", Outruns(1, current_index_'[1]))
    /\ UNCHANGED <<unitVars, timer_unit_p, hand, doing, setter, hurried>>

Current == <<turning, current_index_[turning]>>
First == Head(slot_list_[Current])

(* A popped unit acts if its time has come, and else moves down a wheel.   *)
IsDue(id) ==
    turning = 1 \/ LeftOf(id) <= 0 \/ LeftOf(id) % (N * interval_(turning)) = 0

Pop ==
    /\ turning # Null /\ hand = Null
    /\ slot_list_[Current] # <<>>
    /\ slot_list_' = [slot_list_ EXCEPT ![Current] = Tail(@)]
    /\ location_' = [location_ EXCEPT ![First] = Nowhere]
    /\ hand' = First
    /\ doing' = IF IsDue(First) THEN "act" ELSE "move"
    /\ Race("shared", held = First /\ at \in {"unlink", "locate"})
    /\ UNCHANGED <<unit, timer_unit_p, current_index_, turning, setter, age, hurried>>

(* A unit that has acted clears its member's pointer, whatever unit that   *)
(* points to by now, and again when it is deleted.                         *)
Cleared_leaving_pointer == timer_unit_p     \* a slip
Cleared == [timer_unit_p EXCEPT ![unit[hand].member_] = Null]
ClearRace == Race("cleared", timer_unit_p[unit[hand].member_] \notin {hand, Null})

Act ==
    /\ doing = "act"
    /\ timer_unit_p' = Cleared /\ ClearRace
    /\ doing' = "delete"
    /\ UNCHANGED <<unitVars, current_index_, turning, hand, setter, age, hurried>>

Delete ==
    /\ doing = "delete"
    /\ timer_unit_p' = Cleared /\ ClearRace
    /\ unit' = [u \in Live \ {hand} |-> unit[u]]
    /\ hurried' = hurried \ {hand}
    /\ hand' = Null /\ doing' = "none"
    /\ UNCHANGED <<slot_list_, location_, current_index_, turning, setter, age>>

(* A unit that moves down is handed to the wheel before.  Only this thread *)
(* moves wheels, so that it finds the indexes as they are.                 *)
PastTime(w, past) ==
    [v \in w .. 3 |-> past + (IF v > w THEN TurnEnd(w) ELSE 0)
                           + (IF v > w + 1 THEN TurnEnd(w + 1) ELSE 0)]

Holder(w, t, past) ==
    CHOOSE v \in w .. 3 : /\ Holds(v, t - PastTime(w, past)[v])
                          /\ \A x \in w .. v - 1 : ~ Holds(x, t - PastTime(w, past)[x])

Placement(w, t, past) ==
    LET v == Holder(w, t, past)
        passed == PastTime(w, past)[v]
    IN  [slot |-> SlotAt(v, t - passed), past |-> passed + RunUp(v, t - passed)]

MoveInsert ==
    /\ doing = "move"
    /\ LET place == Placement(turning - 1, unit[hand].time_, unit[hand].past_time_)
       IN  /\ slot_list_' = [slot_list_ EXCEPT ![place.slot] = <<hand>> \o @]
           /\ location_' = [location_ EXCEPT ![hand] = place.slot]
           /\ unit' = [unit EXCEPT ![hand].past_time_ = place.past]
    /\ doing' = "locate"
    /\ UNCHANGED <<timer_unit_p, current_index_, turning, hand, setter, history>>

MoveLocate ==
    /\ doing = "locate" /\ doing' = "count"
    /\ UNCHANGED <<unitVars, timer_unit_p, current_index_, turning, hand, setter, history>>

(* The write of past_time_: the thread's last of the unit. *)
MoveCount ==
    /\ doing = "count" /\ doing' = "none" /\ hand' = Null
    /\ UNCHANGED <<unitVars, timer_unit_p, current_index_, turning, setter, history>>

Carry == current_index_[turning] = 0

NextWheel ==
    /\ turning # Null /\ hand = Null /\ slot_list_[Current] = <<>>
    /\ IF Carry /\ turning < 3
         THEN /\ turning' = turning + 1
              /\ current_index_' = [current_index_ EXCEPT ![turning + 1] = (@ + 1) % N]
              /\ Race("outrun", Outruns(turning', current_index_'[turning']))
         ELSE turning' = Null /\ UNCHANGED <<current_index_, races>>
    /\ UNCHANGED <<unitVars, timer_unit_p, hand, doing, setter, age, hurried>>

Worker == Tick \/ Pop \/ Act \/ Delete \/ MoveInsert \/ MoveLocate \/ MoveCount \/ NextWheel

(* Nothing is said of the program once a unit is "shared": its behaviour   *)
(* is undefined then.                                                      *)
Defined == "shared" \notin races
Next == Defined /\ (Worker \/ Setter)

Spec == Init /\ [][Next]_vars

-----------------------------------------------------------------------------
TypeOK ==
    /\ current_index_ \in [Wheels -> 0 .. N - 1]
    /\ slot_list_ \in [Slots -> Seq(Ids)]
    /\ Live \subseteq Ids
    /\ unit \in [Live -> [member_ : Members, time_ : Times, past_time_ : Nat]]
    /\ location_ \in [Ids -> Slots \cup {Nowhere}]
    /\ timer_unit_p \in [Members -> Ids \cup {Null}]
    /\ turning \in Wheels \cup {Null} /\ hand \in Ids \cup {Null}
    /\ doing \in {"none", "act", "delete", "move", "locate", "count"}
    /\ at \in {"idle", "follow", "unlink", "new", "add", "insert", "locate"}
    /\ obj \in Members /\ time \in Times \cup {DelTimer}
    /\ held \in Ids \cup {Null} /\ wheel \in Wheels /\ slot \in Slots \cup {Nowhere}
    /\ age \in [Ids -> Nat] /\ hurried \subseteq Ids /\ races \subseteq Races

(* The lists, the locations, the units and the members agree, until both   *)
(* threads have one unit in hand: a unit that exists is in one slot, once, *)
(* and knows which, or a thread has it in hand; a slot holds no unit that  *)
(* has been deleted; and a member's pointer never outlives the unit it     *)
(* points to, though a copy of it may that DelTimer has loaded.            *)
InHand(id) ==
    \/ hand = id /\ doing \in {"act", "delete", "move"}
    \/ held = id /\ at \in {"add", "insert"}

UnitsPlaced ==
    /\ \A id \in Ids : location_[id] # Nowhere <=> id \in Live /\ ~ InHand(id)
    /\ \A s \in Slots : /\ ToSet(slot_list_[s]) = {id \in Ids : location_[id] = s}
                        /\ IsInjective(slot_list_[s])
    /\ hand # Null => hand \in Live

PointersSound ==
    \A m \in Members : timer_unit_p[m] # Null =>
        timer_unit_p[m] \in Live /\ unit[timer_unit_p[m]].member_ = m

WheelsSound == Defined => UnitsPlaced /\ PointersSound

(* A timer can be deleted or set anew as long as it waits: the member's    *)
(* pointer leads to its unit, so that no member has two units that wait -- *)
(* until DelTimer misses a unit on its way down, or one that has acted     *)
(* clears the pointer to the next, and then a unit may act that no call    *)
(* can stop.                                                               *)
Findable ==
    races \cap {"shared", "missed", "cleared"} = {} =>
        \A id \in Live : ~ (hand = id /\ doing \in {"act", "delete"}) =>
            timer_unit_p[unit[id].member_] = id

(* No unit acts late, or is forgotten in a wheel; and for the times the    *)
(* first two wheels can hold, as RELEASE_TIME and AUTOSAVE_TIME are, a     *)
(* unit acts after exactly its time, however it has moved from wheel to    *)
(* wheel -- or up to a turn of the first wheel earlier, if its place was   *)
(* looked for between the turn of a wheel and the tick of the next that    *)
(* follows.  This holds until a wheel outruns the thread that adds a unit. *)
OnTime ==
    races \cap {"shared", "outrun"} = {} =>
        /\ \A id \in Live : age[id] <= unit[id].time_
        /\ doing = "act" /\ unit[hand].time_ < N * N =>
               age[hand] + (IF hand \in hurried THEN N ELSE 0) >= unit[hand].time_
=============================================================================
