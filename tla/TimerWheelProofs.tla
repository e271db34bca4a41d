-------------------------- MODULE TimerWheelProofs --------------------------
(***************************************************************************)
(* What holds of the wheels for any number of slots and objects, and any   *)
(* times, although nothing keeps the two threads apart.                    *)
(*                                                                         *)
(* That units act on time needs an invariant of the units that wait: the   *)
(* age of a unit and the ticks until its slot is emptied add up to what is *)
(* recorded of it.  A tick takes as much from the one as it gives to the   *)
(* other, and a wheel that follows changes neither, but for the slot it    *)
(* leaves, which is empty.  While the main thread looks for the place of a *)
(* unit, the age and the ticks until the wheel it has come to moves add up *)
(* likewise, as long as that wheel stands.                                 *)
(***************************************************************************)
EXTENDS TimerWheel, SequenceTheorems, TLAPS

(* Ticks until a wheel moves on next: none when the one before has come    *)
(* round and its slot is being emptied.                                    *)
MovesIn(w) ==
    LET second == IF turning = 1 /\ current_index_[1] = 0 THEN 0 ELSE N - current_index_[1]
    IN  IF w = 1 THEN 1
        ELSE IF w = 2 THEN second
        ELSE IF turning = 2 /\ current_index_[2] = 0 THEN 0
        ELSE (N - 1 - current_index_[2]) * N + second

(* Moves of its wheel until a slot is the current one, and ticks until it  *)
(* is emptied.                                                             *)
Ahead(s) ==
    IF s[2] > current_index_[s[1]] THEN s[2] - current_index_[s[1]]
                                   ELSE s[2] - current_index_[s[1]] + N
Along(s) == (Ahead(s) - 1) * interval_(s[1])
ToGo ==
    [s \in Slots |-> IF turning = s[1] /\ s[2] = current_index_[s[1]] THEN 0
                     ELSE Along(s) + MovesIn(s[1])]

(* A unit is found in its slot in time: in the first wheel, at the age set *)
(* for it; in the second, at the age recorded as past; in the third, a     *)
(* turn of the first wheel earlier, since the next slot of the second      *)
(* wheel that it can go to is that far.                                    *)
Where(id) == IF at = "insert" /\ held = id THEN slot ELSE location_[id]
Goal(id) == IF Where(id)[1] = 1 THEN unit[id].time_ ELSE unit[id].past_time_
Spare(w) == IF w = 3 THEN N ELSE 0

NotLate(id) ==
    /\ Where(id) # Nowhere =>
          /\ Goal(id) <= unit[id].time_
          /\ age[id] + ToGo[Where(id)] + Spare(Where(id)[1]) <= Goal(id)
    /\ hand = id /\ doing = "move" =>
          /\ unit[id].past_time_ < unit[id].time_
          /\ age[id] + Spare(turning) <= unit[id].past_time_
    /\ hand = id /\ doing \in {"act", "delete"} => age[id] <= unit[id].time_

Slack(id) == IF id \in hurried THEN N ELSE 0
NotEarly(id) ==
    /\ Where(id) # Nowhere =>
          Where(id)[1] # 3 /\ Goal(id) <= age[id] + ToGo[Where(id)] + Slack(id)
    /\ hand = id /\ doing = "move" =>
          turning # 3 /\ unit[id].past_time_ <= age[id] + Slack(id)
    /\ hand = id /\ doing = "act" => unit[id].time_ <= age[id] + Slack(id)

OnCourse(id) == NotLate(id) /\ (unit[id].time_ < N * N => NotEarly(id))

(* The unit whose place the main thread looks for. *)
Underway ==
    LET t == unit[held].time_
        past == unit[held].past_time_
    IN  /\ at = "add" =>
              /\ past <= t
              /\ wheel = 1 => past = 0 /\ age[held] = 0
              /\ wheel = 2 => age[held] + MovesIn(2) <= past
              /\ wheel = 3 => age[held] + MovesIn(3) + N <= past
              /\ t < N * N => wheel # 3
              /\ t < N * N /\ wheel = 2 => past <= age[held] + MovesIn(2) + Slack(held)
        /\ at = "insert" => slot[2] # current_index_[slot[1]]

Timed == "outrun" \notin races => Underway /\ \A id \in Live : OnCourse(id)

(* Wheels move when those before them have come round. *)
Turning ==
    /\ hand # Null => turning # Null
    /\ turning \in {2, 3} => current_index_[1] = 0
    /\ turning = 3 => current_index_[2] = 0

(* What each thread knows of the unit it has in hand. *)
Threads ==
    /\ hand = Null <=> doing = "none"
    /\ doing = "move" => turning # 1
    /\ at = "new" => time # DelTimer
    /\ at = "follow" => held # Null /\ (held \in Live => unit[held].member_ = obj)
    /\ at \in {"unlink", "add", "insert", "locate"} =>
          held \in Live /\ unit[held].member_ = obj
    /\ at = "unlink" => location_[held] # Nowhere
    /\ at \in {"add", "insert", "locate"} => held # hand
    /\ at = "insert" => slot # Nowhere

Sound == UnitsPlaced /\ PointersSound /\ Threads /\ Turning

(* Of a member's units, those that its pointer does not lead to act. *)
Acting(id) == hand = id /\ doing \in {"act", "delete"}
Found ==
    races \cap {"missed", "cleared"} = {} =>
        /\ \A id \in Live : ~ Acting(id) => timer_unit_p[unit[id].member_] = id
        /\ at = "follow" => timer_unit_p[obj] \in {held, Null}
        /\ at = "new" => \A id \in Live : unit[id].member_ = obj => Acting(id)

WInv == TypeOK /\ (Defined => Sound /\ Found /\ Timed)

-----------------------------------------------------------------------------
(* The intervals of the wheels. *)
LEMMA Intervals ==
  /\ N \in Nat /\ N > 1 /\ N * N \in Nat /\ N * N > N /\ N * (N * N) \in Nat
  /\ interval_(1) = 1 /\ interval_(2) = N /\ interval_(3) = N * N
  /\ \A w \in Wheels : interval_(w) \in Nat /\ interval_(w) > 0
<1>1. N \in Nat /\ N > 1
  BY WheelAssumption
<1>2. N * N \in Nat /\ N * N > N /\ N * (N * N) \in Nat
  BY <1>1
<1>3. interval_(1) = 1 /\ interval_(2) = N /\ interval_(3) = N * N
  BY DEF interval_
<1> QED
  BY <1>1, <1>2, <1>3 DEF Wheels

(* The wheel that takes a unit. *)
LEMMA HolderIs ==
  ASSUME TypeOK, NEW w \in {1, 2}, NEW t \in Nat, NEW past \in Nat
  PROVE  /\ Holder(w, t, past) \in w .. 3
         /\ PastTime(w, past)[Holder(w, t, past)] \in Nat
         /\ t - past < N * interval_(w) =>
               Holder(w, t, past) = w /\ PastTime(w, past)[w] = past
         /\ ~ t - past < N * interval_(w) =>
               /\ Holder(w, t, past) > w
               /\ PastTime(w, past)[w + 1] = past + TurnEnd(w)
         /\ w = 1 => PastTime(w, past)[3] = past + TurnEnd(1) + TurnEnd(2)
         /\ w = 1 /\ ~ t - past < N * interval_(1) =>
               Holder(w, t, past) =
                   IF t - (past + TurnEnd(1)) < N * interval_(2) THEN 2 ELSE 3
<1> DEFINE P(v) == /\ v = 3 \/ t - PastTime(w, past)[v] < N * interval_(v)
                   /\ \A x \in w .. v - 1 : t - PastTime(w, past)[x] >= N * interval_(x)
<1>1. \A x \in Wheels : TurnEnd(x) \in Nat
  BY Intervals DEF TurnEnd, TypeOK
<1>2. \A v \in w .. 3 : PastTime(w, past)[v] \in Nat
  <2> SUFFICES ASSUME NEW v \in w .. 3 PROVE PastTime(w, past)[v] \in Nat
    OBVIOUS
  <2>1. v \in Wheels /\ w \in Wheels /\ (v > w + 1 => w + 1 \in Wheels)
    BY DEF Wheels
  <2> QED
    BY <1>1, <2>1 DEF PastTime
<1>3. /\ PastTime(w, past)[w] = past /\ PastTime(w, past)[w + 1] = past + TurnEnd(w)
  BY <1>1 DEF PastTime, Wheels
<1>4. \A x \in Wheels : N * interval_(x) \in Nat
  BY Intervals DEF Wheels
<1>5. \E v \in w .. 3 : P(v)
  <2>1. CASE w = 1
    <3> DEFINE low(x) == t - PastTime(w, past)[x] < N * interval_(x)
    <3>1. CASE low(1)
      <4>1. P(1)
        BY <2>1, <3>1
      <4> QED
        BY <2>1, <4>1
    <3>2. CASE ~ low(1) /\ low(2)
      <4>1. \A x \in 1 .. 2 - 1 : x = 1
        OBVIOUS
      <4>2. t - PastTime(w, past)[1] >= N * interval_(1)
        BY <1>2, <1>4, <2>1, <3>2 DEF Wheels
      <4>3. P(2)
        BY <2>1, <3>2, <4>1, <4>2
      <4> QED
        BY <2>1, <4>3
    <3>3. CASE ~ low(1) /\ ~ low(2)
      <4>1. \A x \in 1 .. 3 - 1 : x = 1 \/ x = 2
        OBVIOUS
      <4>2. /\ t - PastTime(w, past)[1] >= N * interval_(1)
            /\ t - PastTime(w, past)[2] >= N * interval_(2)
        BY <1>2, <1>4, <2>1, <3>3 DEF Wheels
      <4>3. P(3)
        BY <2>1, <4>1, <4>2
      <4> QED
        BY <2>1, <4>3
    <3> QED
      BY <3>1, <3>2, <3>3
  <2>2. CASE w = 2
    <3> DEFINE low(x) == t - PastTime(w, past)[x] < N * interval_(x)
    <3>1. CASE low(2)
      <4>1. P(2)
        BY <2>2, <3>1
      <4> QED
        BY <2>2, <4>1
    <3>2. CASE ~ low(2)
      <4>1. \A x \in 2 .. 3 - 1 : x = 2
        OBVIOUS
      <4>2. t - PastTime(w, past)[2] >= N * interval_(2)
        BY <1>2, <1>4, <2>2, <3>2 DEF Wheels
      <4>3. P(3)
        BY <2>2, <4>1, <4>2
      <4> QED
        BY <2>2, <4>3
    <3> QED
      BY <3>1, <3>2
  <2> QED
    BY <2>1, <2>2
<1> DEFINE Q(v) == /\ Holds(v, t - PastTime(w, past)[v])
                   /\ \A x \in w .. v - 1 : ~ Holds(x, t - PastTime(w, past)[x])
           h == Holder(w, t, past)
<1>6. \A v \in w .. 3 : P(v) <=> Q(v)
  <2> SUFFICES ASSUME NEW v \in w .. 3 PROVE P(v) <=> Q(v)
    OBVIOUS
  <2>1. \A x \in w .. v - 1 : x \in w .. 3 /\ x \in Wheels /\ x # 3
    BY DEF Wheels
  <2>2. \A x \in w .. v - 1 : ~ Holds(x, t - PastTime(w, past)[x]) <=>
                                 t - PastTime(w, past)[x] >= N * interval_(x)
    <3> SUFFICES ASSUME NEW x \in w .. v - 1
                 PROVE  ~ Holds(x, t - PastTime(w, past)[x]) <=>
                            t - PastTime(w, past)[x] >= N * interval_(x)
      OBVIOUS
    <3> DEFINE left == t - PastTime(w, past)[x]
               most == N * interval_(x)
    <3>1. left \in Int /\ most \in Nat /\ x # 3
      BY <1>2, <1>4, <2>1
    <3>2. Holds(x, left) <=> x = 3 \/ left < most
      BY DEF Holds
    <3> HIDE DEF left, most
    <3>3. ~ Holds(x, left) <=> left >= most
      BY <3>1, <3>2
    <3> QED
      BY <3>3 DEF left, most
  <2> QED
    BY <2>2 DEF Holds
<1>7. h \in w .. 3 /\ P(h)
  <2>1. \E v \in w .. 3 : Q(v)
    BY <1>5, <1>6
  <2>2. h = CHOOSE v \in w .. 3 : Q(v)
    BY DEF Holder
  <2> HIDE DEF Q, h
  <2>3. h \in w .. 3 /\ Q(h)
    BY <2>1, <2>2
  <2> HIDE DEF P
  <2> QED
    BY <1>6, <2>3
<1> HIDE DEF h
<1>8. t - past < N * interval_(w) => h = w
  <2> SUFFICES ASSUME t - past < N * interval_(w), h # w PROVE FALSE
    OBVIOUS
  <2>1. w \in w .. h - 1
    BY <1>7
  <2>2. t - past >= N * interval_(w)
    BY <1>3, <1>7, <2>1
  <2> QED
    BY <1>4, <2>2 DEF Wheels
<1>9. ~ t - past < N * interval_(w) => h > w
  <2> SUFFICES ASSUME ~ t - past < N * interval_(w), h = w PROVE FALSE
    BY <1>7
  <2> QED
    BY <1>3, <1>7
<1>10. w = 1 => PastTime(w, past)[3] = past + TurnEnd(1) + TurnEnd(2)
  BY <1>1 DEF PastTime, Wheels
<1>11. ASSUME w = 1, ~ t - past < N * interval_(1)
       PROVE  h = IF t - (past + TurnEnd(1)) < N * interval_(2) THEN 2 ELSE 3
  <2>1. PastTime(w, past)[2] = past + TurnEnd(1) /\ PastTime(w, past)[2] \in Nat
    BY <1>2, <1>3, <1>11
  <2>2. h = 2 \/ h = 3
    BY <1>7, <1>9, <1>11
  <2>3. h = 2 => t - (past + TurnEnd(1)) < N * interval_(2)
    BY <1>7, <2>1
  <2>4. ASSUME h = 3 PROVE ~ t - (past + TurnEnd(1)) < N * interval_(2)
    <3>1. 2 \in w .. h - 1
      BY <1>11, <2>4
    <3>2. t - PastTime(w, past)[2] >= N * interval_(2)
      BY <1>7, <3>1
    <3> QED
      BY <1>4, <2>1, <3>2 DEF Wheels
  <2> QED
    BY <2>2, <2>3, <2>4
<1> QED
  BY <1>2, <1>3, <1>7, <1>8, <1>9, <1>10, <1>11 DEF h

(* The slots ahead of the current one to go to: one at least, and not all. *)
LEMMA OffsetIs ==
  ASSUME NEW w \in Wheels, NEW left \in Int
  PROVE  /\ SlotOffset(w, left) \in 1 .. N - 1
         /\ w = 1 /\ left \in 1 .. N - 1 => SlotOffset(w, left) = left
<1>1. N \in Nat /\ N > 1 /\ interval_(w) \in Nat /\ interval_(w) > 0
  BY Intervals
<1> DEFINE i == interval_(w)
           q == left \div i
<1>2. q \in Int
  BY <1>1
<1>3. SlotOffset(w, left) = IF q >= N THEN N - 1 ELSE IF q < 1 THEN 1 ELSE q
  BY DEF SlotOffset
<1>4. SlotOffset(w, left) \in 1 .. N - 1
  <2> HIDE DEF q
  <2> QED
    BY <1>1, <1>2, <1>3
<1>5. ASSUME w = 1, left \in 1 .. N - 1 PROVE SlotOffset(w, left) = left
  <2>1. i = 1 /\ q = left
    BY <1>5, Intervals
  <2> QED
    BY <1>1, <1>3, <1>5, <2>1
<1> QED
  BY <1>4, <1>5

(* Turning a wheel, and looking ahead on it. *)
LEMMA ModIs ==
  ASSUME NEW c \in 0 .. N - 1, NEW o \in 1 .. N - 1
  PROVE  /\ (c + o) % N \in 0 .. N - 1 /\ (c + o) % N # c
         /\ (c + o) % N = IF c + o < N THEN c + o ELSE c + o - N
<1>1. N \in Nat /\ N > 1 /\ c \in Nat /\ o \in Nat
  BY Intervals
<1> DEFINE x == c + o
           r == x % N
           q == x \div N
<1>2. x \in Nat /\ x < N + N
  BY <1>1
<1>3. r \in 0 .. N - 1 /\ q \in Int /\ x = N * q + r
  BY <1>1, <1>2
<1> HIDE DEF q, r
<1>4. q = 0 \/ q = 1
  <2>1. ~ q < 0
    <3> SUFFICES ASSUME q <= 0 - 1 PROVE FALSE
      BY <1>3
    <3>1. N * q <= N * (0 - 1) /\ N * q \in Int
      BY <1>1, <1>3
    <3> QED
      BY <1>1, <1>2, <1>3, <3>1
  <2>2. ~ q > 1
    <3> SUFFICES ASSUME q >= 2 PROVE FALSE
      BY <1>3
    <3>1. N * q >= N * 2 /\ N * q \in Int
      BY <1>1, <1>3
    <3> QED
      BY <1>1, <1>2, <1>3, <3>1
  <2> QED
    BY <1>3, <2>1, <2>2
<1>5. r = IF x < N THEN x ELSE x - N
  BY <1>1, <1>2, <1>3, <1>4
<1> QED
  BY <1>1, <1>3, <1>5 DEF r

(* The next slot of a wheel. *)
LEMMA NextIndex ==
  ASSUME NEW c \in 0 .. N - 1
  PROVE  /\ (c + 1) % N \in 0 .. N - 1
         /\ (c + 1) % N = IF c + 1 = N THEN 0 ELSE c + 1
<1>1. N \in Nat /\ N > 1 /\ 1 \in 1 .. N - 1
  BY Intervals
<1>2. /\ (c + 1) % N \in 0 .. N - 1
      /\ (c + 1) % N = IF c + 1 < N THEN c + 1 ELSE c + 1 - N
  <2>1. \A o \in 1 .. N - 1 : /\ (c + o) % N \in 0 .. N - 1
                              /\ (c + o) % N = IF c + o < N THEN c + o ELSE c + o - N
    BY ModIs
  <2> QED
    BY <1>1, <2>1, Zenon
<1> QED
  BY <1>1, <1>2

(* A slot, its wheel, and how far ahead it is. *)
LEMMA SlotIs ==
  ASSUME TypeOK, NEW s \in Slots
  PROVE  /\ s[1] \in Wheels /\ s[2] \in 0 .. N - 1 /\ s = <<s[1], s[2]>> /\ s # Nowhere
         /\ current_index_[s[1]] \in 0 .. N - 1
         /\ Ahead(s) \in 1 .. N
         /\ s[2] # current_index_[s[1]] => Ahead(s) \in 1 .. N - 1
<1>1. s[1] \in Wheels /\ s[2] \in 0 .. N - 1 /\ s = <<s[1], s[2]>> /\ s # Nowhere
  BY DEF Slots, Nowhere, Wheels
<1>2. current_index_[s[1]] \in 0 .. N - 1
  BY <1>1 DEF TypeOK
<1>3. N \in Nat /\ N > 1
  BY Intervals
<1> QED
  BY <1>1, <1>2, <1>3 DEF Ahead

(* The ticks until each wheel moves on. *)
LEMMA MovesInIs ==
  ASSUME TypeOK
  PROVE  LET second == IF turning = 1 /\ current_index_[1] = 0 THEN 0 ELSE N - current_index_[1]
         IN  /\ current_index_[1] \in 0 .. N - 1 /\ current_index_[2] \in 0 .. N - 1
             /\ current_index_[3] \in 0 .. N - 1
             /\ MovesIn(1) = 1 /\ MovesIn(2) = second
             /\ MovesIn(3) = IF turning = 2 /\ current_index_[2] = 0 THEN 0
                            ELSE (N - 1 - current_index_[2]) * N + second
             /\ \A w \in Wheels : MovesIn(w) \in Nat
<1>1. /\ N \in Nat /\ N > 1
      /\ current_index_[1] \in 0 .. N - 1 /\ current_index_[2] \in 0 .. N - 1
      /\ current_index_[3] \in 0 .. N - 1
  BY Intervals DEF TypeOK, Wheels
<1> DEFINE second == IF turning = 1 /\ current_index_[1] = 0 THEN 0 ELSE N - current_index_[1]
<1>4. /\ MovesIn(1) = 1 /\ MovesIn(2) = second
      /\ MovesIn(3) = IF turning = 2 /\ current_index_[2] = 0 THEN 0
                     ELSE (N - 1 - current_index_[2]) * N + second
  BY DEF MovesIn
<1>5. second \in Nat /\ (N - 1 - current_index_[2]) * N \in Nat
  BY <1>1
<1> HIDE DEF second
<1>6. MovesIn(1) \in Nat /\ MovesIn(2) \in Nat /\ MovesIn(3) \in Nat
  BY <1>4, <1>5
<1> QED
  BY <1>1, <1>4, <1>6 DEF second, Wheels

(* The ticks until a slot is emptied, in two parts. *)
LEMMA ToGoIs ==
  ASSUME TypeOK, NEW s \in Slots
  PROVE  Along(s) \in Nat /\ MovesIn(s[1]) \in Nat /\ ToGo[s] \in Nat
<1>1. s[1] \in Wheels /\ Ahead(s) - 1 \in Nat
  BY SlotIs, Intervals
<1>2. Along(s) \in Nat
  BY <1>1, Intervals DEF Along
<1>3. MovesIn(s[1]) \in Nat
  BY <1>1, MovesInIs
<1> QED
  BY <1>2, <1>3 DEF ToGo

(* Where a unit is put. *)
LEMMA PlacementIs ==
  ASSUME TypeOK, NEW w \in {1, 2}, NEW t \in Nat, NEW past \in Nat
  PROVE  LET p == Placement(w, t, past)
             v == Holder(w, t, past)
             o == SlotOffset(v, t - PastTime(w, past)[v])
         IN  /\ p.slot \in Slots /\ p.slot[1] = v /\ v \in w .. 3
             /\ p.slot[2] # current_index_[v] /\ Ahead(p.slot) = o /\ o \in 1 .. N - 1
             /\ p.past = PastTime(w, past)[v] + (o - 1) * interval_(v) /\ p.past \in Nat
<1> DEFINE p == Placement(w, t, past)
           v == Holder(w, t, past)
           passed == PastTime(w, past)[v]
           o == SlotOffset(v, t - passed)
           c == current_index_[v]
<1>1. v \in w .. 3 /\ v \in Wheels /\ passed \in Nat
  <2>1. v \in w .. 3 /\ passed \in Nat
    BY HolderIs, Zenon
  <2> HIDE DEF v, passed
  <2> QED
    BY <2>1 DEF Wheels
<1>2. p.slot = <<v, (c + o) % N>> /\ p.past = passed + (o - 1) * interval_(v)
  BY DEF Placement, SlotAt, RunUp
<1> HIDE DEF p, v, passed
<1>3. o \in 1 .. N - 1 /\ c \in 0 .. N - 1
  <2>1. t - passed \in Int
    BY <1>1
  <2> QED
    BY <1>1, <2>1, OffsetIs DEF TypeOK
<1> HIDE DEF o, c
<1>4. /\ (c + o) % N \in 0 .. N - 1 /\ (c + o) % N # c
      /\ (c + o) % N = IF c + o < N THEN c + o ELSE c + o - N
  BY <1>3, ModIs
<1>5. p.slot \in Slots /\ p.slot[1] = v /\ p.slot[2] = (c + o) % N
  BY <1>1, <1>2, <1>4 DEF Slots
<1>6. Ahead(p.slot) = o
  <2>1. current_index_[p.slot[1]] = c
    BY <1>5 DEF c
  <2> HIDE DEF p
  <2>2. N \in Nat /\ N > 1
    BY Intervals
  <2> QED
    BY <1>3, <1>4, <1>5, <2>1, <2>2 DEF Ahead
<1>7. p.past \in Nat
  <2>1. interval_(v) \in Nat /\ o - 1 \in Nat
    BY <1>1, <1>3, Intervals
  <2>2. (o - 1) * interval_(v) \in Nat
    BY <2>1
  <2> QED
    BY <1>1, <1>2, <2>2
<1> QED
  BY <1>1, <1>2, <1>3, <1>4, <1>5, <1>6, <1>7 DEF p, v, passed, o, c

-----------------------------------------------------------------------------
(* The head of a list is taken off. *)
LEMMA TailList ==
  ASSUME NEW s \in Seq(Ids), IsInjective(s), s # <<>>
  PROVE  /\ Tail(s) \in Seq(Ids) /\ IsInjective(Tail(s))
         /\ Head(s) \in ToSet(s) /\ Head(s) \in Ids
         /\ ToSet(Tail(s)) = ToSet(s) \ {Head(s)}
<1>1. /\ Len(s) \in Nat /\ Len(s) > 0 /\ Tail(s) \in Seq(Ids) /\ Len(Tail(s)) = Len(s) - 1
      /\ \A i \in 1 .. Len(s) - 1 : Tail(s)[i] = s[i + 1]
  BY EmptySeq, HeadTailProperties
<1>2. Head(s) = s[1] /\ 1 \in 1 .. Len(s) /\ s[1] \in Ids
  BY <1>1, HeadTailProperties
<1>3. DOMAIN s = 1 .. Len(s) /\ DOMAIN Tail(s) = 1 .. Len(s) - 1
  BY <1>1
<1>4. \A a, b \in 1 .. Len(s) : s[a] = s[b] => a = b
  BY <1>3 DEF IsInjective
<1> DEFINE t == Tail(s)
<1>5. \A i \in 1 .. Len(s) - 1 : i + 1 \in 1 .. Len(s) /\ t[i] = s[i + 1]
  BY <1>1
<1> HIDE DEF t
<1>6. IsInjective(t)
  <2> SUFFICES ASSUME NEW a \in 1 .. Len(s) - 1, NEW b \in 1 .. Len(s) - 1, t[a] = t[b]
               PROVE  a = b
    BY <1>3 DEF IsInjective, t
  <2>1. a + 1 = b + 1
    BY <1>4, <1>5
  <2> QED
    BY <1>1, <2>1
<1>7. ToSet(t) = ToSet(s) \ {Head(s)}
  <2>1. ASSUME NEW x \in ToSet(t) PROVE x \in ToSet(s) \ {Head(s)}
    <3>1. PICK i \in 1 .. Len(s) - 1 : x = t[i]
      BY <1>3 DEF ToSet, t
    <3>2. i + 1 \in 1 .. Len(s) /\ x = s[i + 1] /\ i + 1 # 1
      BY <1>1, <1>5, <3>1
    <3>3. x # s[1]
      BY <1>2, <1>4, <3>2
    <3> QED
      BY <1>2, <1>3, <3>2, <3>3 DEF ToSet
  <2>2. ASSUME NEW x \in ToSet(s), x # Head(s) PROVE x \in ToSet(t)
    <3>1. PICK i \in 1 .. Len(s) : x = s[i]
      BY <1>3 DEF ToSet
    <3> DEFINE j == i - 1
    <3>2. j \in 1 .. Len(s) - 1 /\ j + 1 = i
      BY <1>1, <1>2, <2>2, <3>1
    <3> HIDE DEF j
    <3>3. x = t[j]
      BY <1>5, <3>1, <3>2
    <3> QED
      BY <1>3, <3>2, <3>3 DEF ToSet, t
  <2> QED
    BY <2>1, <2>2
<1> QED
  BY <1>1, <1>2, <1>3, <1>6, <1>7 DEF ToSet, t

(* A unit is put at the head of a list. *)
LEMMA PushList ==
  ASSUME NEW s \in Seq(Ids), IsInjective(s), NEW id \in Ids, id \notin ToSet(s)
  PROVE  /\ <<id>> \o s \in Seq(Ids) /\ IsInjective(<<id>> \o s)
         /\ ToSet(<<id>> \o s) = ToSet(s) \cup {id}
<1> DEFINE t == <<id>> \o s
<1>1. /\ t \in Seq(Ids) /\ Len(t) = 1 + Len(s) /\ Len(s) \in Nat
      /\ \A i \in 1 .. 1 + Len(s) : t[i] = IF i <= 1 THEN <<id>>[i] ELSE s[i - 1]
  <2>1. <<id>> \in Seq(Ids) /\ Len(<<id>>) = 1
    OBVIOUS
  <2> QED
    BY <2>1, ConcatProperties
<1>2. DOMAIN s = 1 .. Len(s) /\ DOMAIN t = 1 .. 1 + Len(s)
  BY <1>1
<1>3. t[1] = id /\ 1 \in 1 .. 1 + Len(s)
  BY <1>1
<1>4. ASSUME NEW i \in 1 .. 1 + Len(s), i # 1
      PROVE  i - 1 \in 1 .. Len(s) /\ t[i] = s[i - 1]
  BY <1>1, <1>4
<1> HIDE DEF t
<1>5. \A a, b \in 1 .. Len(s) : s[a] = s[b] => a = b
  BY <1>2 DEF IsInjective
<1>6. \A i \in 1 .. Len(s) : s[i] # id
  BY <1>2 DEF ToSet
<1>7. IsInjective(t)
  <2> SUFFICES ASSUME NEW a \in 1 .. 1 + Len(s), NEW b \in 1 .. 1 + Len(s), t[a] = t[b], a # b
               PROVE  FALSE
    BY <1>2 DEF IsInjective
  <2>1. CASE a = 1
    BY <1>3, <1>4, <1>6, <2>1
  <2>2. CASE b = 1
    BY <1>3, <1>4, <1>6, <2>2
  <2>3. CASE a # 1 /\ b # 1
    <3>1. a - 1 = b - 1
      BY <1>4, <1>5, <2>3
    <3> QED
      BY <1>1, <3>1
  <2> QED
    BY <2>1, <2>2, <2>3
<1>8. ToSet(t) = ToSet(s) \cup {id}
  <2>1. ASSUME NEW x \in ToSet(t) PROVE x \in ToSet(s) \cup {id}
    <3>1. PICK i \in 1 .. 1 + Len(s) : x = t[i]
      BY <1>2 DEF ToSet
    <3> QED
      BY <1>2, <1>3, <1>4, <3>1 DEF ToSet
  <2>2. ASSUME NEW x \in ToSet(s) PROVE x \in ToSet(t)
    <3>1. PICK i \in 1 .. Len(s) : x = s[i]
      BY <1>2 DEF ToSet
    <3> DEFINE j == i + 1
    <3>2. j \in 1 .. 1 + Len(s) /\ j # 1 /\ j - 1 = i
      BY <1>1
    <3> HIDE DEF j
    <3>3. t[j] = s[i]
      BY <1>4, <3>2
    <3> QED
      BY <1>2, <3>1, <3>2, <3>3 DEF ToSet
  <2>3. id \in ToSet(t)
    BY <1>2, <1>3 DEF ToSet
  <2> QED
    BY <2>1, <2>2, <2>3
<1> QED
  BY <1>1, <1>7, <1>8 DEF t

(* Lists joined. *)
LEMMA ConcatLists ==
  ASSUME NEW s \in Seq(Ids), NEW t \in Seq(Ids), NEW m, m = Len(s), NEW n, n = Len(t)
  PROVE  /\ s \o t \in Seq(Ids) /\ Len(s \o t) = m + n
         /\ \A i \in 1 .. m + n : (s \o t)[i] = IF i <= m THEN s[i] ELSE t[i - m]
  BY ConcatProperties

(* Unlinking takes one unit out of its list. *)
LEMMA WithoutList ==
  ASSUME NEW s \in Seq(Ids), IsInjective(s), NEW id \in ToSet(s)
  PROVE  /\ Without(s, id) \in Seq(Ids) /\ IsInjective(Without(s, id))
         /\ ToSet(Without(s, id)) = ToSet(s) \ {id}
<1> DEFINE n == Len(s)
           k == CHOOSE i \in 1 .. n : s[i] = id
           front == SubSeq(s, 1, k - 1)
           back == SubSeq(s, k + 1, n)
           t == front \o back
<1>1. n \in Nat /\ DOMAIN s = 1 .. n
  OBVIOUS
<1>2. k \in 1 .. n /\ s[k] = id
  <2>1. \E i \in 1 .. n : s[i] = id
    BY <1>1 DEF ToSet
  <2> HIDE DEF n
  <2> QED
    BY <2>1
<1>3. Without(s, id) = t
  BY DEF Without, RemoveAt
<1> HIDE DEF k
<1> HIDE DEF n
<1>0. \A i \in 1 .. n : s[i] \in Ids
  BY DEF n
<1>4. /\ front \in Seq(Ids) /\ Len(front) = k - 1 /\ \A i \in 1 .. k - 1 : front[i] = s[i]
  <2>1. 1 \in Int /\ k - 1 \in Int /\ \A i \in 1 .. k - 1 : s[i] \in Ids
    BY <1>0, <1>1, <1>2
  <2>2. /\ front \in Seq(Ids) /\ Len(front) = IF 1 <= k - 1 THEN (k - 1) - 1 + 1 ELSE 0
        /\ \A i \in 1 .. (k - 1) - 1 + 1 : front[i] = s[1 + i - 1]
    BY ONLY <2>1, SubSeqProperties
  <2> HIDE DEF front
  <2> QED
    BY <1>1, <1>2, <2>2
<1>5. /\ back \in Seq(Ids) /\ Len(back) = n - k /\ \A i \in 1 .. n - k : back[i] = s[k + i]
  <2>1. k + 1 \in Int /\ n \in Int /\ \A i \in k + 1 .. n : s[i] \in Ids
    BY <1>0, <1>1, <1>2
  <2>2. /\ back \in Seq(Ids) /\ Len(back) = IF k + 1 <= n THEN n - (k + 1) + 1 ELSE 0
        /\ \A i \in 1 .. n - (k + 1) + 1 : back[i] = s[(k + 1) + i - 1]
    BY ONLY <2>1, SubSeqProperties
  <2> HIDE DEF back
  <2>3. Len(back) = n - k
    BY <1>1, <1>2, <2>2
  <2>4. \A i \in 1 .. n - k : i \in 1 .. n - (k + 1) + 1 /\ (k + 1) + i - 1 = k + i
    BY <1>1, <1>2
  <2>5. ASSUME NEW i \in 1 .. n - k PROVE back[i] = s[k + i]
    BY <2>2, <2>4
  <2> QED
    BY <2>2, <2>3, <2>5
<1> HIDE DEF front, back
<1>6. /\ t \in Seq(Ids) /\ Len(t) = (k - 1) + (n - k)
      /\ \A i \in 1 .. (k - 1) + (n - k) : t[i] = IF i <= k - 1 THEN front[i] ELSE back[i - (k - 1)]
  <2>1. front \in Seq(Ids) /\ back \in Seq(Ids) /\ k - 1 = Len(front) /\ n - k = Len(back)
    BY <1>4, <1>5
  <2> QED
    BY ONLY <2>1, ConcatLists
<1> HIDE DEF t
<1> DEFINE pos(i) == IF i < k THEN i ELSE i + 1
<1>7. /\ Len(t) = n - 1 /\ DOMAIN t = 1 .. n - 1
      /\ \A i \in 1 .. n - 1 : pos(i) \in 1 .. n /\ pos(i) # k /\ t[i] = s[pos(i)]
  <2>1. Len(t) = n - 1 /\ DOMAIN t = 1 .. n - 1
    BY <1>1, <1>2, <1>6
  <2> SUFFICES ASSUME NEW i \in 1 .. n - 1
               PROVE  pos(i) \in 1 .. n /\ pos(i) # k /\ t[i] = s[pos(i)]
    BY <2>1
  <2>2. pos(i) \in 1 .. n /\ pos(i) # k
    BY <1>1, <1>2
  <2>3. CASE i < k
    <3>1. i \in 1 .. k - 1 /\ i <= k - 1 /\ i \in 1 .. (k - 1) + (n - k)
      BY <1>1, <1>2, <2>3
    <3>2. t[i] = s[i]
      BY <1>4, <1>6, <3>1
    <3> QED
      BY <2>2, <2>3, <3>2
  <2>4. CASE ~ i < k
    <3> DEFINE j == i - (k - 1)
    <3>1. j \in 1 .. n - k /\ ~ i <= k - 1 /\ i \in 1 .. (k - 1) + (n - k) /\ k + j = i + 1
      BY <1>1, <1>2, <2>4
    <3>2. t[i] = back[j]
      BY <1>6, <3>1
    <3> HIDE DEF j
    <3>3. t[i] = s[i + 1]
      BY <1>5, <3>1, <3>2
    <3> QED
      BY <2>2, <2>4, <3>3
  <2> QED
    BY <2>3, <2>4
<1>8. \A a, b \in 1 .. n : s[a] = s[b] => a = b
  BY <1>1 DEF IsInjective
<1>9. IsInjective(t)
  <2> SUFFICES ASSUME NEW a \in 1 .. n - 1, NEW b \in 1 .. n - 1, t[a] = t[b]
               PROVE  a = b
    BY <1>7 DEF IsInjective
  <2>1. pos(a) = pos(b)
    BY <1>7, <1>8
  <2> QED
    BY <1>1, <1>2, <2>1
<1>10. ToSet(t) = ToSet(s) \ {id}
  <2>1. ASSUME NEW x \in ToSet(t) PROVE x \in ToSet(s) /\ x # id
    <3>1. PICK i \in 1 .. n - 1 : x = t[i]
      BY <1>7 DEF ToSet
    <3>2. pos(i) \in 1 .. n /\ pos(i) # k /\ x = s[pos(i)]
      BY <1>7, <3>1
    <3> HIDE DEF pos
    <3> QED
      BY <1>1, <1>2, <1>8, <3>2 DEF ToSet
  <2>2. ASSUME NEW x \in ToSet(s), x # id PROVE x \in ToSet(t)
    <3>1. PICK i \in 1 .. n : x = s[i]
      BY <1>1 DEF ToSet
    <3>2. i # k
      BY <1>2, <2>2, <3>1
    <3> DEFINE j == IF i < k THEN i ELSE i - 1
    <3>3. j \in 1 .. n - 1 /\ pos(j) = i
      BY <1>1, <1>2, <3>2
    <3> HIDE DEF j, pos
    <3>4. t[j] = x
      BY <1>7, <3>1, <3>3
    <3> QED
      BY <1>7, <3>3, <3>4 DEF ToSet
  <2> QED
    BY <2>1, <2>2
<1> QED
  BY <1>3, <1>6, <1>9, <1>10

-----------------------------------------------------------------------------
(* The slots passed over do not take longer than the time left. *)
LEMMA RunUpIs ==
  ASSUME NEW o \in 1 .. N - 1, NEW i \in Nat, i > 0, NEW left \in Nat,
         o = IF left \div i >= N THEN N - 1 ELSE IF left \div i < 1 THEN 1 ELSE left \div i
  PROVE  (o - 1) * i \in Nat /\ (o - 1) * i <= left
<1> DEFINE q == left \div i
<1>1. q \in Nat /\ q * i <= left /\ N \in Nat
  BY Intervals
<1> HIDE DEF q
<1>2. o - 1 \in Nat /\ (o - 1 <= q)
  BY <1>1 DEF q
<1>3. (o - 1) * i \in Nat /\ q * i \in Nat /\ (o - 1) * i <= q * i
  BY <1>1, <1>2
<1> QED
  BY <1>1, <1>3

(* A unit that goes to a slot of the second wheel or the third is recorded *)
(* with the time that will have passed when the slot is reached, which is  *)
(* not beyond its time.                                                    *)
LEMMA PlacementTimed ==
  ASSUME TypeOK, NEW w \in {1, 2}, NEW t \in Nat, NEW past \in Nat, past < t
  PROVE  LET p == Placement(w, t, past)
             round == IF w = 1 THEN N - current_index_[1] ELSE 0
         IN  \/ w = 1 /\ p.slot[1] = 1 /\ Along(p.slot) + 1 = t - past
             \/ p.slot[1] = 2 /\ p.past <= t /\ p.past = past + round + Along(p.slot)
             \/ /\ p.slot[1] = 3 /\ p.past <= t
                /\ p.past = past + round + (N - current_index_[2]) * N + Along(p.slot)
                /\ ~ t - past < N * N
<1> DEFINE p == Placement(w, t, past)
           v == Holder(w, t, past)
           passed == PastTime(w, past)[v]
           o == SlotOffset(v, t - passed)
           left == t - passed
           round == IF w = 1 THEN N - current_index_[1] ELSE 0
           turn == (N - current_index_[2]) * N
<1>1. /\ p.slot[1] = v /\ Ahead(p.slot) = o /\ o \in 1 .. N - 1
      /\ p.past = passed + (o - 1) * interval_(v) /\ passed \in Nat /\ v \in w .. 3
  <2>1. passed \in Nat /\ v \in w .. 3
    BY HolderIs, Zenon
  <2>2. /\ p.slot[1] = v /\ Ahead(p.slot) = o /\ o \in 1 .. N - 1
        /\ p.past = passed + (o - 1) * interval_(v)
    BY PlacementIs
  <2> QED
    BY <2>1, <2>2
<1>2. /\ N \in Nat /\ N > 1 /\ N * N \in Nat /\ N * N > N /\ interval_(1) = 1 /\ interval_(2) = N
      /\ interval_(3) = N * N /\ N * interval_(1) = N /\ N * interval_(2) = N * N
      /\ current_index_[1] \in 0 .. N - 1 /\ current_index_[2] \in 0 .. N - 1
  BY Intervals DEF TypeOK, Wheels
<1>3. TurnEnd(1) = N - current_index_[1] /\ TurnEnd(2) = turn /\ turn \in Nat /\ turn <= N * N
  <2>1. TurnEnd(1) = N - current_index_[1] /\ TurnEnd(2) = turn
    BY <1>2 DEF TurnEnd
  <2>2. N - current_index_[2] \in Nat /\ N - current_index_[2] <= N
    BY <1>2
  <2>3. turn \in Nat /\ turn <= N * N
    BY <1>2, <2>2
  <2> QED
    BY <2>1, <2>3
<1>4. Along(p.slot) = (o - 1) * interval_(v)
  BY <1>1 DEF Along
<1>5. p.past = passed + Along(p.slot)
  BY <1>1, <1>4
<1>6. ASSUME v \in {2, 3}, left \in Nat PROVE p.past <= t
  <2>1. interval_(v) \in Nat /\ interval_(v) > 0
    BY <1>6, Intervals DEF Wheels
  <2>2. (o - 1) * interval_(v) \in Nat /\ (o - 1) * interval_(v) <= left
    <3>1. o = IF left \div interval_(v) >= N THEN N - 1
              ELSE IF left \div interval_(v) < 1 THEN 1 ELSE left \div interval_(v)
      BY DEF SlotOffset
    <3> HIDE DEF o, left
    <3> QED
      BY <1>1, <1>6, <2>1, <3>1, RunUpIs
  <2> DEFINE m == (o - 1) * interval_(v)
  <2>3. m \in Nat /\ m <= t - passed /\ p.past = passed + m
    BY <1>1, <2>2
  <2> HIDE DEF m, p, passed
  <2> QED
    BY <1>1, <2>3
<1> HIDE DEF turn
<1>7. CASE w = 1
  <2>1. CASE t - past < N
    <3>1. v = 1 /\ passed = past
      BY <1>2, <1>7, <2>1, HolderIs
    <3>2. t - past \in Int /\ t - past \in 1 .. N - 1 /\ 1 \in Wheels
      BY <1>2, <2>1 DEF Wheels
    <3>3. o = t - past
      BY <3>1, <3>2, OffsetIs
    <3>4. Along(p.slot) = o - 1
      BY <1>1, <1>2, <1>4, <3>1
    <3> HIDE DEF p, v, passed, o
    <3> QED
      BY <1>1, <1>7, <3>1, <3>2, <3>3, <3>4 DEF p
  <2>2. CASE ~ t - past < N /\ t - (past + TurnEnd(1)) < N * N
    <3>1. v = 2
      BY <1>2, <1>7, <2>2, HolderIs
    <3>2. passed = past + TurnEnd(1)
      BY <1>2, <1>7, <2>2, <3>1, HolderIs
    <3>3. left \in Nat
      BY <1>2, <1>3, <2>2, <3>2
    <3>4. p.past <= t
      BY <1>6, <3>1, <3>3
    <3>5. p.past = past + round + Along(p.slot)
      BY <1>3, <1>5, <1>7, <3>2
    <3> QED
      BY <1>1, <3>1, <3>4, <3>5
  <2>3. CASE ~ t - past < N /\ ~ t - (past + TurnEnd(1)) < N * N
    <3>1. v = 3
      BY <1>2, <1>7, <2>3, HolderIs
    <3>6. passed = past + TurnEnd(1) + TurnEnd(2)
      BY <1>2, <1>7, <2>3, <3>1, HolderIs
    <3>2. left \in Nat
      BY <1>2, <1>3, <2>3, <3>6
    <3>3. p.past <= t
      BY <1>6, <3>1, <3>2
    <3>4. p.past = past + round + turn + Along(p.slot)
      BY <1>3, <1>5, <1>7, <3>6
    <3>5. ~ t - past < N * N
      BY <1>2, <1>3, <2>3
    <3> QED
      BY <1>1, <3>1, <3>3, <3>4, <3>5 DEF turn
  <2> QED
    BY <2>1, <2>2, <2>3, <1>2, <1>3
<1>8. CASE w = 2
  <2>1. CASE t - past < N * N
    <3>1. v = 2 /\ passed = past
      BY <1>2, <1>8, <2>1, HolderIs
    <3>2. left \in Nat
      BY <1>2, <2>1, <3>1
    <3>3. p.past <= t
      BY <1>6, <3>1, <3>2
    <3>4. p.past = past + round + Along(p.slot)
      BY <1>5, <1>8, <3>1
    <3> QED
      BY <1>1, <3>1, <3>3, <3>4
  <2>2. CASE ~ t - past < N * N
    <3>1. v = 3
      BY <1>1, <1>2, <1>8, <2>2, HolderIs
    <3>2. passed = past + turn
      BY <1>2, <1>3, <1>8, <2>2, <3>1, HolderIs
    <3>3. left \in Nat
      BY <1>2, <1>3, <2>2, <3>2
    <3>4. p.past <= t
      BY <1>6, <3>1, <3>3
    <3>5. p.past = past + round + turn + Along(p.slot)
      BY <1>5, <1>8, <3>2
    <3> QED
      BY <1>1, <2>2, <3>1, <3>4, <3>5 DEF turn
  <2> QED
    BY <2>1, <2>2
<1> QED
  BY <1>7, <1>8

(* A remainder that is the number itself. *)
LEMMA SmallMod ==
  ASSUME NEW a \in Nat, NEW b \in Nat, a < b
  PROVE  a % b = a
<1> DEFINE r == a % b
           q == a \div b
<1>1. b > 0 /\ q \in Int /\ r \in 0 .. b - 1 /\ a = b * q + r
  OBVIOUS
<1> HIDE DEF q, r
<1>2. q = 0
  <2>1. ~ q < 0
    <3> SUFFICES ASSUME q <= 0 - 1 PROVE FALSE
      BY <1>1
    <3>1. b * q <= b * (0 - 1) /\ b * q \in Int
      BY <1>1
    <3> QED
      BY <1>1, <3>1
  <2>2. ~ q > 0
    <3> SUFFICES ASSUME q >= 1 PROVE FALSE
      BY <1>1
    <3>1. b * q >= b * 1 /\ b * q \in Int
      BY <1>1
    <3> QED
      BY <1>1, <3>1
  <2> QED
    BY <1>1, <2>1, <2>2
<1> QED
  BY <1>1, <1>2 DEF r

(* The time that the second wheel and the third take to move on, at most. *)
LEMMA MovesInBound ==
  ASSUME TypeOK
  PROVE  /\ MovesIn(1) = 1 /\ MovesIn(2) \in Nat /\ MovesIn(3) \in Nat
         /\ MovesIn(2) <= N - current_index_[1]
         /\ (N - current_index_[2]) * N \in Nat
         /\ MovesIn(3) + N <= (N - current_index_[2]) * N + (N - current_index_[1])
         /\ (turning # 1 \/ current_index_[1] # 0) => MovesIn(2) = N - current_index_[1]
<1> DEFINE c1 == current_index_[1]
           c2 == current_index_[2]
           second == IF turning = 1 /\ c1 = 0 THEN 0 ELSE N - c1
<1>1. /\ N \in Nat /\ N > 1 /\ c1 \in 0 .. N - 1 /\ c2 \in 0 .. N - 1
      /\ MovesIn(1) = 1 /\ MovesIn(2) = second /\ MovesIn(3) \in Nat
      /\ MovesIn(3) = IF turning = 2 /\ c2 = 0 THEN 0 ELSE (N - 1 - c2) * N + second
  BY MovesInIs, Intervals DEF Wheels
<1> HIDE DEF c1, c2
<1>2. (N - 1 - c2) * N + N = (N - c2) * N /\ (N - 1 - c2) * N \in Nat
  BY <1>1
<1> DEFINE m == (N - 1 - c2) * N
<1>3. m \in Nat /\ (N - c2) * N = m + N
  BY <1>2
<1> HIDE DEF m
<1>4. MovesIn(3) = IF turning = 2 /\ c2 = 0 THEN 0 ELSE m + second
  BY <1>1 DEF m
<1>5. second \in Nat /\ second <= N - c1
  BY <1>1
<1>6. MovesIn(3) + N <= (m + N) + (N - c1)
  BY <1>1, <1>3, <1>4, <1>5
<1> QED
  BY <1>1, <1>3, <1>5, <1>6 DEF c1, c2

(* A tick brings every slot one tick nearer. *)
LEMMA TickToGo ==
  ASSUME TypeOK, Turning, Tick, NEW s \in Slots
  PROVE  ToGo'[s] \in Int /\ ToGo'[s] + 1 = ToGo[s]
<1> DEFINE c == current_index_
<1>1. /\ N \in Nat /\ N > 1 /\ N * N \in Nat /\ interval_(1) = 1
      /\ interval_(2) = N /\ interval_(3) = N * N
  BY Intervals
<1>2. /\ c \in [Wheels -> 0 .. N - 1] /\ c[1] \in 0 .. N - 1 /\ c[2] \in 0 .. N - 1
      /\ c[3] \in 0 .. N - 1
  BY DEF TypeOK, Wheels
<1>3. turning = 0 /\ turning' = 1 /\ c' = [c EXCEPT ![1] = (@ + 1) % N]
  BY DEF Tick, Null
<1>4. c'[1] = (IF c[1] + 1 = N THEN 0 ELSE c[1] + 1) /\ c'[2] = c[2] /\ c'[3] = c[3]
  <2>1. (c[1] + 1) % N = IF c[1] + 1 = N THEN 0 ELSE c[1] + 1
    BY <1>2, NextIndex
  <2> QED
    BY <1>2, <1>3, <2>1 DEF Wheels
<1>5. s[1] \in Wheels /\ s[2] \in 0 .. N - 1
  BY DEF Slots
<1>6. CASE s[1] = 1
  <2>1. ToGo[s] = Ahead(s)
    BY <1>1, <1>2, <1>3, <1>5, <1>6 DEF ToGo, Along, Ahead, MovesIn
  <2>2. ToGo'[s] = IF s[2] = c'[1] THEN 0
                   ELSE IF s[2] > c'[1] THEN s[2] - c'[1] ELSE s[2] - c'[1] + N
    BY <1>1, <1>2, <1>3, <1>4, <1>5, <1>6 DEF ToGo, Along, Ahead, MovesIn
  <2> HIDE DEF c
  <2> QED
    BY <1>1, <1>2, <1>4, <1>5, <1>6, <2>1, <2>2 DEF Ahead, c
<1>7. CASE s[1] \in {2, 3}
  <2>1. ToGo[s] = Along(s) + MovesIn(s[1])
    BY <1>3, <1>7 DEF ToGo
  <2>2. ToGo'[s] = Along(s) + MovesIn(s[1])'
    BY <1>3, <1>4, <1>7 DEF ToGo, Along, Ahead
  <2>3. /\ s[1] = 2 => MovesIn(s[1]) = N - c[1]
        /\ s[1] = 3 => MovesIn(s[1]) = (N - 1 - c[2]) * N + N - c[1]
    BY <1>1, <1>2, <1>3 DEF MovesIn
  <2>4. /\ s[1] = 2 => MovesIn(s[1])' = IF c'[1] = 0 THEN 0 ELSE N - c'[1]
        /\ s[1] = 3 => MovesIn(s[1])' = (N - 1 - c[2]) * N + IF c'[1] = 0 THEN 0 ELSE N - c'[1]
    BY <1>1, <1>2, <1>3, <1>4 DEF MovesIn
  <2>5. Along(s) \in Nat /\ (N - 1 - c[2]) * N \in Nat
    BY <1>1, <1>2, ToGoIs
  <2> DEFINE turns == (N - 1 - c[2]) * N
             along == Along(s)
             moves == MovesIn(s[1])'
  <2>6. /\ s[1] = 2 => moves = IF c'[1] = 0 THEN 0 ELSE N - c'[1]
        /\ s[1] = 3 => moves = turns + IF c'[1] = 0 THEN 0 ELSE N - c'[1]
    BY <2>4
  <2>7. ToGo'[s] = along + moves
    BY <2>2
  <2>8. /\ s[1] = 2 => ToGo[s] = along + (N - c[1])
        /\ s[1] = 3 => ToGo[s] = along + (turns + N - c[1])
    BY <2>1, <2>3
  <2>9. along \in Nat /\ turns \in Nat
    BY <2>5
  <2> HIDE DEF c, along, turns, moves
  <2>10. N \in Nat /\ c[1] \in 0 .. N - 1
    BY <1>1, <1>2
  <2>11. CASE s[1] = 2
    BY <1>4, <2>6, <2>7, <2>8, <2>9, <2>10, <2>11
  <2>12. CASE s[1] = 3
    BY <1>4, <2>6, <2>7, <2>8, <2>9, <2>10, <2>12
  <2> QED
    BY <1>7, <2>11, <2>12
<1> QED
  BY <1>5, <1>6, <1>7 DEF Wheels

(* A wheel that follows another, or is the last to, brings no slot nearer, *)
(* but for the one that has been emptied.                                  *)
LEMMA NextToGo ==
  ASSUME TypeOK, Turning, NextWheel, NEW s \in Slots, s # Current
  PROVE  ToGo'[s] = ToGo[s]
<1> DEFINE c == current_index_
<1>1. /\ N \in Nat /\ N > 1 /\ N * N \in Nat /\ interval_(1) = 1
      /\ interval_(2) = N /\ interval_(3) = N * N
  BY Intervals
<1>2. /\ c \in [Wheels -> 0 .. N - 1] /\ c[1] \in 0 .. N - 1 /\ c[2] \in 0 .. N - 1
      /\ c[3] \in 0 .. N - 1
  BY DEF TypeOK, Wheels
<1>3. turning \in Wheels /\ (turning \in {2, 3} => c[1] = 0) /\ (turning = 3 => c[2] = 0)
  BY DEF NextWheel, TypeOK, Turning
<1>4. s[1] \in Wheels /\ s[2] \in 0 .. N - 1 /\ Along(s) \in Nat /\ Ahead(s) \in 1 .. N
  BY SlotIs, ToGoIs
<1>5. ~ (turning = s[1] /\ s[2] = c[s[1]])
  BY DEF Current, Slots
<1>6. ToGo[s] = Along(s) + MovesIn(s[1])
  BY <1>5 DEF ToGo
<1>7. CASE ~ (Carry /\ turning < 3)
  <2>1. turning' = 0 /\ UNCHANGED current_index_
    BY <1>7 DEF NextWheel, Null
  <2>2. /\ turning = 1 => c[1] # 0
        /\ turning = 2 => c[2] # 0
    BY <1>7 DEF Carry
  <2>3. ToGo'[s] = Along(s) + MovesIn(s[1])'
    BY <1>4, <2>1 DEF ToGo, Along, Ahead, Wheels
  <2>4. MovesIn(s[1])' = MovesIn(s[1])
    BY <1>3, <2>1, <2>2 DEF MovesIn, Wheels
  <2> QED
    BY <1>6, <2>3, <2>4
<1>8. CASE Carry /\ turning = 1
  <2>1. turning' = 2 /\ c' = [c EXCEPT ![2] = (@ + 1) % N] /\ c[1] = 0
    BY <1>8 DEF NextWheel, Carry
  <2>2. c'[1] = c[1] /\ c'[2] = (IF c[2] + 1 = N THEN 0 ELSE c[2] + 1) /\ c'[3] = c[3]
    <3>1. (c[2] + 1) % N = IF c[2] + 1 = N THEN 0 ELSE c[2] + 1
      BY <1>2, NextIndex
    <3> QED
      BY <1>2, <2>1, <3>1 DEF Wheels
  <2>3. CASE s[1] = 1
    BY <1>1, <1>2, <1>6, <1>8, <2>1, <2>2, <2>3 DEF ToGo, Along, Ahead, MovesIn
  <2>4. CASE s[1] = 2
    <3>1. ToGo[s] = (Ahead(s) - 1) * N
      BY <1>1, <1>2, <1>4, <1>6, <1>8, <2>1, <2>4 DEF Along, MovesIn
    <3>2. ToGo'[s] = IF s[2] = c'[2] THEN 0 ELSE (Ahead(s)' - 1) * N + N
      BY <1>1, <1>2, <1>4, <2>1, <2>2, <2>4 DEF ToGo, Along, MovesIn
    <3>3. Ahead(s)' = IF s[2] = c'[2] THEN N ELSE Ahead(s) - 1
      BY <1>1, <1>2, <1>4, <2>2, <2>4 DEF Ahead
    <3>4. s[2] = c'[2] => Ahead(s) = 1
      BY <1>1, <1>2, <1>4, <2>2, <2>4 DEF Ahead
    <3>5. CASE s[2] = c'[2]
      BY <1>1, <3>1, <3>2, <3>4, <3>5
    <3>6. CASE s[2] # c'[2]
      <4> DEFINE a == Ahead(s)
      <4>1. a \in Int /\ ToGo[s] = (a - 1) * N /\ ToGo'[s] = (a - 1 - 1) * N + N
        BY <1>4, <3>1, <3>2, <3>3, <3>6
      <4> HIDE DEF a
      <4> QED
        BY <1>1, <4>1
    <3> QED
      BY <3>5, <3>6
  <2>5. CASE s[1] = 3
    <3>1. MovesIn(3) = (N - 1 - c[2]) * N
      BY <1>1, <1>2, <1>8, <2>1 DEF MovesIn
    <3>2. MovesIn(3)' = IF c'[2] = 0 THEN 0 ELSE (N - 1 - c'[2]) * N + N
      BY <1>1, <1>2, <2>1, <2>2 DEF MovesIn
    <3>3. MovesIn(3)' = MovesIn(3)
      <4>1. CASE c[2] + 1 = N
        BY <1>1, <1>2, <2>2, <3>1, <3>2, <4>1
      <4>2. CASE c[2] + 1 # N
        <5> DEFINE d == c[2]
        <5>1. d \in Int /\ MovesIn(3) = (N - 1 - d) * N /\ MovesIn(3)' = (N - 1 - (d + 1)) * N + N
          BY <1>2, <2>2, <3>1, <3>2, <4>2
        <5> HIDE DEF d
        <5> QED
          BY <1>1, <5>1
      <4> QED
        BY <4>1, <4>2
    <3>4. ToGo'[s] = Along(s) + MovesIn(3)'
      BY <2>1, <2>2, <2>5 DEF ToGo, Along, Ahead
    <3> QED
      BY <1>6, <2>5, <3>3, <3>4
  <2> QED
    BY <1>4, <2>3, <2>4, <2>5 DEF Wheels
<1>9. CASE Carry /\ turning = 2
  <2>1. turning' = 3 /\ c' = [c EXCEPT ![3] = (@ + 1) % N] /\ c[1] = 0 /\ c[2] = 0
    BY <1>3, <1>9 DEF NextWheel, Carry
  <2>2. c'[1] = c[1] /\ c'[2] = c[2] /\ c'[3] = (IF c[3] + 1 = N THEN 0 ELSE c[3] + 1)
    <3>1. (c[3] + 1) % N = IF c[3] + 1 = N THEN 0 ELSE c[3] + 1
      BY <1>2, NextIndex
    <3> QED
      BY <1>2, <2>1, <3>1 DEF Wheels
  <2>3. CASE s[1] \in {1, 2}
    <3>1. ToGo'[s] = Along(s) + MovesIn(s[1])'
      BY <2>1, <2>2, <2>3 DEF ToGo, Along, Ahead
    <3>2. MovesIn(s[1])' = MovesIn(s[1])
      BY <1>9, <2>1, <2>2, <2>3 DEF MovesIn
    <3> QED
      BY <1>6, <3>1, <3>2
  <2>4. CASE s[1] = 3
    <3>1. ToGo[s] = (Ahead(s) - 1) * (N * N)
      BY <1>1, <1>2, <1>4, <1>6, <1>9, <2>1, <2>4 DEF Along, MovesIn
    <3>2. ToGo'[s] = IF s[2] = c'[3] THEN 0 ELSE (Ahead(s)' - 1) * (N * N) + ((N - 1 - 0) * N + N)
      <4>1. MovesIn(3)' = (N - 1 - 0) * N + N
        <5>1. current_index_'[1] = 0 /\ current_index_'[2] = 0 /\ turning' = 3
          BY <2>1, <2>2
        <5> QED
          BY <5>1, <1>1 DEF MovesIn
      <4>2. Along(s)' = (Ahead(s)' - 1) * (N * N)
        BY <1>1, <2>4 DEF Along
      <4>3. ToGo'[s] = IF s[2] = c'[3] THEN 0 ELSE Along(s)' + MovesIn(3)'
        BY <2>1, <2>4 DEF ToGo
      <4> QED
        BY <4>1, <4>2, <4>3
    <3>7. c'[3] \in 0 .. N - 1 /\ c[3] \in 0 .. N - 1 /\ s[2] \in 0 .. N - 1 /\ N \in Nat /\ N > 1
      BY <1>1, <1>2, <1>4, <2>2
    <3>8. /\ Ahead(s) = IF s[2] > c[3] THEN s[2] - c[3] ELSE s[2] - c[3] + N
          /\ Ahead(s)' = IF s[2] > c'[3] THEN s[2] - c'[3] ELSE s[2] - c'[3] + N
      BY <2>4 DEF Ahead
    <3> HIDE DEF c
    <3>3. Ahead(s)' = IF s[2] = c'[3] THEN N ELSE Ahead(s) - 1
      BY <2>2, <3>7, <3>8
    <3>4. s[2] = c'[3] => Ahead(s) = 1
      BY <2>2, <3>7, <3>8
    <3>5. CASE s[2] = c'[3]
      BY <1>1, <3>1, <3>2, <3>4, <3>5
    <3>6. CASE s[2] # c'[3]
      <4> DEFINE a == Ahead(s)
      <4>1. /\ a \in Int /\ ToGo[s] = (a - 1) * (N * N)
            /\ ToGo'[s] = (a - 1 - 1) * (N * N) + ((N - 1 - 0) * N + N)
        BY <1>4, <3>1, <3>2, <3>3, <3>6
      <4> HIDE DEF a
      <4> QED
        BY <1>1, <4>1
    <3> QED
      BY <3>5, <3>6
  <2> QED
    BY <1>4, <2>3, <2>4 DEF Wheels
<1> QED
  BY <1>3, <1>7, <1>8, <1>9 DEF Wheels

(* A unit is put on course: not late, if it is not so far; and not early,  *)
(* if the first two wheels can hold its time.                              *)
LEMMA PutOnCourse ==
  ASSUME TypeOK, NEW w \in {1, 2}, NEW t \in Nat, NEW past \in Nat, NEW a \in Nat, NEW k \in Nat,
         past < t, w = 1 => a <= past, w = 2 => a + N <= past /\ current_index_[1] = 0
  PROVE  LET p == Placement(w, t, past)
             goal == IF p.slot[1] = 1 THEN t ELSE p.past
         IN  /\ goal <= t /\ a + ToGo[p.slot] + Spare(p.slot[1]) <= goal
             /\ w = 1 /\ t < N * N /\ past <= a + k
                  /\ past + (N - current_index_[1]) <= a + MovesIn(2) + k =>
                       p.slot[1] # 3 /\ goal <= a + ToGo[p.slot] + k
<1> DEFINE p == Placement(w, t, past)
           s == p.slot
           c1 == current_index_[1]
           round == IF w = 1 THEN N - c1 ELSE 0
           turn == (N - current_index_[2]) * N
           along == Along(s)
           goal == IF s[1] = 1 THEN t ELSE p.past
           NowLate == ~ (goal <= t /\ a + ToGo[s] + Spare(s[1]) <= goal)
           NowEarly == /\ w = 1 /\ t < N * N /\ past <= a + k
                       /\ past + (N - c1) <= a + MovesIn(2) + k
                       /\ ~ (s[1] # 3 /\ goal <= a + ToGo[s] + k)
<1>1. /\ N \in Nat /\ N > 1 /\ N * N \in Nat /\ c1 \in 0 .. N - 1
  BY Intervals DEF TypeOK, Wheels
<1>2. s \in Slots /\ p.past \in Nat /\ s[2] # current_index_[s[1]]
  <2> DEFINE v == Holder(w, t, past)
  <2>1. s \in Slots /\ s[1] = v /\ s[2] # current_index_[v] /\ p.past \in Nat
    BY PlacementIs
  <2> HIDE DEF p, v
  <2> QED
    BY <2>1
<1>3. \/ w = 1 /\ s[1] = 1 /\ along + 1 = t - past
      \/ s[1] = 2 /\ p.past <= t /\ p.past = past + round + along
      \/ s[1] = 3 /\ p.past <= t /\ p.past = past + round + turn + along /\ ~ t - past < N * N
  BY PlacementTimed
<1> HIDE DEF p
<1>4. ToGo[s] = along + MovesIn(s[1]) /\ along \in Nat
  BY <1>2, ToGoIs DEF ToGo
<1>5. /\ MovesIn(1) = 1 /\ MovesIn(2) \in Nat /\ MovesIn(3) \in Nat /\ MovesIn(2) <= N - c1
      /\ turn \in Nat /\ MovesIn(3) + N <= turn + (N - c1)
  BY MovesInBound
<1> HIDE DEF s, turn, along, c1
<1>6. ASSUME s[1] = 1 PROVE ~ NowLate /\ ~ NowEarly
  <2>1. ToGo[s] = along + 1 /\ Spare(s[1]) = 0 /\ goal = t /\ along + 1 = t - past /\ w = 1
    BY <1>3, <1>4, <1>5, <1>6 DEF Spare
  <2> HIDE DEF goal
  <2>2. ~ NowLate
    BY <1>4, <2>1
  <2>3. ~ NowEarly
    BY <1>4, <1>6, <2>1
  <2> QED
    BY <2>2, <2>3
<1>7. ASSUME s[1] = 2 PROVE ~ NowLate /\ ~ NowEarly
  <2> DEFINE m2 == MovesIn(2)
  <2>1. ToGo[s] = along + m2 /\ m2 \in Nat /\ m2 <= N - c1 /\ Spare(s[1]) = 0
    BY <1>4, <1>5, <1>7 DEF Spare
  <2> HIDE DEF m2
  <2>2. p.past <= t /\ p.past = past + round + along
    BY <1>3, <1>7
  <2>3. a + ToGo[s] + 0 <= p.past
    <3>1. CASE w = 1
      BY <1>1, <1>4, <2>1, <2>2, <3>1
    <3>2. CASE w = 2
      BY <1>1, <1>4, <2>1, <2>2, <3>2 DEF c1
    <3> QED
      BY <3>1, <3>2
  <2>4. ASSUME w = 1, past + (N - c1) <= a + m2 + k PROVE p.past <= a + ToGo[s] + k
    BY <1>1, <1>4, <2>1, <2>2, <2>4
  <2>5. goal = p.past
    BY <1>7
  <2> HIDE DEF goal
  <2>6. ~ NowLate
    BY <2>1, <2>2, <2>3, <2>5
  <2>7. ~ NowEarly
    BY <1>7, <2>4, <2>5 DEF m2
  <2> QED
    BY <2>6, <2>7
<1>8. ASSUME s[1] = 3 PROVE ~ NowLate /\ ~ NowEarly
  <2> DEFINE m3 == MovesIn(3)
  <2>1. ToGo[s] = along + m3 /\ m3 \in Nat /\ m3 + N <= turn + (N - c1) /\ Spare(s[1]) = N
    BY <1>4, <1>5, <1>8 DEF Spare
  <2> HIDE DEF m3
  <2>2. p.past <= t /\ p.past = past + round + turn + along /\ ~ t < N * N
    BY <1>1, <1>3, <1>8
  <2>3. a + ToGo[s] + N <= p.past
    <3>1. CASE w = 1
      BY <1>1, <1>4, <1>5, <2>1, <2>2, <3>1
    <3>2. CASE w = 2
      BY <1>1, <1>4, <1>5, <2>1, <2>2, <3>2 DEF c1
    <3> QED
      BY <3>1, <3>2
  <2>4. goal = p.past
    BY <1>8
  <2> HIDE DEF goal
  <2>5. ~ NowLate
    BY <2>1, <2>2, <2>3, <2>4
  <2>6. ~ NowEarly
    BY <2>2
  <2> QED
    BY <2>5, <2>6
<1> QED
  <2>1. s[1] \in {1, 2, 3}
    BY <1>3
  <2>2. ~ NowLate /\ ~ NowEarly
    BY <2>1, <1>6, <1>7, <1>8
  <2> QED
    BY <2>2 DEF s, p, c1

-----------------------------------------------------------------------------
(* The values of a unit. *)
LEMMA UnitIs ==
  ASSUME TypeOK, NEW id \in Live
  PROVE  /\ id \in Ids /\ id # Null /\ unit[id].member_ \in Members
         /\ unit[id].time_ \in Nat /\ unit[id].time_ > 0 /\ unit[id].past_time_ \in Nat
         /\ age[id] \in Nat
<1>1. id \in Ids /\ id # Null
  BY WheelAssumption DEF TypeOK, Null
<1>2. unit[id] \in [member_ : Members, time_ : Times, past_time_ : Nat]
  BY DEF TypeOK
<1>3. unit[id].time_ \in Times
  BY <1>2
<1>4. unit[id].time_ \in Nat /\ unit[id].time_ > 0
  <2>1. \A t \in Times : t \in Nat /\ t > 0
    BY WheelAssumption
  <2> QED
    BY <1>3, <2>1
<1> QED
  BY <1>1, <1>2, <1>4 DEF TypeOK

(* What the list of a slot holds. *)
LEMMA ListIs ==
  ASSUME TypeOK, UnitsPlaced, NEW s \in Slots
  PROVE  /\ slot_list_[s] \in Seq(Ids) /\ IsInjective(slot_list_[s])
         /\ ToSet(slot_list_[s]) = {id \in Ids : location_[id] = s}
  BY DEF TypeOK, UnitsPlaced

(* The unit at the head of the slot being emptied. *)
LEMMA FirstIs ==
  ASSUME TypeOK, UnitsPlaced, turning # Null, slot_list_[Current] # <<>>
  PROVE  /\ turning \in Wheels /\ Current \in Slots /\ Current[1] = turning
         /\ Current[2] = current_index_[turning] /\ Current # Nowhere
         /\ First \in Live /\ First \in Ids /\ location_[First] = Current /\ ~ InHand(First)
         /\ First # Null
         /\ Tail(slot_list_[Current]) \in Seq(Ids) /\ IsInjective(Tail(slot_list_[Current]))
         /\ ToSet(Tail(slot_list_[Current])) = {id \in Ids : location_[id] = Current} \ {First}
<1>1. turning \in Wheels /\ current_index_[turning] \in 0 .. N - 1
  BY DEF TypeOK
<1>2. /\ Current \in Slots /\ Current[1] = turning /\ Current[2] = current_index_[turning]
      /\ Current # Nowhere
  BY <1>1 DEF Current, Slots, Nowhere, Wheels
<1> DEFINE list == slot_list_[Current]
<1>3. list \in Seq(Ids) /\ IsInjective(list) /\ list # <<>>
      /\ ToSet(list) = {id \in Ids : location_[id] = Current}
  BY <1>2, ListIs
<1> HIDE DEF list
<1>4. /\ Tail(list) \in Seq(Ids) /\ IsInjective(Tail(list)) /\ Head(list) \in ToSet(list)
      /\ Head(list) \in Ids /\ ToSet(Tail(list)) = ToSet(list) \ {Head(list)}
  BY <1>3, TailList
<1>5. First = Head(list)
  BY DEF First, list
<1>6. First \in Ids /\ location_[First] = Current
  BY <1>3, <1>4, <1>5
<1>7. First \in Live /\ ~ InHand(First)
  BY <1>2, <1>6 DEF UnitsPlaced
<1>8. First # Null
  BY <1>7, UnitIs
<1> QED
  BY <1>1, <1>2, <1>3, <1>4, <1>5, <1>6, <1>7, <1>8 DEF list

(* The lists and the locations agree when a unit is put in a slot. *)
Listed ==
    \A s \in Slots : ToSet(slot_list_[s]) = {id \in Ids : location_[id] = s}
                     /\ IsInjective(slot_list_[s])

LEMMA PushListed ==
  ASSUME TypeOK, UnitsPlaced, NEW id \in Ids, location_[id] = Nowhere, NEW s \in Slots,
         slot_list_' = [slot_list_ EXCEPT ![s] = <<id>> \o @],
         location_' = [location_ EXCEPT ![id] = s]
  PROVE  /\ slot_list_' \in [Slots -> Seq(Ids)] /\ location_' \in [Ids -> Slots \cup {Nowhere}]
         /\ Listed'
<1>1. slot_list_[s] \in Seq(Ids) /\ IsInjective(slot_list_[s])
      /\ ToSet(slot_list_[s]) = {u \in Ids : location_[u] = s}
  BY ListIs
<1>2. s # Nowhere
  BY SlotIs
<1>3. id \notin ToSet(slot_list_[s])
  BY <1>1, <1>2
<1>4. /\ <<id>> \o slot_list_[s] \in Seq(Ids) /\ IsInjective(<<id>> \o slot_list_[s])
      /\ ToSet(<<id>> \o slot_list_[s]) = ToSet(slot_list_[s]) \cup {id}
  BY <1>1, <1>3, PushList
<1>5. slot_list_' \in [Slots -> Seq(Ids)] /\ location_' \in [Ids -> Slots \cup {Nowhere}]
  BY <1>4 DEF TypeOK
<1>6. ASSUME NEW x \in Slots
      PROVE  ToSet(slot_list_'[x]) = {u \in Ids : location_'[u] = x} /\ IsInjective(slot_list_'[x])
  <2>0. \A u \in Ids : location_'[u] = IF u = id THEN s ELSE location_[u]
    BY DEF TypeOK
  <2>1. CASE x = s
    <3>1. slot_list_'[x] = <<id>> \o slot_list_[s]
      BY <2>1 DEF TypeOK
    <3>2. {u \in Ids : location_'[u] = x} = {u \in Ids : location_[u] = s} \cup {id}
      BY <2>0, <2>1
    <3> QED
      BY <1>1, <1>4, <3>1, <3>2
  <2>2. CASE x # s
    <3>1. slot_list_'[x] = slot_list_[x]
      BY <2>2 DEF TypeOK
    <3>2. x # Nowhere
      BY SlotIs
    <3>3. {u \in Ids : location_'[u] = x} = {u \in Ids : location_[u] = x}
      BY <2>0, <2>2, <3>2
    <3> QED
      BY <3>1, <3>3, ListIs
  <2> QED
    BY <2>1, <2>2
<1> QED
  BY <1>5, <1>6 DEF Listed

(* And when one is taken out of its slot. *)
LEMMA TakeListed ==
  ASSUME TypeOK, UnitsPlaced, NEW id \in Ids, NEW s \in Slots, location_[id] = s,
         NEW rest \in Seq(Ids), IsInjective(rest), ToSet(rest) = {u \in Ids : location_[u] = s} \ {id},
         slot_list_' = [slot_list_ EXCEPT ![s] = rest],
         location_' = [location_ EXCEPT ![id] = Nowhere]
  PROVE  /\ slot_list_' \in [Slots -> Seq(Ids)] /\ location_' \in [Ids -> Slots \cup {Nowhere}]
         /\ Listed'
<1>1. slot_list_' \in [Slots -> Seq(Ids)] /\ location_' \in [Ids -> Slots \cup {Nowhere}]
  BY DEF TypeOK
<1>2. ASSUME NEW x \in Slots
      PROVE  ToSet(slot_list_'[x]) = {u \in Ids : location_'[u] = x} /\ IsInjective(slot_list_'[x])
  <2>0. x # Nowhere /\ \A u \in Ids : location_'[u] = IF u = id THEN Nowhere ELSE location_[u]
    BY SlotIs DEF TypeOK
  <2>1. CASE x = s
    <3>1. slot_list_'[x] = rest
      BY <2>1 DEF TypeOK
    <3>2. {u \in Ids : location_'[u] = x} = {u \in Ids : location_[u] = s} \ {id}
      BY <2>0, <2>1
    <3> QED
      BY <3>1, <3>2
  <2>2. CASE x # s
    <3>1. slot_list_'[x] = slot_list_[x]
      BY <2>2 DEF TypeOK
    <3>3. {u \in Ids : location_'[u] = x} = {u \in Ids : location_[u] = x}
      BY <2>0, <2>2
    <3> QED
      BY <3>1, <3>3, ListIs
  <2> QED
    BY <2>1, <2>2
<1> QED
  BY <1>1, <1>2 DEF Listed

-----------------------------------------------------------------------------
(* The wheels start sound. *)
LEMMA InitSound == Init => WInv
<1> SUFFICES ASSUME Init PROVE WInv
  OBVIOUS
<1>1. Live = {}
  BY DEF Init, Live
<1>2. TypeOK
  <2>1. unit \in [Live -> [member_ : Members, time_ : Times, past_time_ : Nat]]
    BY <1>1 DEF Init, Live
  <2>2. slot_list_ \in [Slots -> Seq(Ids)]
    BY DEF Init
  <2>3. /\ current_index_ \in [Wheels -> 0 .. N - 1] /\ age \in [Ids -> Nat]
    BY Intervals DEF Init
  <2>4. obj \in Members /\ wheel \in Wheels
    BY DEF Init, Wheels
  <2> QED
    BY <1>1, <2>1, <2>2, <2>3, <2>4 DEF TypeOK, Init
<1>3. UnitsPlaced
  <2>1. ASSUME NEW s \in Slots
        PROVE  ToSet(slot_list_[s]) = {id \in Ids : location_[id] = s} /\ IsInjective(slot_list_[s])
    <3>1. slot_list_[s] = <<>> /\ s # Nowhere /\ \A id \in Ids : location_[id] = Nowhere
      BY <1>2, SlotIs DEF Init
    <3>2. ToSet(slot_list_[s]) = {}
      BY <3>1 DEF ToSet
    <3> QED
      BY <3>1, <3>2 DEF IsInjective
  <2> QED
    BY <1>1, <2>1 DEF UnitsPlaced, Init
<1>4. PointersSound /\ Turning
  BY <1>1 DEF PointersSound, Turning, Init, Null
<1>5. Threads /\ Found /\ Timed
  BY <1>1 DEF Threads, Found, Timed, Underway, Init, Null
<1> QED
  BY <1>2, <1>3, <1>4, <1>5 DEF WInv, Sound

-----------------------------------------------------------------------------
(* A race is recorded, and nothing else. *)
LEMMA RaceIs ==
  ASSUME TypeOK, NEW race \in Races, NEW happens \in BOOLEAN, Race(race, happens)
  PROVE  /\ races' \subseteq Races /\ (Defined' => Defined)
         /\ race = "shared" /\ happens => ~ Defined'
  BY DEF TypeOK, Race, Defined

(* A step of the main thread that changes nothing the other sees. *)
LEMMA QuietSound ==
  ASSUME TypeOK, Sound, UNCHANGED <<unitVars, timer_unit_p, worker>>,
         at \notin {"add", "insert"}, at' \notin {"add", "insert"}, Threads'
  PROVE  Sound'
<1>1. Live' = Live /\ \A id \in Ids : InHand(id)' <=> InHand(id)
  BY DEF Live, InHand, unitVars, worker
<1>2. UnitsPlaced'
  BY <1>1 DEF Sound, UnitsPlaced, unitVars, worker
<1>3. PointersSound' /\ Turning'
  BY <1>1 DEF Sound, PointersSound, Turning, unitVars, worker
<1> QED
  BY <1>2, <1>3 DEF Sound

LEMMA SetTimerSound ==
  ASSUME TypeOK, Sound, NEW m \in Members, NEW t \in Times \cup {DelTimer}, SetTimer(m, t)
  PROVE  TypeOK' /\ (Defined' => Sound')
<1>1. /\ at = "idle" /\ obj' = m /\ time' = t
      /\ UNCHANGED <<unitVars, timer_unit_p, worker, history>>
      /\ \/ /\ at' \in {"idle", "new"} /\ (at' = "new" => t # DelTimer)
            /\ held' = Null /\ wheel' = 1 /\ slot' = Nowhere
         \/ /\ at' = "follow" /\ held' = timer_unit_p[m] /\ timer_unit_p[m] # Null
            /\ UNCHANGED <<wheel, slot>>
  BY DEF SetTimer, AddNext, Rest
<1>2. timer_unit_p[m] \in Ids \cup {Null} /\ 1 \in Wheels
  BY DEF TypeOK, Wheels
<1>3. TypeOK'
  BY <1>1, <1>2 DEF TypeOK, Live, unitVars, worker, history
<1>4. Threads'
  <2>1. timer_unit_p[m] # Null => unit[timer_unit_p[m]].member_ = m
    BY DEF Sound, PointersSound
  <2> QED
    BY <1>1, <2>1 DEF Sound, Threads, Live, unitVars, worker
<1> QED
  BY <1>1, <1>3, <1>4, QuietSound

LEMMA FollowSound ==
  ASSUME TypeOK, Sound, Follow
  PROVE  TypeOK' /\ (Defined' => Sound')
<1>1. at = "follow" /\ UNCHANGED <<unitVars, timer_unit_p, worker, age, hurried, obj, time>>
  BY DEF Follow, setter
<1>2. /\ \/ at' \in {"idle", "new"} /\ (at' = "new" => time # DelTimer)
            /\ held' = Null /\ wheel' = 1 /\ slot' = Nowhere
         \/ at' = "unlink" /\ held \in Live /\ GetLocation(held) # Nowhere
            /\ UNCHANGED <<held, wheel, slot>>
         \/ ~ Defined' /\ UNCHANGED setter
      /\ races' \subseteq Races
  <2>1. CASE held \notin Live
    <3>1. Race("shared", TRUE) /\ UNCHANGED setter
      BY <2>1 DEF Follow
    <3> QED
      BY <3>1, RaceIs DEF Races
  <2>2. CASE held \in Live
    <3>1. Race("missed", hand = held /\ doing \in {"move", "locate"})
      BY <2>2 DEF Follow
    <3>2. races' \subseteq Races
      BY <3>1, RaceIs DEF Races
    <3> QED
      BY <2>2, <3>2 DEF Follow, AddNext, Rest
  <2> QED
    BY <2>1, <2>2
<1>3. TypeOK'
  <2>1. 1 \in Wheels
    BY DEF Wheels
  <2> QED
    BY <1>1, <1>2, <2>1 DEF TypeOK, Live, unitVars, worker, setter
<1>4. ASSUME Defined' PROVE Sound'
  <2>1. \/ at' \in {"idle", "new"} /\ (at' = "new" => time # DelTimer) /\ held' = Null
        \/ at' = "unlink" /\ held \in Live /\ location_[held] # Nowhere /\ held' = held
    BY <1>2, <1>4 DEF GetLocation
  <2>2. Threads'
    BY <1>1, <2>1 DEF Sound, Threads, Live, unitVars, worker
  <2>3. at' \notin {"add", "insert"}
    BY <2>1
  <2> QED
    BY <1>1, <2>2, <2>3, QuietSound
<1> QED
  BY <1>3, <1>4

LEMMA LocateSound ==
  ASSUME TypeOK, Sound, Locate
  PROVE  TypeOK' /\ (Defined' => Sound')
<1>1. /\ at = "locate" /\ at' = "idle" /\ held' = Null /\ wheel' = 1 /\ slot' = Nowhere
      /\ UNCHANGED <<obj, time, unitVars, timer_unit_p, worker, history>>
  BY DEF Locate, Rest
<1>2. TypeOK'
  <2>1. 1 \in Wheels
    BY DEF Wheels
  <2> QED
    BY <1>1, <2>1 DEF TypeOK, Live, unitVars, worker, history
<1>3. Threads'
  BY <1>1 DEF Sound, Threads, unitVars, worker
<1> QED
  BY <1>1, <1>2, <1>3, QuietSound

(* The unit that is unlinked is deleted, and its member's pointer cleared. *)
LEMMA UnlinkSound ==
  ASSUME TypeOK, Sound, Unlink
  PROVE  TypeOK' /\ (Defined' => Sound')
<1>1. CASE hand = held
  <2>1. /\ Race("shared", TRUE)
        /\ UNCHANGED <<unitVars, timer_unit_p, setter, hurried, worker, age>>
    BY <1>1 DEF Unlink
  <2>2. races' \subseteq Races /\ ~ Defined'
    BY <2>1, RaceIs DEF Races
  <2> QED
    BY <2>1, <2>2 DEF TypeOK, Live, unitVars, worker, setter
<1>2. CASE hand # held
  <2> DEFINE s == location_[held]
             rest == Without(slot_list_[s], held)
  <2>1. /\ at = "unlink" /\ held \in Live /\ held \in Ids /\ s \in Slots
        /\ unit[held].member_ = obj /\ held # Null
    BY UnitIs DEF Sound, Threads, Unlink, TypeOK
  <2>2. /\ slot_list_' = [slot_list_ EXCEPT ![s] = rest]
        /\ location_' = [location_ EXCEPT ![held] = Nowhere]
        /\ unit' = [u \in Live \ {held} |-> unit[u]]
        /\ timer_unit_p' = [timer_unit_p EXCEPT ![obj] = Null]
        /\ hurried' = hurried \ {held}
        /\ at' \in {"idle", "new"} /\ (at' = "new" => time # DelTimer)
        /\ held' = Null /\ wheel' = 1 /\ slot' = Nowhere
        /\ UNCHANGED <<obj, time, races, worker, age>>
    BY <1>2 DEF Unlink, AddNext, Rest
  <2>3. /\ slot_list_[s] \in Seq(Ids) /\ IsInjective(slot_list_[s]) /\ held \in ToSet(slot_list_[s])
        /\ ToSet(slot_list_[s]) = {u \in Ids : location_[u] = s}
    BY <2>1, ListIs DEF Sound
  <2>4. rest \in Seq(Ids) /\ IsInjective(rest) /\ ToSet(rest) = ToSet(slot_list_[s]) \ {held}
    BY <2>3, WithoutList
  <2>5. /\ slot_list_' \in [Slots -> Seq(Ids)] /\ location_' \in [Ids -> Slots \cup {Nowhere}]
        /\ Listed'
    <3> HIDE DEF rest
    <3> QED
      BY <2>1, <2>2, <2>3, <2>4, TakeListed DEF Sound
  <2>6. Live' = Live \ {held} /\ \A u \in Live' : unit'[u] = unit[u]
    BY <2>2 DEF Live
  <2>7. TypeOK'
    <3>1. unit' \in [Live' -> [member_ : Members, time_ : Times, past_time_ : Nat]]
      BY <2>2, <2>6 DEF TypeOK
    <3>2. Live' \subseteq Ids /\ 1 \in Wheels
      BY <2>6 DEF TypeOK, Wheels
    <3>3. timer_unit_p' \in [Members -> Ids \cup {Null}]
      BY <2>2 DEF TypeOK
    <3> QED
      BY <2>2, <2>5, <3>1, <3>2, <3>3 DEF TypeOK, worker
  <2>8. \A id \in Ids : location_'[id] # Nowhere <=> id \in Live' /\ ~ InHand(id)'
    <3>1. \A id \in Ids : location_'[id] = IF id = held THEN Nowhere ELSE location_[id]
      BY <2>2 DEF TypeOK
    <3>2. \A id \in Ids : InHand(id)' <=> InHand(id)
      BY <2>1, <2>2 DEF InHand, worker
    <3> QED
      BY <2>6, <3>1, <3>2 DEF Sound, UnitsPlaced
  <2>9. UnitsPlaced'
    <3>1. hand' # Null => hand' \in Live'
      BY <1>2, <2>2, <2>6 DEF Sound, UnitsPlaced, worker
    <3> QED
      BY <2>5, <2>8, <3>1 DEF UnitsPlaced, Listed
  <2>10. PointersSound'
    <3> SUFFICES ASSUME NEW m \in Members, timer_unit_p'[m] # Null
                 PROVE  timer_unit_p'[m] \in Live' /\ unit'[timer_unit_p'[m]].member_ = m
      BY DEF PointersSound
    <3>1. m # obj /\ timer_unit_p'[m] = timer_unit_p[m]
      BY <2>2 DEF TypeOK
    <3>2. timer_unit_p[m] \in Live /\ unit[timer_unit_p[m]].member_ = m
      BY <3>1 DEF Sound, PointersSound
    <3> QED
      BY <2>1, <2>6, <3>1, <3>2
  <2>11. Threads' /\ Turning'
    BY <2>2 DEF Sound, Threads, Turning, worker
  <2> QED
    BY <2>7, <2>9, <2>10, <2>11 DEF Sound
<1> QED
  BY <1>1, <1>2

(* Where a wheel puts a unit. *)
LEMMA SlotAtIs ==
  ASSUME TypeOK, NEW w \in Wheels, NEW left \in Int
  PROVE  /\ SlotAt(w, left) \in Slots /\ SlotAt(w, left)[1] = w /\ SlotAt(w, left) # Nowhere
         /\ SlotAt(w, left)[2] # current_index_[w]
         /\ RunUp(w, left) \in Nat /\ Along(SlotAt(w, left)) = RunUp(w, left)
         /\ SlotOffset(w, left) \in 1 .. N - 1
<1> DEFINE o == SlotOffset(w, left)
           c == current_index_[w]
           s == SlotAt(w, left)
<1>1. o \in 1 .. N - 1 /\ c \in 0 .. N - 1
  BY OffsetIs DEF TypeOK
<1>2. s = <<w, (c + o) % N>> /\ RunUp(w, left) = (o - 1) * interval_(w)
  BY DEF SlotAt, RunUp
<1> HIDE DEF o, c, s
<1>3. /\ (c + o) % N \in 0 .. N - 1 /\ (c + o) % N # c
      /\ (c + o) % N = IF c + o < N THEN c + o ELSE c + o - N
  BY <1>1, ModIs
<1>4. s \in Slots /\ s[1] = w /\ s[2] = (c + o) % N
  BY <1>2, <1>3 DEF Slots
<1>5. s # Nowhere
  BY <1>4, SlotIs
<1>6. Ahead(s) = o
  <2>1. current_index_[s[1]] = c /\ N \in Nat /\ N > 1
    BY <1>4, Intervals DEF c
  <2> QED
    BY <1>1, <1>3, <1>4, <2>1 DEF Ahead
<1>7. RunUp(w, left) \in Nat
  <2>1. interval_(w) \in Nat /\ o - 1 \in Nat
    BY <1>1, Intervals
  <2>2. (o - 1) * interval_(w) \in Nat
    BY <2>1
  <2> QED
    BY <1>2, <2>2
<1>8. Along(s) = RunUp(w, left)
  BY <1>2, <1>4, <1>6 DEF Along
<1> QED
  BY <1>1, <1>3, <1>4, <1>5, <1>7, <1>8 DEF o, c, s

(* A new unit is in no slot yet. *)
LEMMA NewSound ==
  ASSUME TypeOK, Sound, New
  PROVE  TypeOK' /\ (Defined' => Sound')
<1> DEFINE new == [member_ |-> obj, time_ |-> time, past_time_ |-> 0]
<1>1. PICK id \in Ids \ Live :
          /\ unit' = [u \in Live \cup {id} |-> IF u = id THEN new ELSE unit[u]]
          /\ timer_unit_p' = [timer_unit_p EXCEPT ![obj] = id]
          /\ held' = id
          /\ age' = [age EXCEPT ![id] = 0]
  BY DEF New
<1>2. /\ at = "new" /\ at' = "add" /\ wheel' = 1 /\ time # DelTimer
      /\ UNCHANGED <<slot_list_, location_, worker, obj, time, slot, hurried, races>>
  BY DEF New, Sound, Threads
<1>3. Live' = Live \cup {id} /\ \A u \in Live : unit'[u] = unit[u]
  BY <1>1 DEF Live
<1>4. unit'[id] = new /\ new \in [member_ : Members, time_ : Times, past_time_ : Nat]
  BY <1>1, <1>2 DEF TypeOK
<1>5. id # Null /\ id # hand
  BY <1>1, WheelAssumption DEF Sound, UnitsPlaced, Null
<1> HIDE DEF new
<1>6. TypeOK'
  <2>1. unit' \in [Live' -> [member_ : Members, time_ : Times, past_time_ : Nat]]
    BY <1>1, <1>3, <1>4 DEF TypeOK
  <2>2. Live' \subseteq Ids
    BY <1>3 DEF TypeOK
  <2>3. timer_unit_p' \in [Members -> Ids \cup {Null}] /\ age' \in [Ids -> Nat]
    BY <1>1 DEF TypeOK
  <2> QED
    BY <1>1, <1>2, <2>1, <2>2, <2>3 DEF TypeOK, Wheels, worker
<1>7. UnitsPlaced'
  <2>1. \A u \in Ids : InHand(u)' <=> InHand(u) \/ u = id
    BY <1>1, <1>2, <1>5 DEF InHand, worker
  <2>2. location_' = location_ /\ location_[id] = Nowhere
    BY <1>2 DEF Sound, UnitsPlaced
  <2>3. \A u \in Ids : location_'[u] # Nowhere <=> u \in Live' /\ ~ InHand(u)'
    BY <1>3, <2>1, <2>2 DEF Sound, UnitsPlaced
  <2> QED
    BY <1>2, <1>3, <2>3 DEF Sound, UnitsPlaced, worker
<1>8. PointersSound'
  <2> SUFFICES ASSUME NEW m \in Members, timer_unit_p'[m] # Null
               PROVE  timer_unit_p'[m] \in Live' /\ unit'[timer_unit_p'[m]].member_ = m
    BY DEF PointersSound
  <2>1. CASE m = obj
    <3>1. timer_unit_p'[m] = id
      BY <1>1, <2>1 DEF TypeOK
    <3>2. new.member_ = obj
      BY DEF new
    <3> QED
      BY <1>3, <1>4, <2>1, <3>1, <3>2
  <2>2. CASE m # obj
    <3>1. timer_unit_p'[m] = timer_unit_p[m]
      BY <1>1, <2>2 DEF TypeOK
    <3>2. timer_unit_p[m] \in Live /\ unit[timer_unit_p[m]].member_ = m
      BY <3>1 DEF Sound, PointersSound
    <3> QED
      BY <1>3, <3>1, <3>2
  <2> QED
    BY <2>1, <2>2
<1>9. Threads' /\ Turning'
  <2>1. new.member_ = obj
    BY DEF new
  <2> QED
    BY <1>1, <1>2, <1>3, <1>4, <1>5, <2>1 DEF Sound, Threads, Turning, worker
<1> QED
  BY <1>6, <1>7, <1>8, <1>9 DEF Sound

(* What reading the index of a wheel comes to. *)
LEMMA AddTimerIs ==
  ASSUME TypeOK, Sound, AddTimer
  PROVE  LET left == LeftOf(held)
         IN  /\ at = "add" /\ held \in Live /\ held \in Ids /\ left \in Int /\ location_[held] = Nowhere
             /\ held # hand /\ wheel \in Wheels
             /\ UNCHANGED <<slot_list_, location_, timer_unit_p, worker, obj, time, held, age, races>>
             /\ Live' = Live /\ \A u \in Live \ {held} : unit'[u] = unit[u]
             /\ unit'[held].member_ = unit[held].member_ /\ unit'[held].time_ = unit[held].time_
             /\ \/ /\ Holds(wheel, left) /\ at' = "insert" /\ slot' = SlotAt(wheel, left)
                   /\ UNCHANGED <<wheel, hurried>>
                   /\ unit'[held].past_time_ = unit[held].past_time_ +
                          (IF wheel = 1 THEN 0 ELSE RunUp(wheel, left))
                \/ /\ ~ Holds(wheel, left) /\ wheel \in {1, 2} /\ at' = "add" /\ wheel' = wheel + 1
                   /\ unit'[held].past_time_ = unit[held].past_time_ + TurnEnd(wheel)
                   /\ hurried' = hurried \cup
                          (IF turning = wheel /\ current_index_[wheel] = 0 THEN {held} ELSE {})
                   /\ UNCHANGED slot
<1> DEFINE left == LeftOf(held)
<1>1. at = "add" /\ held \in Live /\ held \in Ids /\ held # hand /\ wheel \in Wheels
  BY UnitIs DEF AddTimer, Sound, Threads, TypeOK
<1>2. unit[held] \in [member_ : Members, time_ : Times, past_time_ : Nat]
  BY <1>1 DEF TypeOK
<1>3. left \in Int
  <2>1. unit[held].time_ \in Nat /\ unit[held].past_time_ \in Nat
    BY <1>1, UnitIs
  <2> QED
    BY <2>1 DEF LeftOf
<1>4. location_[held] = Nowhere
  BY <1>1 DEF Sound, UnitsPlaced, InHand
<1>5. UNCHANGED <<slot_list_, location_, timer_unit_p, worker, obj, time, held, age, races>>
  BY DEF AddTimer
<1>6. ASSUME NEW p, unit' = [unit EXCEPT ![held].past_time_ = p]
      PROVE  /\ Live' = Live /\ \A u \in Live \ {held} : unit'[u] = unit[u]
             /\ unit'[held].member_ = unit[held].member_ /\ unit'[held].time_ = unit[held].time_
             /\ unit'[held].past_time_ = p
  BY <1>1, <1>2, <1>6 DEF Live
<1>7. CASE Holds(wheel, left)
  <2>1. /\ at' = "insert" /\ slot' = SlotAt(wheel, left) /\ UNCHANGED <<wheel, hurried>>
        /\ unit' = [unit EXCEPT ![held].past_time_ = unit[held].past_time_ +
                          (IF wheel = 1 THEN 0 ELSE RunUp(wheel, left))]
    BY <1>1, <1>7 DEF AddTimer, Live
  <2> QED
    BY <1>1, <1>3, <1>4, <1>5, <1>6, <1>7, <2>1
<1>8. CASE ~ Holds(wheel, left)
  <2>1. /\ at' = "add" /\ wheel' = wheel + 1 /\ UNCHANGED slot
        /\ hurried' = hurried \cup
               (IF turning = wheel /\ current_index_[wheel] = 0 THEN {held} ELSE {})
        /\ unit' = [unit EXCEPT ![held].past_time_ = unit[held].past_time_ + TurnEnd(wheel)]
    BY <1>1, <1>8 DEF AddTimer, Live
  <2>2. wheel \in {1, 2}
    BY <1>1, <1>8 DEF Holds, Wheels
  <2> QED
    BY <1>1, <1>3, <1>4, <1>5, <1>6, <1>8, <2>1, <2>2
<1> QED
  BY <1>7, <1>8

LEMMA AddTimerSound ==
  ASSUME TypeOK, Sound, AddTimer
  PROVE  TypeOK' /\ (Defined' => Sound')
<1> DEFINE left == LeftOf(held)
<1>1. /\ at = "add" /\ held \in Live /\ held \in Ids /\ left \in Int /\ location_[held] = Nowhere
      /\ held # hand /\ wheel \in Wheels
      /\ UNCHANGED <<slot_list_, location_, timer_unit_p, worker, obj, time, held, age, races>>
      /\ Live' = Live /\ \A u \in Live \ {held} : unit'[u] = unit[u]
      /\ unit'[held].member_ = unit[held].member_ /\ unit'[held].time_ = unit[held].time_
  BY AddTimerIs
<1>2. \/ /\ at' = "insert" /\ slot' = SlotAt(wheel, left) /\ UNCHANGED <<wheel, hurried>>
         /\ unit'[held].past_time_ = unit[held].past_time_ +
                (IF wheel = 1 THEN 0 ELSE RunUp(wheel, left))
      \/ /\ wheel \in {1, 2} /\ at' = "add" /\ wheel' = wheel + 1 /\ UNCHANGED slot
         /\ unit'[held].past_time_ = unit[held].past_time_ + TurnEnd(wheel)
         /\ hurried' \subseteq hurried \cup {held}
  BY AddTimerIs
<1> HIDE DEF left
<1>3. /\ SlotAt(wheel, left) \in Slots /\ SlotAt(wheel, left) # Nowhere
      /\ RunUp(wheel, left) \in Nat
  BY <1>1, SlotAtIs
<1>4. TurnEnd(wheel) \in Nat
  <2>1. interval_(wheel) \in Nat /\ N - current_index_[wheel] \in Nat
    BY <1>1, Intervals DEF TypeOK
  <2>2. (N - current_index_[wheel]) * interval_(wheel) \in Nat
    BY <2>1
  <2> QED
    BY <2>2 DEF TurnEnd
<1>5. unit' \in [Live' -> [member_ : Members, time_ : Times, past_time_ : Nat]]
  <2>1. unit[held] \in [member_ : Members, time_ : Times, past_time_ : Nat]
    BY <1>1 DEF TypeOK
  <2>2. \E p \in Nat : unit' = [unit EXCEPT ![held].past_time_ = p]
    <3>1. \/ unit' = [unit EXCEPT ![held].past_time_ = unit[held].past_time_ +
                          (IF wheel = 1 THEN 0 ELSE RunUp(wheel, left))]
          \/ unit' = [unit EXCEPT ![held].past_time_ = unit[held].past_time_ + TurnEnd(wheel)]
      BY <1>1 DEF AddTimer, Live, left
    <3>2. unit[held].past_time_ \in Nat
      BY <1>1, UnitIs
    <3>3. /\ unit[held].past_time_ + (IF wheel = 1 THEN 0 ELSE RunUp(wheel, left)) \in Nat
          /\ unit[held].past_time_ + TurnEnd(wheel) \in Nat
      BY <1>3, <1>4, <3>2
    <3> QED
      BY <3>1, <3>3
  <2>3. PICK p \in Nat : unit' = [unit EXCEPT ![held].past_time_ = p]
    BY <2>2
  <2>4. unit \in [Live -> [member_ : Members, time_ : Times, past_time_ : Nat]] /\ Live' = Live
    BY <1>1 DEF TypeOK
  <2> QED
    BY <2>1, <2>3, <2>4
<1>6. TypeOK'
  <2>1. wheel' \in Wheels /\ slot' \in Slots \cup {Nowhere}
        /\ at' \in {"insert", "add"} /\ hurried' \subseteq Ids
    BY <1>1, <1>2, <1>3 DEF TypeOK, Wheels
  <2> QED
    BY <1>1, <1>5, <2>1 DEF TypeOK, worker
<1>7. UnitsPlaced'
  <2>1. \A u \in Ids : InHand(u)' <=> InHand(u)
    BY <1>1, <1>2 DEF InHand, worker
  <2> QED
    BY <1>1, <2>1 DEF Sound, UnitsPlaced, worker
<1>8. PointersSound'
  <2>1. \A u \in Live : unit'[u].member_ = unit[u].member_
    BY <1>1
  <2> QED
    BY <1>1, <2>1 DEF Sound, PointersSound
<1>9. Threads'
  <2>1. at' \in {"insert", "add"} /\ (at' = "insert" => slot' # Nowhere)
    BY <1>2, <1>3
  <2>2. doing = "move" => turning # 1
    BY DEF Sound, Threads
  <2>3. (hand = Null <=> doing = "none") /\ unit'[held].member_ = obj
    BY <1>1 DEF Sound, Threads
  <2> QED
    BY <1>1, <2>1, <2>2, <2>3 DEF Threads, worker
<1>10. Turning'
  BY <1>1 DEF Sound, Turning, worker
<1> QED
  BY <1>6, <1>7, <1>8, <1>9, <1>10 DEF Sound

LEMMA InsertSound ==
  ASSUME TypeOK, Sound, Insert
  PROVE  TypeOK' /\ (Defined' => Sound')
<1>1. /\ at = "insert" /\ at' = "locate" /\ held \in Live /\ held \in Ids /\ held # hand
      /\ slot \in Slots /\ location_[held] = Nowhere
      /\ slot_list_' = [slot_list_ EXCEPT ![slot] = <<held>> \o @]
      /\ location_' = [location_ EXCEPT ![held] = slot]
      /\ UNCHANGED <<unit, timer_unit_p, worker, obj, time, held, wheel, slot, history>>
  BY UnitIs DEF Insert, Sound, Threads, UnitsPlaced, InHand, TypeOK
<1>2. /\ slot_list_' \in [Slots -> Seq(Ids)] /\ location_' \in [Ids -> Slots \cup {Nowhere}]
      /\ Listed'
  BY <1>1, PushListed DEF Sound
<1>3. TypeOK'
  BY <1>1, <1>2 DEF TypeOK, Live, worker, history
<1>4. \A id \in Ids : location_'[id] # Nowhere <=> id \in Live' /\ ~ InHand(id)'
  <2>1. \A id \in Ids : location_'[id] = IF id = held THEN slot ELSE location_[id]
    BY <1>1 DEF TypeOK
  <2>2. slot # Nowhere /\ Live' = Live
    BY <1>1, SlotIs DEF Live
  <2>3. ASSUME NEW id \in Ids, id # held
        PROVE  InHand(id)' <=> InHand(id)
    BY <1>1, <2>3 DEF InHand, worker
  <2>4. ~ InHand(held)'
    BY <1>1 DEF InHand, worker
  <2> QED
    BY <1>1, <2>1, <2>2, <2>3, <2>4 DEF Sound, UnitsPlaced
<1>5. UnitsPlaced'
  BY <1>1, <1>2, <1>4 DEF Sound, UnitsPlaced, Listed, Live, worker
<1>6. PointersSound' /\ Threads' /\ Turning'
  BY <1>1 DEF Sound, PointersSound, Threads, Turning, Live, worker
<1> QED
  BY <1>3, <1>5, <1>6 DEF Sound

-----------------------------------------------------------------------------
(* A tick changes no list. *)
LEMMA TickSound ==
  ASSUME TypeOK, Sound, Tick
  PROVE  TypeOK' /\ (Defined' => Sound')
<1>1. /\ turning = Null /\ turning' = 1 /\ Race("outrun", Outruns(1, current_index_'[1]))
      /\ UNCHANGED <<unitVars, timer_unit_p, hand, doing, setter, hurried>>
  BY DEF Tick
<1>2. current_index_' \in [Wheels -> 0 .. N - 1]
  <2>1. current_index_[1] \in 0 .. N - 1
    BY DEF TypeOK, Wheels
  <2>2. (current_index_[1] + 1) % N \in 0 .. N - 1
    BY <2>1, NextIndex
  <2> QED
    BY <2>2 DEF Tick, TypeOK
<1>3. age' \in [Ids -> Nat]
  BY DEF Tick, TypeOK
<1>4. races' \subseteq Races
  BY <1>1, RaceIs DEF Races, Outruns
<1>5. TypeOK'
  <2>1. UNCHANGED <<slot_list_, unit, location_, timer_unit_p, hand, doing>>
        /\ UNCHANGED <<at, obj, time, held, wheel, slot, hurried>> /\ turning' \in Wheels
    BY <1>1 DEF unitVars, setter, Wheels
  <2> QED
    BY <1>2, <1>3, <1>4, <2>1 DEF TypeOK, Live
<1>6. UnitsPlaced' /\ PointersSound'
  BY <1>1 DEF Sound, UnitsPlaced, PointersSound, InHand, Live, unitVars, setter
<1>7. Threads' /\ Turning'
  <2>1. hand = Null /\ doing = "none"
    BY <1>1 DEF Sound, Threads, Turning
  <2> QED
    BY <1>1, <2>1 DEF Sound, Threads, Turning, Live, unitVars, setter
<1> QED
  BY <1>5, <1>6, <1>7 DEF Sound

(* Nor does a wheel that follows; those before it have come round. *)
LEMMA NextWheelSound ==
  ASSUME TypeOK, Sound, NextWheel
  PROVE  TypeOK' /\ (Defined' => Sound')
<1>1. /\ turning \in Wheels /\ hand = Null
      /\ UNCHANGED <<unitVars, timer_unit_p, hand, doing, setter, age, hurried>>
  BY DEF NextWheel, TypeOK
<1>2. UnitsPlaced' /\ PointersSound' /\ (turning' # 1 => Threads')
  BY <1>1 DEF Sound, UnitsPlaced, PointersSound, Threads, InHand, Live, unitVars, setter
<1>3. CASE Carry /\ turning < 3
  <2>1. /\ turning \in {1, 2} /\ turning' = turning + 1
        /\ current_index_' = [current_index_ EXCEPT ![turning + 1] = (@ + 1) % N]
        /\ current_index_[turning] = 0
        /\ Race("outrun", Outruns(turning', current_index_'[turning']))
    BY <1>1, <1>3 DEF NextWheel, Carry, Wheels
  <2>2. turning + 1 \in Wheels
    BY <2>1 DEF Wheels
  <2>3. (current_index_[turning + 1] + 1) % N \in 0 .. N - 1
    BY <2>2, NextIndex DEF TypeOK
  <2>4. current_index_' \in [Wheels -> 0 .. N - 1]
    BY <2>1, <2>3 DEF TypeOK
  <2>5. races' \subseteq Races
    BY <2>1, RaceIs DEF Races, Outruns
  <2>6. TypeOK'
    BY <1>1, <2>1, <2>2, <2>4, <2>5 DEF TypeOK, Live, unitVars, setter
  <2>7. Turning'
    <3>1. /\ turning = 1 => current_index_'[1] = 0
          /\ turning = 2 => current_index_'[1] = 0 /\ current_index_'[2] = 0
      BY <2>1 DEF TypeOK, Sound, Turning, Wheels
    <3> QED
      BY <1>1, <2>1, <3>1 DEF Turning
  <2>8. turning' # 1
    BY <2>1
  <2> QED
    BY <1>2, <2>6, <2>7, <2>8 DEF Sound
<1>4. CASE ~ (Carry /\ turning < 3)
  <2>1. turning' = Null /\ UNCHANGED <<current_index_, races>>
    BY <1>4 DEF NextWheel
  <2>2. TypeOK'
    BY <1>1, <2>1 DEF TypeOK, Live, unitVars, setter
  <2>3. Turning' /\ turning' # 1
    BY <1>1, <2>1 DEF Turning, Null
  <2> QED
    BY <1>2, <2>2, <2>3 DEF Sound
<1> QED
  BY <1>3, <1>4

(* The unit that is popped is in no slot, but in hand. *)
LEMMA PopSound ==
  ASSUME TypeOK, Sound, Pop
  PROVE  TypeOK' /\ (Defined' => Sound')
<1>1. /\ turning # Null /\ hand = Null /\ slot_list_[Current] # <<>> /\ hand' = First
      /\ doing' \in {"act", "move"} /\ (doing' = "move" => turning # 1)
      /\ slot_list_' = [slot_list_ EXCEPT ![Current] = Tail(slot_list_[Current])]
      /\ location_' = [location_ EXCEPT ![First] = Nowhere]
      /\ Race("shared", held = First /\ at \in {"unlink", "locate"})
      /\ UNCHANGED <<unit, timer_unit_p, current_index_, turning, setter, age, hurried>>
  BY DEF Pop, IsDue
<1>2. /\ Current \in Slots /\ Current # Nowhere /\ turning \in Wheels
      /\ First \in Live /\ First \in Ids /\ location_[First] = Current /\ First # Null
      /\ ~ InHand(First)
      /\ Tail(slot_list_[Current]) \in Seq(Ids) /\ IsInjective(Tail(slot_list_[Current]))
      /\ ToSet(Tail(slot_list_[Current])) = {id \in Ids : location_[id] = Current} \ {First}
  BY <1>1, FirstIs DEF Sound
<1>3. /\ slot_list_' \in [Slots -> Seq(Ids)] /\ location_' \in [Ids -> Slots \cup {Nowhere}]
      /\ Listed'
  BY <1>1, <1>2, TakeListed DEF Sound
<1>4. races' \subseteq Races /\ (Defined' => ~ (held = First /\ at \in {"unlink", "locate"}))
  BY <1>1, RaceIs DEF Races
<1>5. TypeOK'
  BY <1>1, <1>2, <1>3, <1>4 DEF TypeOK, Live, setter
<1>6. \A id \in Ids : location_'[id] # Nowhere <=> id \in Live' /\ ~ InHand(id)'
  <2>1. \A id \in Ids : location_'[id] = IF id = First THEN Nowhere ELSE location_[id]
    BY <1>1 DEF TypeOK
  <2>2. ASSUME NEW id \in Ids PROVE InHand(id)' <=> InHand(id) \/ id = First
    <3>1. id # Null
      BY WheelAssumption DEF Null
    <3> QED
      BY <1>1, <3>1 DEF InHand, setter
  <2> QED
    BY <1>1, <1>2, <2>1, <2>2 DEF Sound, UnitsPlaced, Live
<1>7. UnitsPlaced'
  BY <1>1, <1>2, <1>3, <1>6 DEF UnitsPlaced, Listed, Live
<1>8. PointersSound' /\ Turning'
  BY <1>1 DEF Sound, PointersSound, Turning, Live
<1>9. ASSUME Defined' PROVE Threads'
  <2>1. at \in {"unlink", "add", "insert", "locate"} => held # First
    BY <1>2, <1>4, <1>9 DEF InHand
  <2>2. at = "unlink" => location_'[held] # Nowhere
    <3>1. ASSUME at = "unlink" PROVE held \in Ids /\ location_[held] # Nowhere
      BY <3>1, UnitIs DEF Sound, Threads
    <3> QED
      BY <1>1, <2>1, <3>1 DEF TypeOK
  <2> QED
    BY <1>1, <1>2, <2>1, <2>2 DEF Sound, Threads, Live, setter
<1> QED
  BY <1>5, <1>7, <1>8, <1>9 DEF Sound

(* A unit that has acted clears its member's pointer. *)
LEMMA ClearedIs ==
  ASSUME TypeOK, Sound, hand # Null
  PROVE  /\ hand \in Live /\ hand \in Ids /\ unit[hand].member_ \in Members
         /\ Cleared \in [Members -> Ids \cup {Null}]
         /\ \A m \in Members : Cleared[m] = IF m = unit[hand].member_ THEN Null ELSE timer_unit_p[m]
<1>1. hand \in Live
  BY DEF Sound, UnitsPlaced
<1> QED
  BY <1>1, UnitIs DEF Cleared, TypeOK

LEMMA ActSound ==
  ASSUME TypeOK, Sound, Act
  PROVE  TypeOK' /\ (Defined' => Sound')
<1>1. /\ doing = "act" /\ doing' = "delete" /\ hand # Null /\ timer_unit_p' = Cleared /\ ClearRace
      /\ UNCHANGED <<unitVars, current_index_, turning, hand, setter, age, hurried>>
  BY DEF Act, Sound, Threads
<1>2. races' \subseteq Races
  BY <1>1, RaceIs DEF Races, ClearRace
<1>3. TypeOK'
  BY <1>1, <1>2, ClearedIs DEF TypeOK, Live, unitVars, setter
<1>4. UnitsPlaced'
  <2>1. \A id \in Ids : InHand(id)' <=> InHand(id)
    BY <1>1 DEF InHand, setter
  <2> QED
    BY <1>1, <2>1 DEF Sound, UnitsPlaced, Live, unitVars
<1>5. PointersSound'
  BY <1>1, ClearedIs DEF Sound, PointersSound, Live, unitVars
<1>6. Threads' /\ Turning'
  BY <1>1 DEF Sound, Threads, Turning, Live, unitVars, setter
<1> QED
  BY <1>3, <1>4, <1>5, <1>6 DEF Sound

LEMMA DeleteSound ==
  ASSUME TypeOK, Sound, Delete
  PROVE  TypeOK' /\ (Defined' => Sound')
<1>1. /\ doing = "delete" /\ doing' = "none" /\ hand # Null /\ hand' = Null
      /\ timer_unit_p' = Cleared /\ ClearRace
      /\ unit' = [u \in Live \ {hand} |-> unit[u]] /\ hurried' = hurried \ {hand}
      /\ UNCHANGED <<slot_list_, location_, current_index_, turning, setter, age>>
  BY DEF Delete, Sound, Threads
<1>2. hand \in Live /\ hand \in Ids /\ location_[hand] = Nowhere
  BY <1>1, ClearedIs DEF Sound, UnitsPlaced, InHand
<1>3. Live' = Live \ {hand} /\ \A u \in Live' : unit'[u] = unit[u]
  BY <1>1 DEF Live
<1>4. TypeOK'
  <2>1. races' \subseteq Races
    BY <1>1, RaceIs DEF Races, ClearRace
  <2>2. unit' \in [Live' -> [member_ : Members, time_ : Times, past_time_ : Nat]]
    BY <1>1, <1>3 DEF TypeOK
  <2>3. Live' \subseteq Ids
    BY <1>3 DEF TypeOK
  <2> QED
    BY <1>1, <2>1, <2>2, <2>3, ClearedIs DEF TypeOK, setter
<1>5. UnitsPlaced'
  <2>1. held # hand \/ at \notin {"add", "insert"}
    BY DEF Sound, Threads
  <2>2. \A id \in Ids : id # hand => (InHand(id)' <=> InHand(id))
    BY <1>1 DEF InHand, setter
  <2> QED
    BY <1>1, <1>2, <1>3, <2>1, <2>2 DEF Sound, UnitsPlaced
<1>6. PointersSound'
  <2> SUFFICES ASSUME NEW m \in Members, timer_unit_p'[m] # Null
               PROVE  timer_unit_p'[m] \in Live' /\ unit'[timer_unit_p'[m]].member_ = m
    BY DEF PointersSound
  <2>1. m # unit[hand].member_ /\ timer_unit_p'[m] = timer_unit_p[m]
    BY <1>1, ClearedIs
  <2>2. timer_unit_p[m] \in Live /\ unit[timer_unit_p[m]].member_ = m
    BY <2>1 DEF Sound, PointersSound
  <2> QED
    BY <1>3, <2>1, <2>2
<1>7. Threads'
  <2>1. at = "unlink" => held # hand
    BY <1>2 DEF Sound, Threads
  <2>2. held \in Live /\ held # hand => held \in Live' /\ unit'[held] = unit[held]
    BY <1>3
  <2>3. held \in Live' => held \in Live
    BY <1>3
  <2>4. at = "unlink" => location_'[held] # Nowhere
    BY <1>1 DEF Sound, Threads
  <2>5. at \in {"add", "insert", "locate"} => held # hand' /\ held # hand
    <3>1. at \in {"add", "insert", "locate"} => held \in Live /\ held # hand
      BY DEF Sound, Threads
    <3> QED
      BY <1>1, <3>1, UnitIs
  <2> QED
    BY <1>1, <1>3, <2>1, <2>2, <2>3, <2>4, <2>5 DEF Sound, Threads, setter
<1>8. Turning'
  BY <1>1 DEF Sound, Turning
<1> QED
  BY <1>4, <1>5, <1>6, <1>7, <1>8 DEF Sound

(* A unit that moves down is put in a slot of a wheel before, or of this one. *)
LEMMA MoveInsertIs ==
  ASSUME TypeOK, Sound, MoveInsert
  PROVE  LET place == Placement(turning - 1, unit[hand].time_, unit[hand].past_time_)
         IN  /\ doing = "move" /\ hand \in Live /\ hand \in Ids /\ location_[hand] = Nowhere
             /\ turning \in {2, 3} /\ place.slot \in Slots /\ place.slot # Nowhere /\ place.past \in Nat
             /\ slot_list_' = [slot_list_ EXCEPT ![place.slot] = <<hand>> \o @]
             /\ location_' = [location_ EXCEPT ![hand] = place.slot]
             /\ unit' = [unit EXCEPT ![hand].past_time_ = place.past]
             /\ doing' = "locate"
             /\ UNCHANGED <<timer_unit_p, current_index_, turning, hand, setter, history>>
<1> DEFINE w == turning - 1
           place == Placement(w, unit[hand].time_, unit[hand].past_time_)
<1>1. doing = "move" /\ hand # Null /\ turning # 1 /\ turning # Null
  BY DEF MoveInsert, Sound, Threads, Turning
<1>2. turning \in {2, 3} /\ w \in {1, 2} /\ hand \in Live /\ hand \in Ids /\ location_[hand] = Nowhere
  BY <1>1, UnitIs DEF TypeOK, Wheels, Sound, UnitsPlaced, InHand
<1>3. unit[hand].time_ \in Nat /\ unit[hand].past_time_ \in Nat
  BY <1>2, UnitIs
<1>4. place.slot \in Slots /\ place.past \in Nat
  <2> HIDE DEF w
  <2> QED
    BY <1>2, <1>3, PlacementIs
<1>5. place.slot # Nowhere
  <2> HIDE DEF place
  <2> QED
    BY <1>4, SlotIs
<1> QED
  BY <1>1, <1>2, <1>4, <1>5 DEF MoveInsert

LEMMA MoveInsertSound ==
  ASSUME TypeOK, Sound, MoveInsert
  PROVE  TypeOK' /\ (Defined' => Sound')
<1> DEFINE place == Placement(turning - 1, unit[hand].time_, unit[hand].past_time_)
<1>1. /\ doing = "move" /\ hand \in Live /\ hand \in Ids /\ location_[hand] = Nowhere
      /\ turning \in {2, 3} /\ place.slot \in Slots /\ place.slot # Nowhere /\ place.past \in Nat
      /\ slot_list_' = [slot_list_ EXCEPT ![place.slot] = <<hand>> \o @]
      /\ location_' = [location_ EXCEPT ![hand] = place.slot]
      /\ unit' = [unit EXCEPT ![hand].past_time_ = place.past]
      /\ doing' = "locate"
      /\ UNCHANGED <<timer_unit_p, current_index_, turning, hand, setter, history>>
  BY MoveInsertIs
<1> HIDE DEF place
<1>2. /\ slot_list_' \in [Slots -> Seq(Ids)] /\ location_' \in [Ids -> Slots \cup {Nowhere}]
      /\ Listed'
  BY <1>1, PushListed DEF Sound
<1>3. unit' \in [Live' -> [member_ : Members, time_ : Times, past_time_ : Nat]] /\ Live' = Live
  <2>1. unit[hand] \in [member_ : Members, time_ : Times, past_time_ : Nat]
    BY <1>1 DEF TypeOK
  <2> QED
    BY <1>1, <2>1 DEF TypeOK, Live
<1>4. \A u \in Live : unit'[u].member_ = unit[u].member_
  BY <1>1 DEF TypeOK
<1>5. TypeOK'
  BY <1>1, <1>2, <1>3 DEF TypeOK, setter, history
<1>6. \A id \in Ids : location_'[id] # Nowhere <=> id \in Live' /\ ~ InHand(id)'
  <2>1. \A id \in Ids : location_'[id] = IF id = hand THEN place.slot ELSE location_[id]
    BY <1>1 DEF TypeOK
  <2>2. ASSUME NEW id \in Ids, id # hand PROVE InHand(id)' <=> InHand(id)
    BY <1>1, <2>2 DEF InHand, setter
  <2>3. ~ InHand(hand)'
    BY <1>1 DEF InHand, setter, Sound, Threads
  <2> QED
    BY <1>1, <1>3, <2>1, <2>2, <2>3 DEF Sound, UnitsPlaced
<1>7. UnitsPlaced'
  BY <1>1, <1>2, <1>3, <1>6 DEF Sound, UnitsPlaced, Listed
<1>8. PointersSound'
  BY <1>1, <1>3, <1>4 DEF Sound, PointersSound
<1>9. Threads'
  <2>1. at = "unlink" => held # hand
    BY <1>1 DEF Sound, Threads
  <2>2. at = "unlink" => location_'[held] # Nowhere
    <3>1. ASSUME at = "unlink" PROVE held \in Ids /\ location_[held] # Nowhere
      BY <3>1, UnitIs DEF Sound, Threads
    <3> QED
      BY <1>1, <2>1, <3>1 DEF TypeOK
  <2> QED
    BY <1>1, <1>3, <1>4, <2>2 DEF Sound, Threads, setter
<1>10. Turning'
  BY <1>1 DEF Sound, Turning
<1> QED
  BY <1>5, <1>7, <1>8, <1>9, <1>10 DEF Sound

LEMMA MoveOnSound ==
  ASSUME TypeOK, Sound, MoveLocate \/ MoveCount
  PROVE  TypeOK' /\ (Defined' => Sound')
<1>1. /\ doing \in {"locate", "count"}
      /\ \/ doing' = "count" /\ hand' = hand
         \/ doing' = "none" /\ hand' = Null
      /\ UNCHANGED <<unitVars, timer_unit_p, current_index_, turning, setter, history>>
  BY DEF MoveLocate, MoveCount
<1>2. TypeOK'
  BY <1>1 DEF TypeOK, Live, unitVars, setter, history
<1>3. UnitsPlaced'
  <2>1. \A id \in Ids : InHand(id)' <=> InHand(id)
    BY <1>1 DEF InHand, setter
  <2> QED
    BY <1>1, <2>1 DEF Sound, UnitsPlaced, Live, unitVars
<1>4. Threads'
  <2>1. hand # Null /\ (held \in Live => held # Null)
    BY <1>1, UnitIs DEF Sound, Threads
  <2> QED
    BY <1>1, <2>1 DEF Sound, Threads, Live, unitVars, setter
<1>5. PointersSound' /\ Turning'
  BY <1>1 DEF Sound, PointersSound, Turning, Live, unitVars
<1> QED
  BY <1>2, <1>3, <1>4, <1>5 DEF Sound

-----------------------------------------------------------------------------
(* Every step of either thread keeps the wheels sound. *)
LEMMA SoundStep ==
  ASSUME TypeOK, Sound, Worker \/ Setter
  PROVE  TypeOK' /\ (Defined' => Sound')
<1>1. CASE Worker
  BY <1>1, TickSound, PopSound, ActSound, DeleteSound, MoveInsertSound, MoveOnSound, NextWheelSound
     DEF Worker
<1>2. CASE Setter
  BY <1>2, SetTimerSound, FollowSound, UnlinkSound, NewSound, AddTimerSound, InsertSound, LocateSound
     DEF Setter
<1> QED
  BY <1>1, <1>2

(* While no race spoils it, a member's pointer leads to its unit. *)
LEMMA FoundUnchanged ==
  ASSUME Found, UNCHANGED <<unit, timer_unit_p>>,
         races \cap {"missed", "cleared"} \subseteq races',
         \A id \in Live : Acting(id) => Acting(id)',
         (at' = at /\ UNCHANGED <<held, obj>>) \/ at' \notin {"follow", "new"}
  PROVE  Found'
<1>1. Live' = Live
  BY DEF Live
<1> QED
  BY <1>1 DEF Found

LEMMA SetterFound ==
  ASSUME TypeOK, Sound, Found, Setter, Defined'
  PROVE  Found'
<1>0. \A id \in Live : id # Null /\ id \in Ids
  BY UnitIs
<1>1. ASSUME NEW m \in Members, NEW t \in Times \cup {DelTimer}, SetTimer(m, t) PROVE Found'
  <2>1. /\ obj' = m /\ at = "idle" /\ Live' = Live
        /\ UNCHANGED <<unit, timer_unit_p, hand, doing, races>>
        /\ \/ timer_unit_p[m] = Null /\ at' \in {"idle", "new"}
           \/ at' = "follow" /\ held' = timer_unit_p[m]
    BY <1>1 DEF SetTimer, AddNext, Rest, Live, unitVars, worker, history
  <2>2. \A id \in Live : Acting(id)' <=> Acting(id)
    BY <2>1 DEF Acting
  <2> QED
    BY <1>0, <2>1, <2>2 DEF Found
<1>2. ASSUME Follow PROVE Found'
  <2>1. at = "follow" /\ UNCHANGED <<unit, location_, timer_unit_p, hand, doing, obj>>
    BY <1>2 DEF Follow, setter, unitVars, worker
  <2>2. held \in Live
    <3> SUFFICES ASSUME held \notin Live PROVE FALSE
      OBVIOUS
    <3>1. Race("shared", TRUE)
      BY <1>2 DEF Follow
    <3> QED
      BY <3>1, RaceIs DEF Races
  <2>3. /\ races \subseteq races'
        /\ hand = held /\ doing \in {"move", "locate"} => "missed" \in races'
    BY <1>2, <2>2 DEF Follow, Race
  <2>4. Live' = Live /\ \A id \in Live : Acting(id)' <=> Acting(id)
    BY <2>1 DEF Acting, Live
  <2>5. CASE at' \notin {"follow", "new"}
    BY <2>1, <2>3, <2>4, <2>5, FoundUnchanged
  <2>6. CASE at' \in {"follow", "new"}
    <3>1. at' = "new" /\ GetLocation(held) = Nowhere
      BY <1>2, <2>1, <2>2, <2>6 DEF Follow, AddNext, Rest
    <3>2. ASSUME "missed" \notin races' PROVE Acting(held)
      <4>1. ~ (hand = held /\ doing \in {"move", "locate"})
        BY <2>3, <3>2
      <4>2. location_[held] = Nowhere
        BY <3>1, <4>1 DEF GetLocation
      <4>3. InHand(held)
        BY <1>0, <2>2, <4>2 DEF Sound, UnitsPlaced
      <4> QED
        BY <2>1, <4>1, <4>3 DEF InHand, Acting
    <3>3. ASSUME races' \cap {"missed", "cleared"} = {}
          PROVE  races \cap {"missed", "cleared"} = {} /\ "missed" \notin races'
      BY <2>3, <3>3
    <3> QED
      BY <1>0, <2>1, <2>4, <3>1, <3>2, <3>3 DEF Found
  <2> QED
    BY <2>5, <2>6
<1>3. ASSUME Unlink PROVE Found'
  <2>1. hand # held
    <3> SUFFICES ASSUME hand = held PROVE FALSE
      OBVIOUS
    <3>1. Race("shared", TRUE)
      BY <1>3 DEF Unlink
    <3> QED
      BY <3>1, RaceIs DEF Races
  <2>2. /\ at = "unlink" /\ at' \in {"idle", "new"} /\ UNCHANGED <<hand, doing, obj, races>>
        /\ unit' = [u \in Live \ {held} |-> unit[u]]
        /\ timer_unit_p' = [timer_unit_p EXCEPT ![obj] = Null]
    BY <1>3, <2>1 DEF Unlink, AddNext, Rest, worker
  <2>3. /\ Live' = Live \ {held} /\ \A u \in Live' : unit'[u] = unit[u]
        /\ \A id \in Live : Acting(id)' <=> Acting(id)
    BY <2>2 DEF Live, Acting
  <2>4. held \in Live /\ unit[held].member_ = obj /\ ~ Acting(held)
    BY <2>1, <2>2 DEF Sound, Threads, Acting
  <2>5. ASSUME races \cap {"missed", "cleared"} = {}, NEW id \in Live', ~ Acting(id)
        PROVE  unit[id].member_ # obj /\ timer_unit_p'[unit[id].member_] = id
    <3>1. /\ timer_unit_p[unit[id].member_] = id /\ id # held
          /\ timer_unit_p[unit[held].member_] = held
      BY <2>3, <2>4, <2>5 DEF Found
    <3>2. unit[id].member_ # obj /\ unit[id].member_ \in Members
      BY <2>3, <2>4, <3>1, UnitIs
    <3> QED
      BY <2>2, <3>1, <3>2 DEF TypeOK
  <2> QED
    BY <2>2, <2>3, <2>5 DEF Found
<1>4. ASSUME New PROVE Found'
  <2>1. PICK id \in Ids \ Live :
            /\ unit' = [u \in Live \cup {id} |->
                           IF u = id THEN [member_ |-> obj, time_ |-> time, past_time_ |-> 0]
                                     ELSE unit[u]]
            /\ timer_unit_p' = [timer_unit_p EXCEPT ![obj] = id]
    BY <1>4 DEF New
  <2>2. at = "new" /\ at' = "add" /\ UNCHANGED <<hand, doing, obj, races>>
    BY <1>4 DEF New, worker
  <2>3. Live' = Live \cup {id} /\ (\A u \in Live : unit'[u] = unit[u]) /\ unit'[id].member_ = obj
    BY <2>1 DEF Live
  <2>4. /\ \A u \in Ids : Acting(u)' <=> Acting(u)
        /\ timer_unit_p'[obj] = id
    BY <2>1, <2>2 DEF Acting, TypeOK
  <2>5. ASSUME races \cap {"missed", "cleared"} = {}, NEW u \in Live, ~ Acting(u)
        PROVE  timer_unit_p'[unit[u].member_] = u
    <3>1. timer_unit_p[unit[u].member_] = u /\ unit[u].member_ # obj
      BY <2>2, <2>5 DEF Found
    <3> QED
      BY <2>1, <3>1, UnitIs DEF TypeOK
  <2> QED
    BY <1>0, <2>1, <2>2, <2>3, <2>4, <2>5 DEF Found
<1>5. ASSUME AddTimer PROVE Found'
  <2>1. /\ Live' = Live /\ (\A u \in Live \ {held} : unit'[u] = unit[u])
        /\ unit'[held].member_ = unit[held].member_
        /\ UNCHANGED <<timer_unit_p, hand, doing, obj, races>> /\ at' \in {"add", "insert"}
    BY <1>5, AddTimerIs DEF worker
  <2>2. \A id \in Live : Acting(id)' <=> Acting(id)
    BY <2>1 DEF Acting
  <2> QED
    BY <2>1, <2>2 DEF Found
<1>6. ASSUME Insert \/ Locate PROVE Found'
  <2>1. /\ UNCHANGED <<unit, timer_unit_p, hand, doing, races>>
        /\ at' \in {"locate", "idle"}
    BY <1>6 DEF Insert, Locate, Rest, unitVars, worker, history
  <2>2. \A id \in Live : Acting(id) => Acting(id)'
    BY <2>1 DEF Acting
  <2> QED
    BY <2>1, <2>2, FoundUnchanged
<1> QED
  BY <1>1, <1>2, <1>3, <1>4, <1>5, <1>6 DEF Setter

LEMMA WorkerFound ==
  ASSUME TypeOK, Sound, Found, Worker
  PROVE  Found'
<1>0. /\ \A id \in Live : id # Null /\ id \in Ids
      /\ hand = Null <=> doing = "none"
  BY UnitIs DEF Sound, Threads
<1>1. ASSUME Tick \/ NextWheel PROVE Found'
  <2>1. UNCHANGED <<unit, timer_unit_p, hand, doing, at, held, obj>> /\ races \subseteq races'
    BY <1>1 DEF Tick, NextWheel, Race, unitVars, setter
  <2>2. \A id \in Live : Acting(id) => Acting(id)'
    BY <2>1 DEF Acting
  <2> QED
    BY <2>1, <2>2, FoundUnchanged
<1>2. ASSUME Pop PROVE Found'
  <2>1. /\ UNCHANGED <<unit, timer_unit_p, at, held, obj>> /\ races \subseteq races' /\ hand = Null
    BY <1>2 DEF Pop, Race, setter
  <2>2. \A id \in Live : Acting(id) => Acting(id)'
    BY <1>0, <2>1 DEF Acting
  <2> QED
    BY <2>1, <2>2, FoundUnchanged
<1>3. ASSUME Act \/ Delete PROVE Found'
  <2>1. /\ hand # Null /\ Acting(hand) /\ timer_unit_p' = Cleared /\ ClearRace
        /\ UNCHANGED <<at, held, obj>>
    BY <1>0, <1>3 DEF Act, Delete, Acting, setter
  <2>2. /\ hand \in Live /\ unit[hand].member_ \in Members
        /\ \A m \in Members : timer_unit_p'[m] = IF m = unit[hand].member_ THEN Null ELSE timer_unit_p[m]
    BY <2>1, ClearedIs
  <2>3. /\ races \subseteq races'
        /\ "cleared" \notin races' => timer_unit_p[unit[hand].member_] \in {hand, Null}
    BY <2>1 DEF ClearRace, Race
  <2>4. \/ Live' = Live /\ unit' = unit /\ hand' = hand /\ doing' = "delete"
        \/ Live' = Live \ {hand} /\ \A u \in Live' : unit'[u] = unit[u]
    BY <1>3 DEF Act, Delete, Live, unitVars
  <2>5. \A u \in Live' : u \in Live /\ unit'[u] = unit[u] /\ (Acting(u) => Acting(u)')
    BY <2>4 DEF Acting
  <2>6. ASSUME races' \cap {"missed", "cleared"} = {}
        PROVE  /\ \A u \in Live' : ~ Acting(u)' => timer_unit_p'[unit'[u].member_] = u
               /\ at' = "follow" => timer_unit_p'[obj'] \in {held', Null}
               /\ at' = "new" => \A u \in Live' : unit'[u].member_ = obj' => Acting(u)'
    <3>1. races \cap {"missed", "cleared"} = {} /\ "cleared" \notin races'
      BY <2>3, <2>6
    <3>2. ASSUME NEW u \in Live', ~ Acting(u)' PROVE timer_unit_p'[unit'[u].member_] = u
      <4>1. u \in Live /\ ~ Acting(u) /\ timer_unit_p[unit[u].member_] = u /\ u # hand /\ u # Null
        BY <1>0, <2>1, <2>5, <3>1, <3>2 DEF Found
      <4>2. unit[u].member_ # unit[hand].member_ /\ unit[u].member_ \in Members
        BY <2>3, <3>1, <4>1, UnitIs
      <4> QED
        BY <2>2, <2>5, <4>1, <4>2
    <3>3. at' = "follow" => timer_unit_p'[obj'] \in {held', Null}
      BY <2>1, <2>2, <3>1 DEF Found, TypeOK
    <3>4. ASSUME at' = "new", NEW u \in Live', unit'[u].member_ = obj' PROVE Acting(u)'
      BY <2>1, <2>5, <3>1, <3>4 DEF Found
    <3> QED
      BY <3>2, <3>3, <3>4
  <2> QED
    BY <2>6 DEF Found
<1>4. ASSUME MoveInsert PROVE Found'
  <2>1. /\ doing = "move" /\ doing' = "locate" /\ hand \in Live
        /\ UNCHANGED <<timer_unit_p, hand, at, held, obj, races>>
        /\ \E p : unit' = [unit EXCEPT ![hand].past_time_ = p]
    BY <1>4, MoveInsertIs DEF setter, history
  <2>2. /\ unit[hand] \in [member_ : Members, time_ : Times, past_time_ : Nat]
        /\ unit \in [Live -> [member_ : Members, time_ : Times, past_time_ : Nat]]
    BY <2>1 DEF TypeOK
  <2>3. Live' = Live /\ \A u \in Live : unit'[u].member_ = unit[u].member_
    BY <2>1, <2>2 DEF Live
  <2>4. \A id \in Live : Acting(id)' <=> Acting(id)
    BY <2>1 DEF Acting
  <2> QED
    BY <2>1, <2>3, <2>4 DEF Found
<1>5. ASSUME MoveLocate \/ MoveCount PROVE Found'
  <2>1. /\ UNCHANGED <<unit, timer_unit_p, at, held, obj, races>> /\ doing \in {"locate", "count"}
    BY <1>5 DEF MoveLocate, MoveCount, unitVars, setter, history
  <2>2. \A id \in Live : Acting(id) => Acting(id)'
    BY <2>1 DEF Acting
  <2> QED
    BY <2>1, <2>2, FoundUnchanged
<1> QED
  BY <1>1, <1>2, <1>3, <1>4, <1>5 DEF Worker

-----------------------------------------------------------------------------
(* Where a unit is, or is about to be. *)
LEMMA WhereIs ==
  ASSUME TypeOK, NEW id \in Live
  PROVE  /\ Where(id) \in Slots \cup {Nowhere}
         /\ Where(id) # Nowhere => Where(id) \in Slots /\ ToGo[Where(id)] \in Nat
                                   /\ Spare(Where(id)[1]) \in Nat /\ Goal(id) \in Nat
<1>1. id \in Ids /\ unit[id].time_ \in Nat /\ unit[id].past_time_ \in Nat /\ N \in Nat
  BY UnitIs, Intervals
<1>2. Where(id) \in Slots \cup {Nowhere}
  BY <1>1 DEF Where, TypeOK
<1>3. \A s \in Slots : ToGo[s] \in Nat
  BY ToGoIs
<1> QED
  BY <1>1, <1>2, <1>3 DEF Spare, Goal

(* A unit that is in no slot, and that the worker does not have in hand. *)
LEMMA CourseIdle ==
  ASSUME NEW id, Where(id)' = Nowhere, hand' # id
  PROVE  OnCourse(id)'
BY DEF OnCourse, NotLate, NotEarly

(* A unit that stays where it is stays on course. *)
LEMMA CourseKept ==
  ASSUME TypeOK, NEW id \in Live, OnCourse(id),
         unit'[id] = unit[id], Where(id)' = Where(id), id \in hurried' <=> id \in hurried,
         hand' = id /\ doing' \in {"act", "delete", "move"} =>
             /\ hand = id /\ turning' = turning /\ age'[id] = age[id]
             /\ doing' = doing \/ (doing = "act" /\ doing' = "delete"),
         Where(id) # Nowhere =>
             /\ age'[id] \in Int /\ ToGo'[Where(id)] \in Int
             /\ age'[id] + ToGo'[Where(id)] = age[id] + ToGo[Where(id)]
  PROVE  OnCourse(id)'
<1>1. /\ unit[id].time_ \in Nat /\ unit[id].past_time_ \in Nat /\ age[id] \in Nat /\ N \in Nat
      /\ Slack(id)' = Slack(id) /\ Slack(id) \in Nat /\ Goal(id)' = Goal(id)
  BY UnitIs, Intervals DEF Slack, Goal
<1>2. Where(id) # Nowhere => /\ ToGo[Where(id)] \in Nat /\ Spare(Where(id)[1]) \in Nat
                             /\ Goal(id) \in Nat
  BY WhereIs
<1>3. NotLate(id)'
  <2>1. ASSUME Where(id) # Nowhere
        PROVE  /\ Goal(id) <= unit[id].time_
               /\ age'[id] + ToGo'[Where(id)] + Spare(Where(id)[1]) <= Goal(id)
    BY <1>1, <1>2, <2>1 DEF OnCourse, NotLate
  <2>2. Where(id) # Nowhere => Spare(Where(id)[1])' = Spare(Where(id)[1])
    BY DEF Spare
  <2>3. ASSUME hand' = id, doing' = "move"
        PROVE  /\ unit[id].past_time_ < unit[id].time_
               /\ age'[id] + Spare(turning)' <= unit[id].past_time_
    BY <2>3 DEF OnCourse, NotLate, Spare
  <2>4. ASSUME hand' = id, doing' \in {"act", "delete"} PROVE age'[id] <= unit[id].time_
    BY <2>4 DEF OnCourse, NotLate
  <2> QED
    BY <1>1, <2>1, <2>2, <2>3, <2>4 DEF NotLate
<1>4. ASSUME unit[id].time_ < N * N PROVE NotEarly(id)'
  <2>0. NotEarly(id)
    BY <1>4 DEF OnCourse
  <2>1. ASSUME Where(id) # Nowhere
        PROVE  Where(id)[1] # 3 /\ Goal(id) <= age'[id] + ToGo'[Where(id)] + Slack(id)
    BY <1>1, <1>2, <2>0, <2>1 DEF NotEarly
  <2>2. ASSUME hand' = id, doing' = "move"
        PROVE  turning' # 3 /\ unit[id].past_time_ <= age'[id] + Slack(id)
    BY <2>0, <2>2 DEF NotEarly
  <2>3. ASSUME hand' = id, doing' = "act" PROVE unit[id].time_ <= age'[id] + Slack(id)
    BY <2>0, <2>3 DEF NotEarly
  <2> QED
    BY <1>1, <2>1, <2>2, <2>3 DEF NotEarly
<1> QED
  BY <1>3, <1>4 DEF OnCourse

(* Slots stay as near as they are while the wheels stand. *)
LEMMA ToGoKept ==
  ASSUME UNCHANGED <<current_index_, turning>>
  PROVE  ToGo' = ToGo /\ \A w \in Wheels : MovesIn(w)' = MovesIn(w)
BY DEF ToGo, Along, Ahead, MovesIn

(* And then so do the units that stay. *)
LEMMA CourseUnmoved ==
  ASSUME TypeOK, NEW id \in Live, OnCourse(id),
         current_index_' = current_index_, turning' = turning, age'[id] = age[id], unit'[id] = unit[id], Where(id)' = Where(id),
         id \in hurried' <=> id \in hurried,
         hand' = id /\ doing' \in {"act", "delete", "move"} =>
             hand = id /\ (doing' = doing \/ (doing = "act" /\ doing' = "delete"))
  PROVE  OnCourse(id)'
<1>1. age[id] \in Nat /\ ToGo' = ToGo
  BY UnitIs, ToGoKept
<1>2. Where(id) # Nowhere => ToGo[Where(id)] \in Nat
  BY WhereIs
<1>3. Where(id) # Nowhere =>
          /\ age'[id] \in Int /\ ToGo'[Where(id)] \in Int
          /\ age'[id] + ToGo'[Where(id)] = age[id] + ToGo[Where(id)]
  BY <1>1, <1>2
<1> QED
  BY <1>3, CourseKept

(* A tick brings the moves of the second wheel and the third nearer. *)
LEMMA TickMoves ==
  ASSUME TypeOK, Tick, NEW w \in {2, 3}
  PROVE  MovesIn(w)' \in Int /\ MovesIn(w)' + 1 = MovesIn(w)
<1> DEFINE c1 == current_index_[1]
           c2 == current_index_[2]
<1>1. N \in Nat /\ N > 1 /\ c1 \in 0 .. N - 1 /\ c2 \in 0 .. N - 1
  BY Intervals DEF TypeOK, Wheels
<1>2. turning = 0 /\ turning' = 1 /\ current_index_' = [current_index_ EXCEPT ![1] = (@ + 1) % N]
  BY DEF Tick, Null
<1>3. current_index_'[1] = (IF c1 + 1 = N THEN 0 ELSE c1 + 1) /\ current_index_'[2] = c2
  <2>1. (c1 + 1) % N = IF c1 + 1 = N THEN 0 ELSE c1 + 1
    BY <1>1, NextIndex
  <2> QED
    BY <1>2, <2>1 DEF TypeOK, Wheels
<1> DEFINE m == (N - 1 - c2) * N
           soon == IF c1 + 1 = N THEN 0 ELSE N - (c1 + 1)
<1>4. m \in Nat
  BY <1>1
<1>5. /\ MovesIn(2) = N - c1 /\ MovesIn(3) = m + (N - c1)
      /\ MovesIn(2)' = soon /\ MovesIn(3)' = m + soon
  BY <1>1, <1>2, <1>3 DEF MovesIn
<1> HIDE DEF m
<1>6. soon \in Int /\ soon + 1 = N - c1
  BY <1>1
<1> HIDE DEF soon
<1> QED
  BY <1>1, <1>4, <1>5, <1>6

(* Wheels that do not move in a turn move as soon as they would. *)
LEMMA NextMoves ==
  ASSUME TypeOK, Turning, NextWheel, NEW w \in {2, 3}, turning' # w
  PROVE  MovesIn(w)' = MovesIn(w)
<1> DEFINE c1 == current_index_[1]
           c2 == current_index_[2]
<1>1. N \in Nat /\ N > 1 /\ c1 \in 0 .. N - 1 /\ c2 \in 0 .. N - 1 /\ turning \in {1, 2, 3}
  BY Intervals DEF TypeOK, Wheels, NextWheel
<1>2. CASE ~ (Carry /\ turning < 3)
  <2>1. turning' = 0 /\ UNCHANGED current_index_ /\ (turning = 1 => c1 # 0) /\ (turning = 2 => c2 # 0)
    BY <1>1, <1>2 DEF NextWheel, Carry, Null
  <2> QED
    BY <1>1, <2>1 DEF MovesIn
<1>3. CASE Carry /\ turning = 1
  <2>1. /\ turning' = 2 /\ c1 = 0 /\ w = 3
        /\ current_index_' = [current_index_ EXCEPT ![2] = (@ + 1) % N]
    BY <1>3 DEF NextWheel, Carry
  <2>2. current_index_'[2] = (IF c2 + 1 = N THEN 0 ELSE c2 + 1) /\ current_index_'[1] = 0
    <3>1. (c2 + 1) % N = IF c2 + 1 = N THEN 0 ELSE c2 + 1
      BY <1>1, NextIndex
    <3> QED
      BY <2>1, <3>1 DEF TypeOK, Wheels
  <2>3. MovesIn(3) = (N - 1 - c2) * N
    BY <1>1, <1>3, <2>1 DEF MovesIn
  <2>4. CASE c2 + 1 = N
    <3>1. MovesIn(3)' = 0
      BY <2>1, <2>2, <2>4 DEF MovesIn
    <3>2. N - 1 - c2 = 0
      BY <1>1, <2>4
    <3>3. (N - 1 - c2) * N = 0
      BY <1>1, <3>2
    <3> QED
      BY <2>1, <2>3, <3>1, <3>3
  <2>5. CASE c2 + 1 # N
    <3>1. current_index_'[2] = c2 + 1 /\ c2 + 1 # 0
      BY <1>1, <2>2, <2>5
    <3>2. MovesIn(3)' = (N - 1 - (c2 + 1)) * N + (N - 0)
      BY <2>1, <2>2, <3>1 DEF MovesIn
    <3>3. (N - 1 - (c2 + 1)) * N + (N - 0) = (N - 1 - c2) * N
      BY <1>1
    <3> QED
      BY <2>1, <2>3, <3>2, <3>3
  <2> QED
    BY <2>4, <2>5
<1>4. CASE Carry /\ turning = 2
  <2>1. /\ turning' = 3 /\ w = 2
        /\ current_index_' = [current_index_ EXCEPT ![3] = (@ + 1) % N]
    BY <1>4 DEF NextWheel, Carry
  <2>2. current_index_'[1] = c1
    BY <2>1 DEF TypeOK, Wheels
  <2> QED
    BY <1>4, <2>1, <2>2 DEF MovesIn
<1> QED
  BY <1>1, <1>2, <1>3, <1>4

(* In particular those the worker does nothing with. *)
LEMMA CourseStill ==
  ASSUME TypeOK, NEW id \in Live, OnCourse(id),
         current_index_' = current_index_, turning' = turning, age'[id] = age[id],
         unit'[id] = unit[id], Where(id)' = Where(id), id \in hurried' <=> id \in hurried,
         hand' # id \/ (hand' = hand /\ doing' = doing)
  PROVE  OnCourse(id)'
<1>1. hand' = id /\ doing' \in {"act", "delete", "move"} =>
          hand = id /\ (doing' = doing \/ (doing = "act" /\ doing' = "delete"))
  OBVIOUS
<1> QED
  BY <1>1, CourseUnmoved

(* A race that has happened stays on record. *)
LEMMA StillTimed ==
  ASSUME Timed, Worker \/ Setter, "outrun" \notin races'
  PROVE  "outrun" \notin races /\ Underway /\ \A id \in Live : OnCourse(id)
<1>1. races \subseteq races'
  BY DEF Worker, Setter, Tick, Pop, Act, Delete, MoveInsert, MoveLocate, MoveCount, NextWheel,
         SetTimer, Follow, Unlink, New, AddTimer, Insert, Locate, Race, ClearRace, history
<1> QED
  BY <1>1 DEF Timed

(* The search for a place goes on while the wheels stand. *)
LEMMA UnderwayKept ==
  ASSUME Underway, UNCHANGED <<setter, age, current_index_, turning>>,
         at = "add" => unit'[held] = unit[held] /\ (held \in hurried' <=> held \in hurried)
  PROVE  Underway'
<1>1. MovesIn(2)' = MovesIn(2) /\ MovesIn(3)' = MovesIn(3)
  BY ToGoKept DEF Wheels
<1> QED
  BY <1>1 DEF Underway, Slack, setter

(* Nor do the steps of a thread that moves no unit take one off its course. *)
LEMMA QuietTimed ==
  ASSUME TypeOK, \A id \in Live : OnCourse(id),
         UNCHANGED <<unitVars, worker, age, hurried>>,
         at \notin {"add", "insert"}, at' \notin {"add", "insert"}
  PROVE  Underway' /\ \A id \in Live' : OnCourse(id)'
<1>1. Live' = Live /\ \A id \in Live : Where(id)' = Where(id)
  BY DEF Where, unitVars, Live
<1>2. ASSUME NEW id \in Live PROVE OnCourse(id)'
  <2>1. /\ OnCourse(id) /\ Where(id)' = Where(id)
        /\ UNCHANGED <<unit, age, hurried, current_index_, turning, hand, doing>>
    BY <1>1 DEF unitVars, worker
  <2> QED
    BY <2>1, CourseStill
<1> QED
  BY <1>1, <1>2 DEF Underway

LEMMA UnlinkTimed ==
  ASSUME TypeOK, Sound, \A id \in Live : OnCourse(id), Unlink
  PROVE  Underway' /\ \A id \in Live' : OnCourse(id)'
<1>1. CASE hand = held
  BY <1>1, QuietTimed DEF Unlink, setter
<1>2. CASE hand # held
  <2>1. /\ location_' = [location_ EXCEPT ![held] = Nowhere]
        /\ unit' = [u \in Live \ {held} |-> unit[u]] /\ hurried' = hurried \ {held}
        /\ at = "unlink" /\ at' \in {"idle", "new"}
        /\ UNCHANGED <<worker, age>>
    BY <1>2 DEF Unlink, AddNext, Rest
  <2>2. Live' = Live \ {held}
    BY <2>1 DEF Live
  <2>3. ASSUME NEW id \in Live \ {held} PROVE OnCourse(id)'
    <3>1. id \in Ids /\ unit'[id] = unit[id] /\ location_'[id] = location_[id]
      BY <2>1, UnitIs DEF TypeOK
    <3>2. Where(id)' = Where(id)
      BY <2>1, <3>1 DEF Where
    <3>3. /\ OnCourse(id) /\ (id \in hurried' <=> id \in hurried)
          /\ UNCHANGED <<age, current_index_, turning, hand, doing>>
      BY <2>1 DEF worker
    <3> QED
      BY <3>1, <3>2, <3>3, CourseStill
  <2> QED
    BY <2>1, <2>2, <2>3 DEF Underway
<1> QED
  BY <1>1, <1>2

(* A place is looked for from the first wheel on, at age 0. *)
LEMMA NewTimed ==
  ASSUME TypeOK, Sound, \A id \in Live : OnCourse(id), New
  PROVE  Underway' /\ \A id \in Live' : OnCourse(id)'
<1>1. PICK id \in Ids \ Live :
        /\ unit' = [u \in Live \cup {id} |->
                       IF u = id THEN [member_ |-> obj, time_ |-> time, past_time_ |-> 0]
                                 ELSE unit[u]]
        /\ held' = id /\ age' = [age EXCEPT ![id] = 0]
  BY DEF New
<1>2. /\ at = "new" /\ at' = "add" /\ wheel' = 1
      /\ UNCHANGED <<slot_list_, location_, worker, hurried>>
  BY DEF New
<1>3. Live' = Live \cup {id} /\ unit'[id].time_ = time /\ unit'[id].past_time_ = 0 /\ age'[id] = 0
  BY <1>1 DEF Live, TypeOK
<1>4. time \in Nat
  BY WheelAssumption DEF TypeOK, DelTimer
<1>5. ASSUME NEW u \in Live PROVE OnCourse(u)'
  <2>1. u # id /\ unit'[u] = unit[u] /\ age'[u] = age[u]
    BY <1>1, UnitIs DEF TypeOK
  <2>2. Where(u)' = Where(u)
    BY <1>2 DEF Where
  <2>3. OnCourse(u) /\ UNCHANGED <<hurried, current_index_, turning, hand, doing>>
    BY <1>2 DEF worker
  <2> QED
    BY <2>1, <2>2, <2>3, CourseStill
<1>6. OnCourse(id)'
  <2>1. location_[id] = Nowhere
    BY DEF Sound, UnitsPlaced
  <2>2. Where(id)' = Nowhere
    BY <1>2, <2>1 DEF Where
  <2>3. hand # id
    BY <1>1, WheelAssumption DEF Sound, UnitsPlaced, Null
  <2> QED
    BY <1>2, <2>2, <2>3, CourseIdle DEF worker
<1>7. Underway'
  BY <1>1, <1>2, <1>3, <1>4 DEF Underway
<1> QED
  BY <1>3, <1>5, <1>6, <1>7

(* The wheel that takes the unit has its slot reached in time; and if none *)
(* does yet, the time until the next wheel moves is recorded as past.      *)
LEMMA AddTimerTimed ==
  ASSUME TypeOK, Sound, Underway, \A id \in Live : OnCourse(id), AddTimer
  PROVE  Underway' /\ \A id \in Live' : OnCourse(id)'
<1> DEFINE left == LeftOf(held)
           t == unit[held].time_
           past == unit[held].past_time_
           c1 == current_index_[1]
           c2 == current_index_[2]
<1>1. /\ at = "add" /\ held \in Live /\ held \in Ids /\ left \in Int /\ location_[held] = Nowhere
      /\ held # hand /\ wheel \in Wheels
      /\ UNCHANGED <<slot_list_, location_, timer_unit_p, worker, obj, time, held, age, races>>
      /\ Live' = Live /\ \A u \in Live \ {held} : unit'[u] = unit[u]
      /\ unit'[held].time_ = t
  BY AddTimerIs
<1>2. /\ UNCHANGED <<current_index_, turning, hand, doing>> /\ ToGo' = ToGo
      /\ MovesIn(2)' = MovesIn(2) /\ MovesIn(3)' = MovesIn(3)
  BY <1>1, ToGoKept DEF worker, Wheels
<1>3. /\ t \in Nat /\ t > 0 /\ past \in Nat /\ age[held] \in Nat /\ left = t - past
      /\ N \in Nat /\ N > 1 /\ N * N \in Nat /\ N * (N * N) \in Nat
      /\ interval_(1) = 1 /\ interval_(2) = N /\ interval_(3) = N * N
      /\ c1 \in 0 .. N - 1 /\ c2 \in 0 .. N - 1
  BY <1>1, UnitIs, Intervals DEF LeftOf, TypeOK, Wheels
<1>4. /\ past <= t /\ (wheel = 1 => past = 0 /\ age[held] = 0)
      /\ wheel = 2 => age[held] + MovesIn(2) <= past
      /\ wheel = 3 => age[held] + MovesIn(3) + N <= past
      /\ t < N * N => wheel # 3
      /\ t < N * N /\ wheel = 2 => past <= age[held] + MovesIn(2) + Slack(held)
  BY <1>1 DEF Underway
<1>5. /\ MovesIn(2) \in Nat /\ MovesIn(3) \in Nat /\ MovesIn(2) <= N - c1
      /\ (turning # 1 \/ c1 # 0) => MovesIn(2) = N - c1
  BY MovesInBound
<1>6. ASSUME NEW u \in Live \ {held} PROVE OnCourse(u)'
  <2>1. Where(u)' = Where(u)
    BY <1>1, <1>6 DEF Where
  <2>2. u \in hurried' <=> u \in hurried
    BY <1>6 DEF AddTimer
  <2>3. OnCourse(u) /\ unit'[u] = unit[u] /\ age'[u] = age[u]
    BY <1>1, <1>6
  <2> QED
    BY <1>2, <2>1, <2>2, <2>3, CourseStill
<1>7. CASE Holds(wheel, left)
  <2> DEFINE s == SlotAt(wheel, left)
             runup == RunUp(wheel, left)
             go == ToGo[s]
  <2>1. /\ at' = "insert" /\ slot' = s /\ UNCHANGED <<wheel, hurried>>
        /\ unit'[held].past_time_ = past + (IF wheel = 1 THEN 0 ELSE runup)
    BY <1>7, AddTimerIs
  <2>2. /\ s \in Slots /\ s[1] = wheel /\ s # Nowhere /\ s[2] # current_index_[wheel]
        /\ runup \in Nat /\ Along(s) = runup
    BY <1>1, SlotAtIs
  <2>3. go = runup + MovesIn(wheel)
    BY <2>2 DEF ToGo
  <2>4. left \in Nat
    BY <1>3, <1>4
  <2>5. runup <= left /\ (wheel = 1 => runup + 1 = left)
    <3> DEFINE o == SlotOffset(wheel, left)
               i == interval_(wheel)
    <3>1. /\ o \in 1 .. N - 1 /\ i \in Nat /\ i > 0 /\ runup = (o - 1) * i
          /\ o = IF left \div i >= N THEN N - 1 ELSE IF left \div i < 1 THEN 1 ELSE left \div i
      BY <1>1, OffsetIs, Intervals DEF SlotOffset, RunUp
    <3>2. CASE wheel = 1
      <4>1. left < N /\ left > 0 /\ i = 1
        BY <1>3, <1>4, <1>7, <3>2 DEF Holds
      <4>2. o = left
        BY <1>1, <1>3, <2>4, <3>2, <4>1, OffsetIs
      <4> HIDE DEF o, left
      <4> QED
        BY <1>3, <2>4, <3>1, <4>1, <4>2
    <3>3. CASE wheel # 1
      <4> HIDE DEF o, i, left, runup
      <4> QED
        BY <2>4, <3>1, <3>3, RunUpIs
    <3> QED
      BY <3>2, <3>3
  <2> HIDE DEF s, runup, left
  <2>6. Where(held)' = s /\ s # Nowhere /\ hand' # held /\ held' = held
    BY <1>1, <1>2, <2>1, <2>2 DEF Where
  <2>7. Goal(held)' = IF wheel = 1 THEN t ELSE past + runup
    BY <1>1, <2>1, <2>2, <2>6 DEF Goal
  <2>8. Slack(held)' = Slack(held) /\ age'[held] = age[held] /\ Slack(held) \in Nat
    BY <1>1, <1>3, <2>1 DEF Slack
  <2>9. NotLate(held)'
    <3>1. Goal(held)' <= t
      BY <1>3, <2>2, <2>4, <2>5, <2>7
    <3>2. age[held] + go + Spare(wheel) <= Goal(held)'
      <4>1. CASE wheel = 1
        <5>1. go = t /\ Spare(wheel) = 0 /\ MovesIn(1) = 1
          BY <1>3, <1>4, <2>2, <2>3, <2>5, <4>1, MovesInBound DEF Spare
        <5> QED
          BY <1>3, <1>4, <2>7, <4>1, <5>1
      <4>2. CASE wheel = 2
        BY <1>3, <1>4, <1>5, <2>2, <2>3, <2>7, <4>2 DEF Spare
      <4>3. CASE wheel = 3
        BY <1>3, <1>4, <1>5, <2>2, <2>3, <2>7, <4>3 DEF Spare
      <4> QED
        BY <1>1, <4>1, <4>2, <4>3 DEF Wheels
    <3> QED
      BY <1>1, <1>2, <2>2, <2>6, <2>8, <3>1, <3>2 DEF NotLate, Spare
  <2>10. ASSUME t < N * N PROVE NotEarly(held)'
    <3>1. wheel # 3
      BY <1>4, <2>10
    <3>2. Goal(held)' <= age[held] + go + Slack(held)
      <4>1. CASE wheel = 1
        <5>1. go = t /\ Goal(held)' = t
          BY <1>3, <1>4, <2>2, <2>3, <2>5, <2>7, <4>1, MovesInBound
        <5> QED
          BY <1>3, <2>8, <5>1
      <4>2. CASE wheel = 2
        BY <1>3, <1>4, <1>5, <2>2, <2>3, <2>7, <2>8, <2>10, <4>2
      <4> QED
        BY <1>1, <3>1, <4>1, <4>2 DEF Wheels
    <3> QED
      BY <1>2, <2>2, <2>6, <2>8, <3>1, <3>2 DEF NotEarly
  <2>11. OnCourse(held)'
    BY <1>1, <2>9, <2>10 DEF OnCourse
  <2>12. Underway'
    BY <1>2, <2>1, <2>2 DEF Underway
  <2> QED
    BY <1>1, <1>6, <2>11, <2>12
<1>8. CASE ~ Holds(wheel, left)
  <2>1. /\ wheel \in {1, 2} /\ wheel' = wheel + 1 /\ at' = "add"
        /\ unit' = [unit EXCEPT ![held].past_time_ = @ + TurnEnd(wheel)]
        /\ hurried' = hurried \cup
               (IF turning = wheel /\ current_index_[wheel] = 0 THEN {held} ELSE {})
    BY <1>1, <1>8 DEF AddTimer, Holds, Wheels
  <2>2. unit'[held].past_time_ = past + TurnEnd(wheel)
    BY <1>1, <2>1 DEF TypeOK
  <2> DEFINE past2 == past + TurnEnd(wheel)
  <2>3. OnCourse(held)'
    <3>1. Where(held)' = Nowhere /\ hand' # held
      BY <1>1, <1>2, <2>1 DEF Where
    <3> QED
      BY <1>1, <3>1, CourseIdle
  <2>4. CASE wheel = 1
    <3>1. TurnEnd(1) = N - c1
      BY <1>3 DEF TurnEnd
    <3>2. left >= N
      BY <1>3, <1>8, <2>4 DEF Holds
    <3>3. past2 = N - c1 /\ past2 <= t /\ age[held] + MovesIn(2) <= past2
      BY <1>3, <1>4, <1>5, <2>4, <3>1, <3>2
    <3>4. past2 <= age[held] + MovesIn(2) + Slack(held)'
      <4>1. CASE turning = 1 /\ c1 = 0
        <5>1. Slack(held)' = N
          BY <1>1, <2>1, <2>4, <4>1 DEF Slack
        <5> QED
          BY <1>3, <1>5, <3>3, <5>1
      <4>2. CASE turning # 1 \/ c1 # 0
        <5>1. Slack(held)' \in Nat
          BY <1>3 DEF Slack
        <5> QED
          BY <1>3, <1>5, <3>3, <4>2, <5>1
      <4> QED
        BY <4>1, <4>2
    <3>5. Underway'
      <4> HIDE DEF past2
      <4>1. /\ held' = held /\ unit'[held].past_time_ = past2 /\ age'[held] = age[held]
            /\ wheel' = 2
        BY <1>1, <2>1, <2>2, <2>4 DEF past2
      <4> QED
        BY <1>1, <1>2, <2>1, <3>3, <3>4, <4>1 DEF Underway
    <3> QED
      BY <1>1, <1>6, <2>3, <3>5
  <2>5. CASE wheel = 2
    <3> DEFINE turn == (N - c2) * N
    <3>1. TurnEnd(2) = turn /\ turn \in Nat
      BY <1>3 DEF TurnEnd
    <3>2. left >= N * N
      BY <1>3, <1>8, <2>5 DEF Holds
    <3>3. turn <= N * N /\ MovesIn(3) + N <= turn + MovesIn(2)
      <4> DEFINE m == (N - 1 - c2) * N
                 k == c2 * N
      <4>1. m \in Nat /\ k \in Nat /\ turn = m + N /\ turn = N * N - k
        BY <1>3
      <4>2. MovesIn(3) = IF turning = 2 /\ c2 = 0 THEN 0 ELSE m + MovesIn(2)
        BY MovesInIs
      <4> HIDE DEF m, k, turn
      <4> QED
        BY <1>3, <1>5, <4>1, <4>2
    <3> HIDE DEF turn
    <3>4. past2 = past + turn /\ past2 <= t /\ age[held] + MovesIn(3) + N <= past2
      BY <1>3, <1>4, <1>5, <2>5, <3>1, <3>2, <3>3
    <3>5. ~ t < N * N
      BY <1>3, <3>2
    <3>6. Underway'
      <4> HIDE DEF past2
      <4>1. /\ held' = held /\ unit'[held].past_time_ = past2 /\ age'[held] = age[held]
            /\ wheel' = 3
        BY <1>1, <2>1, <2>2, <2>5 DEF past2
      <4> QED
        BY <1>1, <1>2, <2>1, <3>4, <3>5, <4>1 DEF Underway
    <3> QED
      BY <1>1, <1>6, <2>3, <3>6
  <2> QED
    BY <2>1, <2>4, <2>5
<1> QED
  BY <1>7, <1>8

(* The insertion puts the unit where it is on course. *)
LEMMA InsertTimed ==
  ASSUME TypeOK, Sound, \A id \in Live : OnCourse(id), Insert
  PROVE  Underway' /\ \A id \in Live' : OnCourse(id)'
<1>1. /\ at = "insert" /\ at' = "locate" /\ location_' = [location_ EXCEPT ![held] = slot]
      /\ UNCHANGED <<unit, age, hurried, current_index_, turning, hand, doing, held>>
  BY DEF Insert, worker, history
<1>2. held \in Ids /\ Live' = Live
  BY <1>1, UnitIs DEF Sound, Threads, Live
<1>3. ASSUME NEW id \in Live PROVE OnCourse(id)'
  <2>1. id \in Ids /\ OnCourse(id)
    BY UnitIs
  <2>2. Where(id)' = Where(id)
    BY <1>1, <1>2, <2>1 DEF Where, TypeOK
  <2> QED
    BY <1>1, <2>1, <2>2, CourseStill
<1> QED
  BY <1>1, <1>2, <1>3 DEF Underway

(* A tick gives to the ages what it takes from the ticks to go. *)
LEMMA TickTimed ==
  ASSUME TypeOK, Sound, Underway, \A id \in Live : OnCourse(id), Tick,
         "outrun" \notin races, "outrun" \notin races'
  PROVE  Underway' /\ \A id \in Live' : OnCourse(id)'
<1>1. /\ turning = Null /\ turning' = 1
      /\ current_index_' = [current_index_ EXCEPT ![1] = (@ + 1) % N]
      /\ age' = [id \in Ids |-> IF Timing(id) THEN age[id] + 1 ELSE 0]
      /\ UNCHANGED <<unit, location_, hand, doing, at, held, wheel, slot, hurried>>
      /\ ~ Outruns(1, current_index_'[1])
  BY DEF Tick, Race, unitVars, setter
<1>2. hand = Null /\ Live' = Live /\ Turning
  BY <1>1 DEF Sound, Turning, Live
<1>3. ASSUME NEW id \in Live PROVE OnCourse(id)'
  <2>1. id \in Ids /\ id # Null /\ OnCourse(id) /\ unit'[id] = unit[id] /\ age[id] \in Nat
    BY <1>1, UnitIs
  <2>2. Where(id)' = Where(id) /\ hand' # id
    BY <1>1, <1>2, <2>1 DEF Where
  <2>3. CASE at = "add" /\ wheel = 1 /\ held = id
    <3>1. Where(id) = Nowhere
      BY <2>1, <2>3 DEF Where, Sound, UnitsPlaced, InHand
    <3> QED
      BY <2>2, <3>1, CourseIdle
  <2>4. CASE ~ (at = "add" /\ wheel = 1 /\ held = id)
    <3>1. age'[id] = age[id] + 1
      BY <1>1, <2>1, <2>4 DEF Timing
    <3>2. Where(id) # Nowhere => ToGo'[Where(id)] \in Int /\ ToGo'[Where(id)] + 1 = ToGo[Where(id)]
      BY <1>2, WhereIs, TickToGo
    <3>3. Where(id) # Nowhere =>
              /\ age'[id] \in Int /\ ToGo'[Where(id)] \in Int
              /\ age'[id] + ToGo'[Where(id)] = age[id] + ToGo[Where(id)]
      BY <2>1, <3>1, <3>2
    <3>4. id \in hurried' <=> id \in hurried
      BY <1>1
    <3> QED
      BY <2>1, <2>2, <3>3, <3>4, CourseKept
  <2> QED
    BY <2>3, <2>4
<1>4. Underway'
  <2>1. ASSUME at = "add"
        PROVE  /\ wheel = 1 => age'[held] = 0
               /\ wheel = 2 => age'[held] + MovesIn(2)' = age[held] + MovesIn(2)
               /\ wheel = 3 => age'[held] + MovesIn(3)' = age[held] + MovesIn(3)
               /\ age'[held] \in Nat /\ age[held] \in Nat
    <3>1. held \in Live /\ held \in Ids /\ age[held] \in Nat
      BY <2>1, UnitIs DEF Sound, Threads
    <3>2. age'[held] = IF wheel = 1 THEN 0 ELSE age[held] + 1
      BY <1>1, <2>1, <3>1 DEF Timing
    <3>3. /\ MovesIn(2)' \in Int /\ MovesIn(2)' + 1 = MovesIn(2)
          /\ MovesIn(3)' \in Int /\ MovesIn(3)' + 1 = MovesIn(3)
      BY TickMoves
    <3> QED
      BY <3>1, <3>2, <3>3
  <2>2. ASSUME at = "insert" PROVE slot[2] # current_index_'[slot[1]]
    <3>1. slot[2] # current_index_[slot[1]] /\ slot \in Slots
      BY <2>2 DEF Underway, Sound, Threads, TypeOK
    <3>2. slot[1] \in Wheels /\ slot = <<slot[1], slot[2]>>
      BY <3>1, SlotIs
    <3>3. CASE slot[1] = 1
      BY <1>1, <2>2, <3>2, <3>3 DEF Outruns
    <3>4. CASE slot[1] # 1
      BY <1>1, <3>1, <3>2, <3>4 DEF TypeOK
    <3> QED
      BY <3>3, <3>4
  <2>3. ASSUME at = "add", unit[held].time_ < N * N, wheel = 2
        PROVE  unit[held].past_time_ <= age'[held] + MovesIn(2)' + Slack(held)'
    <3>1. unit[held].past_time_ <= age[held] + MovesIn(2) + Slack(held) /\ Slack(held)' = Slack(held)
      BY <1>1, <2>3 DEF Underway, Slack
    <3> QED
      BY <2>1, <2>3, <3>1
  <2>4. ASSUME at = "add"
        PROVE  LET past == unit[held].past_time_
               IN  /\ past <= unit[held].time_
                   /\ wheel = 1 => past = 0 /\ age'[held] = 0
                   /\ wheel = 2 => age'[held] + MovesIn(2)' <= past
                   /\ wheel = 3 => age'[held] + MovesIn(3)' + N <= past
                   /\ unit[held].time_ < N * N => wheel # 3
    BY <2>1, <2>4 DEF Underway
  <2> QED
    BY <1>1, <2>2, <2>3, <2>4 DEF Underway
<1> QED
  BY <1>2, <1>3, <1>4

(* A wheel that follows leaves a slot in which no unit waits. *)
LEMMA NextWheelTimed ==
  ASSUME TypeOK, Sound, Underway, \A id \in Live : OnCourse(id), NextWheel,
         "outrun" \notin races, "outrun" \notin races'
  PROVE  Underway' /\ \A id \in Live' : OnCourse(id)'
<1>1. /\ turning # Null /\ hand = Null /\ slot_list_[Current] = <<>>
      /\ UNCHANGED <<unit, location_, hand, doing, at, held, wheel, slot, age, hurried>>
  BY DEF NextWheel, unitVars, setter
<1>2. \/ /\ turning' \in {2, 3}
         /\ current_index_' = [current_index_ EXCEPT ![turning'] = (@ + 1) % N]
         /\ ~ Outruns(turning', current_index_'[turning'])
      \/ turning' = Null /\ current_index_' = current_index_
  BY <1>1 DEF NextWheel, Race, TypeOK, Wheels
<1>3. /\ Turning /\ Live' = Live /\ turning \in Wheels
      /\ Current \in Slots /\ Current[1] = turning /\ Current[2] = current_index_[turning]
      /\ Current # Nowhere
  <2>1. turning \in Wheels
    BY <1>1 DEF TypeOK
  <2>2. Current \in Slots /\ Current[1] = turning /\ Current[2] = current_index_[turning]
    BY <2>1 DEF Current, Slots, TypeOK
  <2> QED
    BY <1>1, <2>1, <2>2, SlotIs DEF Sound, Live
<1>4. \A id \in Ids : location_[id] # Current
  <2>1. ToSet(slot_list_[Current]) = {id \in Ids : location_[id] = Current}
    BY <1>3, ListIs DEF Sound
  <2>2. ToSet(<<>>) = {}
    BY DEF ToSet
  <2> QED
    BY <1>1, <2>1, <2>2
<1>5. ASSUME NEW id \in Live PROVE OnCourse(id)'
  <2>1. /\ id \in Ids /\ id # Null /\ OnCourse(id) /\ unit'[id] = unit[id] /\ age[id] \in Nat
        /\ age'[id] = age[id] /\ (id \in hurried' <=> id \in hurried) /\ hand' # id
    BY <1>1, UnitIs
  <2>2. Where(id)' = Where(id)
    BY <1>1 DEF Where
  <2>3. Where(id) # Current
    <3>1. at = "insert" => slot # Current
      BY <1>3 DEF Underway
    <3> QED
      BY <1>4, <2>1, <3>1 DEF Where
  <2>4. Where(id) # Nowhere => ToGo'[Where(id)] = ToGo[Where(id)] /\ ToGo[Where(id)] \in Nat
    BY <1>3, <2>3, WhereIs, NextToGo
  <2>5. Where(id) # Nowhere =>
            /\ age'[id] \in Int /\ ToGo'[Where(id)] \in Int
            /\ age'[id] + ToGo'[Where(id)] = age[id] + ToGo[Where(id)]
    BY <2>1, <2>4
  <2> QED
    BY <2>1, <2>2, <2>5, CourseKept
<1>6. Underway'
  <2>1. ASSUME at = "add"
        PROVE  /\ wheel = 2 => MovesIn(2)' = MovesIn(2)
               /\ wheel = 3 => MovesIn(3)' = MovesIn(3)
    <3>1. wheel > 1 => turning' # wheel
      BY <1>2, <2>1 DEF Outruns, Null
    <3> QED
      BY <1>3, <3>1, NextMoves
  <2>2. ASSUME at = "insert" PROVE slot[2] # current_index_'[slot[1]]
    <3>1. slot[2] # current_index_[slot[1]] /\ slot \in Slots
      BY <2>2 DEF Underway, Sound, Threads, TypeOK
    <3>2. slot[1] \in Wheels /\ slot = <<slot[1], slot[2]>>
      BY <3>1, SlotIs
    <3>3. CASE turning' \in {2, 3} /\ slot[1] = turning'
      BY <1>2, <2>2, <3>2, <3>3 DEF Outruns, Null
    <3>4. CASE turning' = Null \/ slot[1] # turning'
      BY <1>2, <3>1, <3>2, <3>4 DEF TypeOK, Null
    <3> QED
      BY <1>2, <3>3, <3>4
  <2>3. at' = at /\ held' = held /\ wheel' = wheel /\ slot' = slot /\ age' = age /\ unit' = unit
    BY <1>1
  <2>4. Slack(held)' = Slack(held)
    BY <1>1 DEF Slack
  <2> QED
    BY <2>1, <2>2, <2>3, <2>4 DEF Underway
<1> QED
  BY <1>3, <1>5, <1>6

(* What holds of the unit at the head of the slot being emptied. *)
LEMMA FirstTimed ==
  ASSUME TypeOK, Sound, \A id \in Live : OnCourse(id), turning # Null, slot_list_[Current] # <<>>
  PROVE  LET goal == IF turning = 1 THEN unit[First].time_ ELSE unit[First].past_time_
         IN  /\ goal <= unit[First].time_ /\ age[First] + Spare(turning) <= goal
             /\ unit[First].time_ < N * N => turning # 3 /\ goal <= age[First] + Slack(First)
<1> DEFINE f == First
<1>1. /\ turning \in Wheels /\ Current \in Slots /\ Current[1] = turning
      /\ Current[2] = current_index_[turning] /\ Current # Nowhere
      /\ f \in Live /\ f \in Ids /\ location_[f] = Current /\ ~ InHand(f)
  BY FirstIs DEF Sound
<1>2. unit[f].time_ \in Nat /\ unit[f].past_time_ \in Nat /\ age[f] \in Nat /\ N \in Nat
  BY <1>1, UnitIs, Intervals
<1>3. ToGo[Current] = 0
  BY <1>1 DEF ToGo
<1>4. NotLate(f) /\ (unit[f].time_ < N * N => NotEarly(f))
  BY <1>1 DEF OnCourse
<1>5. Where(f) = Current
  BY <1>1 DEF Where, InHand
<1> HIDE DEF f
<1>6. Spare(turning) \in Nat /\ Slack(f) \in Nat
  BY <1>2 DEF Spare, Slack
<1>7. Goal(f) = IF turning = 1 THEN unit[f].time_ ELSE unit[f].past_time_
  BY <1>1, <1>5 DEF Goal
<1>8. Goal(f) \in Nat
  BY <1>2, <1>7
<1>9. Goal(f) <= unit[f].time_ /\ age[f] + 0 + Spare(turning) <= Goal(f)
  BY <1>1, <1>3, <1>4, <1>5 DEF NotLate
<1>10. unit[f].time_ < N * N => turning # 3 /\ Goal(f) <= age[f] + 0 + Slack(f)
  BY <1>1, <1>3, <1>4, <1>5 DEF NotEarly
<1>11. age[f] + Spare(turning) <= Goal(f)
  BY <1>2, <1>6, <1>8, <1>9
<1>12. unit[f].time_ < N * N => turning # 3 /\ Goal(f) <= age[f] + Slack(f)
  BY <1>2, <1>6, <1>8, <1>10
<1> QED
  BY <1>7, <1>9, <1>11, <1>12 DEF f

(* A unit that is popped acts at its time, or has time left. *)
LEMMA PopTimed ==
  ASSUME TypeOK, Sound, Underway, \A id \in Live : OnCourse(id), Pop
  PROVE  Underway' /\ \A id \in Live' : OnCourse(id)'
<1>1. /\ turning # Null /\ hand = Null /\ slot_list_[Current] # <<>>
      /\ hand' = First /\ doing' = IF IsDue(First) THEN "act" ELSE "move"
      /\ location_' = [location_ EXCEPT ![First] = Nowhere]
      /\ UNCHANGED <<unit, current_index_, turning, age, hurried, at, held, wheel, slot>>
      /\ UNCHANGED setter
  BY DEF Pop, setter
<1>2. /\ Live' = Live /\ First \in Live /\ First \in Ids /\ turning \in Wheels /\ ~ InHand(First)
  BY <1>1, FirstIs DEF Sound, Live
<1>3. ASSUME NEW id \in Live PROVE OnCourse(id)'
  <2>1. id \in Ids /\ OnCourse(id)
    BY UnitIs
  <2>2. CASE id # First
    <3>1. location_'[id] = location_[id]
      BY <1>1, <2>1, <2>2 DEF TypeOK
    <3>2. Where(id)' = Where(id) /\ hand' # id /\ unit'[id] = unit[id] /\ age'[id] = age[id]
      BY <1>1, <2>2, <3>1 DEF Where
    <3>3. id \in hurried' <=> id \in hurried
      BY <1>1
    <3> QED
      BY <1>1, <2>1, <3>2, <3>3, CourseStill
  <2>3. CASE id = First
    <3> DEFINE t == unit[id].time_
               past == unit[id].past_time_
               goal == IF turning = 1 THEN t ELSE past
    <3>1. /\ goal <= t /\ age[id] + Spare(turning) <= goal
          /\ t < N * N => turning # 3 /\ goal <= age[id] + Slack(id)
      BY <1>1, <2>3, FirstTimed
    <3>2. /\ t \in Nat /\ past \in Nat /\ age[id] \in Nat /\ N \in Nat /\ N * N \in Nat
          /\ Spare(turning) \in Nat /\ Slack(id) \in Nat /\ goal \in Nat
      BY UnitIs, Intervals DEF Spare, Slack
    <3>3. age[id] <= t
      BY <3>1, <3>2
    <3>4. ASSUME doing' = "act", t < N * N PROVE t <= age[id] + Slack(id)
      <4>1. turning = 1 \/ turning = 2
        BY <1>2, <3>1, <3>4 DEF Wheels
      <4>2. CASE turning = 1
        BY <3>1, <3>4, <4>2
      <4>3. CASE turning = 2
        <5>1. goal = past
          BY <4>3
        <5> DEFINE left == t - past
        <5>2. left <= 0 \/ left % (N * N) = 0
          <6>1. IsDue(id)
            BY <1>1, <2>3, <3>4
          <6> QED
            BY <4>3, <6>1, Intervals DEF IsDue, LeftOf
        <5>3. left \in Nat /\ left < N * N
          BY <3>1, <3>2, <3>4, <5>1
        <5> HIDE DEF left
        <5>4. left = 0
          BY <3>2, <5>2, <5>3, SmallMod
        <5> QED
          BY <3>1, <3>2, <3>4, <5>1, <5>4 DEF left
      <4> QED
        BY <4>1, <4>2, <4>3
    <3>5. ASSUME doing' = "move" PROVE turning # 1 /\ past < t
      <4>1. ~ IsDue(id)
        BY <1>1, <2>3, <3>5
      <4>2. turning # 1 /\ ~ t - past <= 0
        BY <4>1 DEF IsDue, LeftOf
      <4> QED
        BY <3>2, <4>2
    <3>6. Where(id)' = Nowhere /\ hand' = id /\ unit' = unit /\ age' = age
      BY <1>1, <1>2, <2>3 DEF Where, InHand, TypeOK
    <3>7. Spare(turning)' = Spare(turning) /\ Slack(id)' = Slack(id) /\ turning' = turning
      BY <1>1 DEF Spare, Slack
    <3>8. NotLate(id)'
      BY <3>1, <3>3, <3>5, <3>6, <3>7 DEF NotLate
    <3>9. t < N * N => NotEarly(id)'
      BY <3>1, <3>4, <3>5, <3>6, <3>7 DEF NotEarly
    <3> QED
      BY <3>6, <3>8, <3>9 DEF OnCourse
  <2> QED
    BY <2>2, <2>3
<1>4. Underway'
  BY <1>1, UnderwayKept
<1> QED
  BY <1>2, <1>3, <1>4

LEMMA ActTimed ==
  ASSUME TypeOK, Sound, Underway, \A id \in Live : OnCourse(id), Act
  PROVE  Underway' /\ \A id \in Live' : OnCourse(id)'
<1>1. /\ doing = "act" /\ doing' = "delete" /\ hand' = hand
      /\ UNCHANGED <<unit, location_, current_index_, turning, setter, at, held, slot, age, hurried>>
  BY DEF Act, unitVars, setter
<1>2. ASSUME NEW id \in Live PROVE OnCourse(id)'
  <2>1. OnCourse(id) /\ Where(id)' = Where(id) /\ (id \in hurried' <=> id \in hurried)
    BY <1>1 DEF Where
  <2>2. hand' = id /\ doing' \in {"act", "delete", "move"} =>
            hand = id /\ (doing' = doing \/ (doing = "act" /\ doing' = "delete"))
    BY <1>1
  <2> QED
    BY <1>1, <2>1, <2>2, CourseUnmoved
<1> QED
  BY <1>1, <1>2, UnderwayKept DEF Live

LEMMA DeleteTimed ==
  ASSUME TypeOK, Sound, Underway, \A id \in Live : OnCourse(id), Delete
  PROVE  Underway' /\ \A id \in Live' : OnCourse(id)'
<1>1. /\ unit' = [u \in Live \ {hand} |-> unit[u]] /\ hurried' = hurried \ {hand}
      /\ UNCHANGED <<location_, current_index_, turning, setter, at, held, slot, age>>
      /\ hand' = Null
  BY DEF Delete, unitVars, setter
<1>2. Live' = Live \ {hand}
  BY <1>1 DEF Live
<1>3. ASSUME NEW id \in Live \ {hand} PROVE OnCourse(id)'
  <2>1. /\ OnCourse(id) /\ Where(id)' = Where(id) /\ (id \in hurried' <=> id \in hurried)
        /\ unit'[id] = unit[id] /\ age'[id] = age[id]
    BY <1>1 DEF Where
  <2>2. hand' # id
    BY <1>1, UnitIs
  <2> QED
    BY <1>1, <2>1, <2>2, CourseStill
<1>4. Underway'
  <2>1. at = "add" => held \in Live \ {hand}
    BY DEF Sound, Threads
  <2>2. at = "add" => unit'[held] = unit[held] /\ (held \in hurried' <=> held \in hurried)
    BY <1>1, <2>1
  <2> QED
    BY <1>1, <2>2, UnderwayKept
<1> QED
  BY <1>2, <1>3, <1>4

(* A unit that moves down is put on course again. *)
LEMMA MoveInsertTimed ==
  ASSUME TypeOK, Sound, Underway, \A id \in Live : OnCourse(id), MoveInsert
  PROVE  Underway' /\ \A id \in Live' : OnCourse(id)'
<1> DEFINE w == turning - 1
           t == unit[hand].time_
           past == unit[hand].past_time_
           place == Placement(w, t, past)
           s == place.slot
           goal == IF s[1] = 1 THEN t ELSE place.past
<1>1. /\ doing = "move" /\ hand \in Live /\ hand \in Ids /\ location_[hand] = Nowhere
      /\ turning \in {2, 3} /\ s \in Slots /\ s # Nowhere /\ place.past \in Nat
      /\ location_' = [location_ EXCEPT ![hand] = s]
      /\ unit' = [unit EXCEPT ![hand].past_time_ = place.past]
      /\ doing' = "locate"
      /\ UNCHANGED <<current_index_, turning, hand, setter, at, held, slot, age, hurried>>
  BY MoveInsertIs DEF history, setter
<1>2. w \in {1, 2} /\ (w = 1 <=> turning = 2) /\ (w = 2 <=> turning = 3)
  BY <1>1
<1>3. t \in Nat /\ past \in Nat /\ age[hand] \in Nat /\ N \in Nat /\ N > 1 /\ N * N \in Nat
  BY <1>1, UnitIs, Intervals
<1>4. Slack(hand) \in Nat
  BY <1>3 DEF Slack
<1>5. current_index_[1] = 0 /\ MovesIn(2) = N - current_index_[1]
  <2>1. current_index_[1] = 0
    BY <1>1 DEF Sound, Turning
  <2> QED
    BY <1>1, <2>1, MovesInBound
<1>6. /\ past < t
      /\ w = 1 => age[hand] <= past
      /\ w = 2 => age[hand] + N <= past
      /\ t < N * N => w = 1 /\ past <= age[hand] + Slack(hand)
  <2>1. /\ past < t /\ age[hand] + Spare(turning) <= past
        /\ t < N * N => turning # 3 /\ past <= age[hand] + Slack(hand)
    BY <1>1 DEF OnCourse, NotLate, NotEarly
  <2> HIDE DEF t, past, w
  <2> QED
    BY <1>1, <1>2, <1>3, <2>1 DEF Spare
<1>7. /\ goal <= t /\ age[hand] + ToGo[s] + Spare(s[1]) <= goal
      /\ w = 1 /\ t < N * N /\ past <= age[hand] + Slack(hand)
           /\ past + (N - current_index_[1]) <= age[hand] + MovesIn(2) + Slack(hand) =>
                s[1] # 3 /\ goal <= age[hand] + ToGo[s] + Slack(hand)
  <2> DEFINE a == age[hand]
             k == Slack(hand)
  <2> HIDE DEF w, t, past, a, k
  <2>1. w \in {1, 2} /\ t \in Nat /\ past \in Nat /\ past < t /\ a \in Nat /\ k \in Nat
    BY <1>2, <1>3, <1>4, <1>6 DEF a, k
  <2>2. (w = 1 => a <= past) /\ (w = 2 => a + N <= past /\ current_index_[1] = 0)
    BY <1>5, <1>6 DEF a
  <2>3. /\ goal <= t /\ a + ToGo[s] + Spare(s[1]) <= goal
        /\ w = 1 /\ t < N * N /\ past <= a + k
             /\ past + (N - current_index_[1]) <= a + MovesIn(2) + k =>
                  s[1] # 3 /\ goal <= a + ToGo[s] + k
    BY <2>1, <2>2, PutOnCourse
  <2> QED
    BY <2>3 DEF a, k
<1> HIDE DEF w, t, past, place
<1>8. ASSUME t < N * N
      PROVE  s[1] # 3 /\ goal <= age[hand] + ToGo[s] + Slack(hand)
  <2>1. w = 1 /\ past <= age[hand] + Slack(hand)
    BY <1>6, <1>8
  <2>2. past + (N - current_index_[1]) <= age[hand] + MovesIn(2) + Slack(hand)
    BY <1>3, <1>4, <1>5, <2>1
  <2> QED
    BY <1>7, <1>8, <2>1, <2>2
<1>9. Live' = Live /\ ToGo' = ToGo
  BY <1>1, ToGoKept DEF Live, TypeOK
<1>10. ASSUME NEW id \in Live PROVE OnCourse(id)'
  <2>1. CASE id # hand
    <3>1. id \in Ids /\ OnCourse(id)
      BY UnitIs
    <3>2. location_'[id] = location_[id] /\ unit'[id] = unit[id]
      BY <1>1, <2>1, <3>1 DEF TypeOK
    <3>3. Where(id)' = Where(id) /\ age'[id] = age[id] /\ hand' # id
      BY <1>1, <2>1, <3>2 DEF Where
    <3>4. id \in hurried' <=> id \in hurried
      BY <1>1
    <3> QED
      BY <1>1, <3>1, <3>2, <3>3, <3>4, CourseStill
  <2>2. CASE id = hand
    <3>1. location_'[id] = s /\ hand' = id /\ doing' = "locate"
      BY <1>1, <2>2 DEF TypeOK
    <3>2. unit'[id].time_ = t /\ unit'[id].past_time_ = place.past
      BY <1>1, <2>2 DEF TypeOK, t
    <3>3. Where(id)' = s
      <4>1. ~ (at = "insert" /\ held = id)
        BY <2>2 DEF Sound, Threads
      <4> QED
        BY <1>1, <3>1, <4>1 DEF Where
    <3>4. Goal(id)' = goal
      BY <3>2, <3>3 DEF Goal
    <3> HIDE DEF s, goal
    <3>5. NotLate(id)'
      BY <1>1, <1>7, <1>9, <2>2, <3>1, <3>2, <3>3, <3>4 DEF NotLate, Spare
    <3>6. t < N * N => NotEarly(id)'
      BY <1>1, <1>8, <1>9, <2>2, <3>1, <3>2, <3>3, <3>4 DEF NotEarly, Slack
    <3> QED
      BY <3>2, <3>5, <3>6 DEF OnCourse
  <2> QED
    BY <2>1, <2>2
<1>11. Underway'
  <2>1. at = "add" => held \in Live /\ held # hand
    BY DEF Sound, Threads
  <2>2. at = "add" => unit'[held] = unit[held] /\ (held \in hurried' <=> held \in hurried)
    BY <1>1, <2>1 DEF TypeOK
  <2> QED
    BY <1>1, <2>2, UnderwayKept
<1> QED
  BY <1>9, <1>10, <1>11

LEMMA MoveOnTimed ==
  ASSUME TypeOK, Underway, \A id \in Live : OnCourse(id), MoveLocate \/ MoveCount
  PROVE  Underway' /\ \A id \in Live' : OnCourse(id)'
<1>1. /\ doing' \in {"count", "none"}
      /\ UNCHANGED <<unit, location_, current_index_, turning, setter, at, held, slot, age, hurried>>
  BY DEF MoveLocate, MoveCount, unitVars, setter, history
<1>2. ASSUME NEW id \in Live PROVE OnCourse(id)'
  <2>1. OnCourse(id) /\ Where(id)' = Where(id) /\ (id \in hurried' <=> id \in hurried)
    BY <1>1 DEF Where
  <2>2. hand' = id /\ doing' \in {"act", "delete", "move"} =>
            hand = id /\ (doing' = doing \/ (doing = "act" /\ doing' = "delete"))
    BY <1>1
  <2> QED
    BY <1>1, <2>1, <2>2, CourseUnmoved
<1> QED
  BY <1>1, <1>2, UnderwayKept DEF Live

-----------------------------------------------------------------------------
(* Every step keeps the units on course, until a wheel outruns the setter. *)
LEMMA TimedStep ==
  ASSUME TypeOK, Sound, Timed, Worker \/ Setter
  PROVE  Timed'
<1> SUFFICES ASSUME "outrun" \notin races'
             PROVE  Underway' /\ \A id \in Live' : OnCourse(id)'
  BY DEF Timed
<1>1. "outrun" \notin races /\ Underway /\ \A id \in Live : OnCourse(id)
  BY StillTimed
<1>2. ASSUME NEW m \in Members, NEW t \in Times \cup {DelTimer}, SetTimer(m, t)
      PROVE  Underway' /\ \A id \in Live' : OnCourse(id)'
  <2>1. /\ at \notin {"add", "insert"} /\ at' \notin {"add", "insert"}
        /\ UNCHANGED <<unitVars, worker, age, hurried>>
    BY <1>2 DEF SetTimer, AddNext, Rest, history
  <2> QED
    BY <1>1, <2>1, QuietTimed
<1>3. ASSUME Follow \/ Locate PROVE Underway' /\ \A id \in Live' : OnCourse(id)'
  <2>1. /\ at \notin {"add", "insert"} /\ at' \notin {"add", "insert"}
        /\ UNCHANGED <<unitVars, worker, age, hurried>>
    BY <1>3 DEF Follow, Locate, AddNext, Rest, setter, history
  <2> QED
    BY <1>1, <2>1, QuietTimed
<1>4. ASSUME Setter PROVE Underway' /\ \A id \in Live' : OnCourse(id)'
  BY <1>1, <1>2, <1>3, <1>4, UnlinkTimed, NewTimed, AddTimerTimed, InsertTimed DEF Setter
<1>5. ASSUME Worker PROVE Underway' /\ \A id \in Live' : OnCourse(id)'
  BY <1>1, <1>5, TickTimed, NextWheelTimed, PopTimed, ActTimed, DeleteTimed, MoveInsertTimed,
     MoveOnTimed DEF Worker
<1> QED
  BY <1>4, <1>5

LEMMA WheelsNext ==
  ASSUME WInv, [Next]_vars
  PROVE  WInv'
<1>1. CASE Next
  <2>1. Defined /\ (Worker \/ Setter) /\ TypeOK /\ Sound /\ Found /\ Timed
    BY <1>1 DEF Next, WInv
  <2>2. TypeOK' /\ (Defined' => Sound')
    BY <2>1, SoundStep
  <2>3. Timed'
    BY <2>1, TimedStep
  <2>4. Defined' => Found'
    BY <2>1, SetterFound, WorkerFound
  <2> QED
    BY <2>2, <2>3, <2>4 DEF WInv
<1>2. CASE UNCHANGED vars
  <2>1. UNCHANGED <<slot_list_, unit, location_, timer_unit_p, current_index_, turning, hand, doing>>
        /\ UNCHANGED <<at, obj, time, held, wheel, slot, age, hurried, races>>
    BY <1>2 DEF vars, unitVars, worker, setter, history
  <2>2. TypeOK'
    BY <2>1 DEF WInv, TypeOK, Live
  <2>3. ASSUME Defined' PROVE Sound'
    BY <2>1, <2>3 DEF WInv, Defined, Sound, UnitsPlaced, InHand, PointersSound, Threads, Turning, Live
  <2>4. ASSUME Defined' PROVE Found'
    BY <2>1, <2>4 DEF WInv, Defined, Found, Acting, Live
  <2>5. ASSUME Defined' PROVE Timed'
    <3>1. TypeOK /\ Timed
      BY <2>1, <2>5 DEF WInv, Defined
    <3> SUFFICES ASSUME "outrun" \notin races
                 PROVE  Underway' /\ \A id \in Live' : OnCourse(id)'
      BY <2>1 DEF Timed
    <3>2. Underway /\ \A id \in Live : OnCourse(id)
      BY <3>1 DEF Timed
    <3>3. ASSUME NEW id \in Live PROVE OnCourse(id)'
      <4>1. OnCourse(id) /\ Where(id)' = Where(id) /\ (id \in hurried' <=> id \in hurried)
        BY <2>1, <3>2 DEF Where
      <4> QED
        BY <2>1, <3>1, <4>1, CourseStill
    <3> QED
      BY <2>1, <3>2, <3>3, UnderwayKept DEF Live, setter
  <2> QED
    BY <2>2, <2>3, <2>4, <2>5 DEF WInv
<1> QED
  BY <1>1, <1>2

(* WInv is the inductive invariant of the wheels and the two threads, for  *)
(* every interleaving of their steps.                                      *)
THEOREM WheelsInvariant == Spec => []WInv
<1>1. Init => WInv
  BY InitSound
<1>2. WInv /\ [Next]_vars => WInv'
  BY WheelsNext
<1> QED
  BY <1>1, <1>2, PTL DEF Spec

(* The values the wheels, their units, the pointers and the threads keep.  *)
THEOREM WheelTypes == Spec => []TypeOK
<1>1. WInv => TypeOK
  BY DEF WInv
<1> QED
  BY <1>1, WheelsInvariant, PTL

(* However DelTimer and AddTimer interleave with the worker that turns the *)
(* wheels: until the two threads have one unit in hand, a unit is in one   *)
(* slot, once, or a thread has it in hand; and no member points to a unit  *)
(* that has been deleted.                                                  *)
THEOREM WheelsStaySound == Spec => []WheelsSound
<1>1. WInv => WheelsSound
  BY DEF WInv, WheelsSound, Sound
<1> QED
  BY <1>1, WheelsInvariant, PTL

(* A unit that waits is found by the next DelTimer, and no member has two, *)
(* until one has been missed or the pointer to one cleared.                *)
THEOREM UnitsFindable == Spec => []Findable
<1>1. WInv => Findable
  BY DEF WInv, Findable, Defined, Found, Acting
<1> QED
  BY <1>1, WheelsInvariant, PTL

(* No unit acts late or is forgotten, whatever its time; and no unit the   *)
(* first two wheels can hold acts early, but for a turn of the first wheel *)
(* when its place was looked for while a wheel was about to follow: until  *)
(* a wheel outruns the thread that adds a unit.                            *)
THEOREM UnitsActOnTime == Spec => []OnTime
<1>1. WInv => OnTime
  <2> SUFFICES ASSUME WInv, races \cap {"shared", "outrun"} = {} PROVE
                 /\ \A id \in Live : age[id] <= unit[id].time_
                 /\ doing = "act" /\ unit[hand].time_ < N * N =>
                        age[hand] + (IF hand \in hurried THEN N ELSE 0) >= unit[hand].time_
    BY DEF OnTime
  <2>1. TypeOK /\ Sound /\ Underway /\ \A id \in Live : OnCourse(id)
    BY DEF WInv, Defined, Timed
  <2>2. ASSUME NEW id \in Live PROVE age[id] <= unit[id].time_
    <3>1. /\ id \in Ids /\ unit[id].time_ \in Nat /\ unit[id].past_time_ \in Nat /\ age[id] \in Nat
          /\ N \in Nat /\ MovesIn(2) \in Nat /\ MovesIn(3) \in Nat
      BY <2>1, UnitIs, Intervals, MovesInBound
    <3>2. NotLate(id)
      BY <2>1 DEF OnCourse
    <3>3. CASE Where(id) # Nowhere
      <4>1. ToGo[Where(id)] \in Nat /\ Spare(Where(id)[1]) \in Nat /\ Goal(id) \in Nat
        BY <2>1, <3>3, WhereIs
      <4>2. Goal(id) <= unit[id].time_ /\ age[id] + ToGo[Where(id)] + Spare(Where(id)[1]) <= Goal(id)
        BY <3>2, <3>3 DEF NotLate
      <4> QED
        BY <3>1, <4>1, <4>2
    <3>4. CASE hand = id /\ doing \in {"act", "delete"}
      BY <3>2, <3>4 DEF NotLate
    <3>5. CASE hand = id /\ doing = "move"
      <4>1. Spare(turning) \in Nat
        BY <3>1 DEF Spare
      <4>2. unit[id].past_time_ < unit[id].time_ /\ age[id] + Spare(turning) <= unit[id].past_time_
        BY <3>2, <3>5 DEF NotLate
      <4> QED
        BY <3>1, <4>1, <4>2
    <3>6. CASE at = "add" /\ held = id
      <4>1. /\ unit[id].past_time_ <= unit[id].time_
            /\ wheel = 1 => age[id] = 0
            /\ wheel = 2 => age[id] + MovesIn(2) <= unit[id].past_time_
            /\ wheel = 3 => age[id] + MovesIn(3) + N <= unit[id].past_time_
            /\ wheel \in 1 .. 3
        BY <2>1, <3>6 DEF Underway, TypeOK, Wheels
      <4> QED
        BY <3>1, <4>1
    <3>7. \/ Where(id) # Nowhere
          \/ InHand(id)
      BY <2>1, <3>1 DEF Where, Sound, UnitsPlaced, Threads
    <3>8. at = "insert" /\ held = id => Where(id) # Nowhere
      BY <2>1 DEF Where, Sound, Threads
    <3> QED
      BY <3>3, <3>4, <3>5, <3>6, <3>7, <3>8 DEF InHand
  <2>3. ASSUME doing = "act", unit[hand].time_ < N * N
        PROVE  age[hand] + (IF hand \in hurried THEN N ELSE 0) >= unit[hand].time_
    <3>1. hand \in Live
      BY <2>1, <2>3 DEF Sound, Threads, UnitsPlaced
    <3>2. unit[hand].time_ \in Nat /\ age[hand] \in Nat /\ N \in Nat
      BY <2>1, <3>1, UnitIs, Intervals
    <3>3. unit[hand].time_ <= age[hand] + Slack(hand)
      BY <2>1, <2>3, <3>1 DEF OnCourse, NotEarly
    <3> QED
      BY <3>2, <3>3 DEF Slack
  <2> QED
    BY <2>2, <2>3
<1> QED
  BY <1>1, WheelsInvariant, PTL
=============================================================================
