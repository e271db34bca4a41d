--------------------------- MODULE LogSenderProofs ---------------------------
(***************************************************************************)
(* What log_sender and short_sender take from the queue reaches log_server *)
(* as it was sent, once, and from log_sender in order; and it is lost only *)
(* where a message was cut or went down with its connection: for any       *)
(* number of messages, descriptors and crashes, and any room on the way.   *)
(***************************************************************************)
EXTENDS LogSender, SequenceTheorems, WellFoundedInduction, TLAPS

(* The messages taken from the queue, and those of them begun to be sent.  *)
Taken == produced - Len(queue)
Holding == sending # <<>> /\ sending[1].part = "begin"
Sent == IF Holding THEN Taken - 1 ELSE Taken

Wire(fd) == conn[fd].wire
BeginsAt(fd, i) == i \in 1 .. Len(Wire(fd)) /\ Wire(fd)[i].part = "begin"

Queued == Taken \in Nat /\ \A i \in 1 .. Len(queue) : queue[i] = Taken + i

(* The state of a connection bounds what else there is of it.              *)
WireParts == [of : Messages, part : {"begin", "rest", "pad"}] \cup {Garbage}

Connections ==
    \A fd \in Fds :
        /\ Wire(fd) \in Seq(WireParts)
        /\ conn[fd].st = "none" => conn[fd] = NoConn
        /\ Wire(fd) # <<>> \/ fd \in fd_ack_set \/ reading = fd => conn[fd].st = "up"

(* The sender's loop: an event is of a connection that is still open, and  *)
(* of one that has ended if it says so; no two are of the same.            *)
Busy == {"read", "write", "spin", "send"}

Events ==
    /\ \A e \in batch : Open(e.fd) /\ (e.hup => conn[e.fd].st = "ended")
    /\ \A e, f \in batch : e.fd = f.fd => e = f
    /\ spc = "wait" => batch = {}
    /\ IF spc \in Busy
         THEN /\ event.fd \in Fds /\ event.hup \in BOOLEAN /\ Open(event.fd)
              /\ event.hup => conn[event.fd].st = "ended"
              /\ \A e \in batch : e.fd # event.fd
              /\ mode[event.fd] = IF spc = "read" THEN "read" ELSE "write"
         ELSE event = NoEvent

(* What it holds is the message it took last, or, once a send was cut      *)
(* short, what lay behind it.                                              *)
Torn == torn /\ sending # <<>> /\ \A i \in 1 .. Len(sending) : sending[i] = Garbage

InHand ==
    /\ spc # "send" => sending = <<>>
    /\ spc = "send" => (Taken >= 1 /\ sending = Parts(Taken)) \/ Torn

OneConnection ==
    program = "log_sender" => sockfd = Min(Fds) /\ \A fd \in Fds : Open(fd) => fd = sockfd

(* A message has begun on one wire, or is stored, or neither.              *)
OnlyOnce ==
    /\ \A fd \in Fds : \A i \in 1 .. Len(Wire(fd)) : BeginsAt(fd, i) =>
          /\ Wire(fd)[i].of \in 1 .. Sent
          /\ \A j \in 1 .. Len(stored) : stored[j] # Wire(fd)[i].of
    /\ \A fd, gd \in Fds : \A i \in 1 .. Len(Wire(fd)), j \in 1 .. Len(Wire(gd)) :
          BeginsAt(fd, i) /\ BeginsAt(gd, j) /\ Wire(fd)[i].of = Wire(gd)[j].of => fd = gd /\ i = j
    /\ \A i \in 1 .. Len(stored) : stored[i] \in 0 .. Sent
    /\ \A i, j \in 1 .. Len(stored) : i < j /\ stored[i] # Altered => stored[i] # stored[j]

(* What log_sender sends goes in order over one connection.                *)
InTurn ==
    program = "log_sender" =>
        \A fd \in Fds : \A i \in 1 .. Len(Wire(fd)) : BeginsAt(fd, i) =>
            /\ \A j \in 1 .. Len(Wire(fd)) : i < j /\ BeginsAt(fd, j) => Wire(fd)[i].of < Wire(fd)[j].of
            /\ \A j \in 1 .. Len(stored) : stored[j] < Wire(fd)[i].of

StoredInTurn ==
    program = "log_sender" =>
        \A i, j \in 1 .. Len(stored) : i < j /\ Altered \notin {stored[i], stored[j]} => stored[i] < stored[j]

(* Unless a send was cut short, a wire carries messages, the first of them *)
(* perhaps in part, and what is left in the buffer is completed by the     *)
(* beginning of no other message.                                          *)
Comes(p, q) == CASE p.part = "begin" -> q = Part(p.of, "rest")
                 [] p.part = "rest" -> q = Part(p.of, "pad")
                 [] OTHER -> q.part = "begin"

Formed(wire) ==
    /\ \A i \in 1 .. Len(wire) : wire[i] # Garbage
    /\ \A i \in 1 .. Len(wire) - 1 : Comes(wire[i], wire[i + 1])
    /\ wire # <<>> => wire[Len(wire)].part = "pad"

Messagewise ==
    ~ torn =>
        /\ \A fd \in Fds : Formed(Wire(fd))
        /\ reading # NoFd /\ HasBlank(msg_rscv_buffer[2]) =>
              Wire(reading) # <<>> /\ Wire(reading)[1].part = "pad"
        /\ msg_rscv_buffer[2] # Garbage
        /\ \A i \in 1 .. Len(stored) : stored[i] # Altered

ReadFromCleared == reading = NoFd => msg_rscv_buffer = Cleared

(* While nothing has gone wrong, wires carry whole messages, and each that *)
(* was sent is on one, or stored.                                          *)
Whole == ~ (torn \/ cut \/ broken)

Arrived(m) ==
    \/ \E i \in 1 .. Len(stored) : stored[i] = m
    \/ \E fd \in Fds : \E i \in 1 .. Len(Wire(fd)) : BeginsAt(fd, i) /\ Wire(fd)[i].of = m

Arriving ==
    Whole => /\ \A fd \in Fds : Wire(fd) # <<>> => BeginsAt(fd, 1)
             /\ \A m \in (1 .. Sent) \ Overlong : Arrived(m)

(* Meanwhile a connection of short_sender carries one message, and has an  *)
(* event, once it waits to read, only when there is something to read.     *)
Unused(fd) == Wire(fd) = <<>> /\ conn[fd].acks = 0 /\ fd \notin fd_ack_set

OneEach ==
    program = "short_sender" /\ Whole =>
        \A fd \in Fds :
            IF mode[fd] = "write" THEN Unused(fd) /\ fd # reading
            ELSE \/ Wire(fd) = <<>>
                 \/ Len(Wire(fd)) = 3 /\ fd \notin fd_ack_set /\ conn[fd].acks = 0

Waiting ==
    program = "short_sender" =>
        /\ \A fd \in ready : mode[fd] = "read" => Readable(conn[fd])
        /\ \A e \in batch : mode[e.fd] = "read" => Readable(conn[e.fd])
        /\ spc = "read" => Readable(conn[event.fd])

(* TypeOK, in groups of what the actions leave alone.                      *)
ConnSet == [st : {"none", "connecting", "up", "ended"}, wire : Seq(PartSet), acks : 0 .. AckRoom]

Counts ==
    /\ program \in Programs
    /\ produced \in 0 .. MaxMessages(program) /\ crashes \in 0 .. MaxCrashes
    /\ queue \in Seq(Messages) /\ Len(queue) <= QueueRoom
NetTypes ==
    /\ conn \in [Fds -> ConnSet] /\ \A fd \in Fds : Len(Wire(fd)) <= WireRoom
    /\ ready \subseteq Fds /\ \A fd \in ready : Open(fd)
LoopTypes ==
    /\ mode \in [Fds -> {"read", "write"}] /\ sockfd \in Fds
    /\ spc \in Busy \cup {"wait", "events", "exited"}
    /\ batch \subseteq [fd : Fds, hup : BOOLEAN]
    /\ event \in [fd : Fds, hup : BOOLEAN] \cup {NoEvent}
SendingTypes == sending \in Seq(PartSet) /\ Len(sending) <= 3
ServerTypes ==
    /\ reading \in Fds \cup {NoFd} /\ msg_rscv_buffer \in [1 .. 3 -> PartSet]
    /\ fd_ack_set \subseteq Fds
    /\ stored \in Seq(Messages \cup {Altered})
Flags == /\ up \in BOOLEAN /\ torn \in BOOLEAN /\ cut \in BOOLEAN /\ broken \in BOOLEAN
         /\ abandoned \in BOOLEAN

Base == /\ Counts /\ NetTypes /\ LoopTypes /\ SendingTypes /\ ServerTypes /\ Flags
        /\ Queued /\ Connections /\ Events /\ InHand /\ OneConnection /\ ReadFromCleared

Flow == OnlyOnce /\ InTurn /\ StoredInTurn /\ Messagewise /\ Arriving

IInv == Base /\ Flow /\ OneEach /\ Waiting

-----------------------------------------------------------------------------
LEMMA Rooms ==
  /\ QueueRoom \in Nat \ {0} /\ AckRoom \in Nat \ {0} /\ MaxCrashes \in Nat
  /\ WireRoom \in Nat /\ WireRoom >= 3
  /\ NoFd \notin Fds /\ Fds \subseteq Nat /\ Fds # {}
BY SenderAssumption DEF NoFd

LEMMA Limits ==
  ASSUME program \in Programs
  PROVE  /\ MaxMessages(program) \in Nat /\ 1 .. MaxMessages(program) \subseteq Messages
         /\ QueueRoom \in Nat \ {0} /\ AckRoom \in Nat \ {0} /\ MaxCrashes \in Nat
         /\ WireRoom \in Nat /\ WireRoom >= 3
<1> DEFINE S == {MaxMessages(p) : p \in Programs}
<1>1. S \subseteq Nat /\ MaxMessages(program) \in S
  BY SenderAssumption
<1>2. \E m \in S : \A x \in S : m >= x
  <2>1. PICK a, b : \A x \in S : x = a \/ x = b
    <3>1. \A p \in Programs : p = "log_sender" \/ p = "short_sender"
      BY SenderAssumption
    <3>2. \A x \in S : x = MaxMessages("log_sender") \/ x = MaxMessages("short_sender")
      BY <3>1, Zenon
    <3> QED
      BY <3>2
  <2>2. PICK c : c \in S
    BY <1>1
  <2> HIDE DEF S
  <2>3. CASE \A x \in S : x <= c
    BY <1>1, <2>2, <2>3
  <2>4. CASE \E x \in S : x > c
    <3>1. PICK x \in S : x > c
      BY <2>4
    <3>2. \A y \in S : x >= y
      BY <1>1, <2>1, <2>2, <3>1
    <3> QED
      BY <3>2
  <2> QED
    BY <1>1, <2>2, <2>3, <2>4
<1> HIDE DEF S
<1>3. Max(S) \in S /\ \A x \in S : Max(S) >= x
  BY <1>2 DEF Max
<1>4. Messages = 1 .. Max(S)
  BY DEF Messages, S
<1>5. 1 .. MaxMessages(program) \subseteq Messages
  <2> DEFINE n == MaxMessages(program)
              top == Max(S)
  <2>1. n \in Nat /\ top \in Nat /\ n <= top
    BY <1>1, <1>3
  <2> HIDE DEF n, top
  <2>2. 1 .. n \subseteq 1 .. top
    BY <2>1
  <2> QED
    BY <1>4, <2>2 DEF n, top
<1> QED
  BY <1>1, <1>5, SenderAssumption

LEMMA FirstFd == Min(Fds) \in Fds
<1> DEFINE R == OpToRel(<, Nat)
<1>1. Fds \in SUBSET Nat /\ Fds # {}
  BY SenderAssumption
<1>2. IsWellFoundedOn(R, Nat)
  BY NatLessThanWellFounded
<1>3. \E x \in Fds : \A y \in Fds : ~ <<y, x>> \in R
  BY <1>1, <1>2, WFMin
<1>4. \E x \in Fds : \A y \in Fds : ~ y < x
  BY <1>1, <1>3 DEF OpToRel
<1>5. \E x \in Fds : \A y \in Fds : x <= y
  BY <1>1, <1>4
<1> QED
  BY <1>5 DEF Min

(* The records.                                                            *)
LEMMA Fields ==
  ASSUME NEW m, NEW p
  PROVE  /\ Part(m, p).of = m /\ Part(m, p).part = p
         /\ \A q \in PartSet : q.of = m /\ q.part = p <=> q = Part(m, p)
BY DEF Part, PartSet

LEMMA SpecialParts ==
  /\ Messages \subseteq Nat \ {0}
  /\ WireParts \subseteq PartSet /\ {Zeros, CutOff, Garbage} \subseteq PartSet
  /\ \A p \in PartSet : p.of \in Messages \cup {0} /\ p.part \in {"begin", "rest", "pad", "cut", "garbage"}
  /\ \A p \in WireParts : p # Garbage => p.of \in Messages /\ p.part \in {"begin", "rest", "pad"}
  /\ Garbage.part = "garbage" /\ CutOff.part = "cut" /\ Zeros.part = "pad"
  /\ Cleared \in [1 .. 3 -> PartSet] /\ Cleared[2] = Zeros
  /\ ~ HasBlank(Zeros) /\ ~ HasBlank(CutOff)
BY DEF WireParts, PartSet, Part, Garbage, CutOff, Zeros, Cleared, HasBlank, Messages

LEMMA Message ==
  ASSUME NEW m \in Messages
  PROVE  /\ Parts(m) \in Seq(WireParts) /\ Len(Parts(m)) = 3
         /\ Len(Parts(m)) \in Nat /\ Len(Parts(m)) >= 1 /\ Len(Parts(m)) <= 3
         /\ Parts(m)[1] = Part(m, "begin") /\ Parts(m)[2] = Part(m, "rest") /\ Parts(m)[3] = Part(m, "pad")
<1>1. {Part(m, "begin"), Part(m, "rest"), Part(m, "pad")} \subseteq WireParts
  BY DEF WireParts, Part
<1> DEFINE n == Len(Parts(m))
<1> HIDE DEF Part
<1>2. /\ Parts(m) \in Seq(WireParts) /\ n = 3
      /\ Parts(m)[1] = Part(m, "begin") /\ Parts(m)[2] = Part(m, "rest") /\ Parts(m)[3] = Part(m, "pad")
  BY <1>1 DEF Parts
<1> HIDE DEF n
<1>3. n \in Nat /\ n >= 1 /\ n <= 3
  BY <1>2
<1> QED
  BY <1>2, <1>3 DEF n

LEMMA JoinSeq ==
  ASSUME NEW S, NEW s \in Seq(S), NEW t \in Seq(S)
  PROVE  /\ s \o t \in Seq(S) /\ Len(s \o t) = Len(s) + Len(t)
         /\ \A i \in 1 .. Len(s \o t) : (s \o t)[i] = IF i <= Len(s) THEN s[i] ELSE t[i - Len(s)]
BY ConcatProperties

LEMMA FirstPart ==
  ASSUME NEW S, NEW s \in Seq(S), NEW n \in 1 .. Len(s)
  PROVE  /\ SubSeq(s, 1, n) \in Seq(S) /\ Len(SubSeq(s, 1, n)) = n
         /\ \A i \in 1 .. n : SubSeq(s, 1, n)[i] = s[i]
BY SubSeqProperties

LEMMA LastPart ==
  ASSUME NEW S, NEW s \in Seq(S), NEW n \in 1 .. Len(s)
  PROVE  /\ SubSeq(s, n + 1, Len(s)) \in Seq(S) /\ Len(SubSeq(s, n + 1, Len(s))) = Len(s) - n
         /\ \A i \in 1 .. Len(s) - n : SubSeq(s, n + 1, Len(s))[i] = s[i + n]
BY SubSeqProperties

LEMMA TakeFirst ==
  ASSUME NEW S, NEW s \in Seq(S), s # <<>>
  PROVE  /\ Head(s) = s[1] /\ Head(s) \in S /\ Tail(s) \in Seq(S) /\ Len(s) \in Nat /\ Len(s) >= 1
         /\ Len(Tail(s)) = Len(s) - 1
         /\ \A i \in 1 .. Len(s) - 1 : Tail(s)[i] = s[i + 1]
BY HeadTailProperties

LEMMA AddLast ==
  ASSUME NEW S, NEW s \in Seq(S), NEW x \in S
  PROVE  /\ Append(s, x) \in Seq(S) /\ Len(Append(s, x)) = Len(s) + 1
         /\ \A i \in 1 .. Len(s) : Append(s, x)[i] = s[i]
         /\ Append(s, x)[Len(s) + 1] = x
BY AppendProperties

LEMMA LeastOfTwo ==
  ASSUME NEW a \in Nat, NEW b \in Nat
  PROVE  Min({a, b}) = IF a <= b THEN a ELSE b
<1>1. \E x \in {a, b} : \A y \in {a, b} : x <= y
  OBVIOUS
<1> QED
  BY <1>1 DEF Min

LEMMA NoParts ==
  /\ <<>> \in Seq(PartSet) /\ <<>> \in Seq(WireParts) /\ <<>> \in Seq(Messages)
  /\ <<>> \in Seq(Messages \cup {Altered}) /\ Len(<<>>) = 0
BY EmptySeq

-----------------------------------------------------------------------------
(* Types, connections and the loop: a lemma for each action.               *)
LEMMA BaseTypes == Base => TypeOK
<1> SUFFICES ASSUME Base PROVE TypeOK
  OBVIOUS
<1>1. Counts /\ NetTypes /\ LoopTypes /\ SendingTypes /\ ServerTypes /\ Flags
  BY DEF Base
<1>2. ready \subseteq {fd \in Fds : Open(fd)} /\ \A fd \in Fds : Len(conn[fd].wire) <= WireRoom
  BY <1>1 DEF NetTypes, Wire
<1> QED
  BY <1>1, <1>2 DEF TypeOK, Counts, NetTypes, ConnSet, LoopTypes, SendingTypes, ServerTypes, Flags, Busy

LEMMA InitBase == Init => Base
<1> SUFFICES ASSUME Init PROVE Base
  OBVIOUS
<1> USE DEF Init
<1>1. \A st \in {"none", "connecting"} : [st |-> st, wire |-> <<>>, acks |-> 0] \in ConnSet
  BY NoParts, Limits DEF ConnSet
<1>2. NoConn \in ConnSet /\ NoConn.st = "none" /\ NoConn.wire = <<>>
  BY <1>1 DEF NoConn
<1>3. Connecting = [st |-> "connecting", wire |-> <<>>, acks |-> 0]
  BY DEF Connecting, NoConn
<1>4. Connecting \in ConnSet /\ Connecting.st = "connecting" /\ Connecting.wire = <<>>
  BY <1>1, <1>3
<1>5. conn \in [Fds -> ConnSet]
  BY <1>2, <1>4
<1>6. \A fd \in Fds : /\ conn[fd] = Connecting \/ conn[fd] = NoConn
                      /\ Wire(fd) = <<>> /\ (Open(fd) => fd = Min(Fds))
  BY <1>2, <1>4 DEF Wire, Open
<1>7. Counts /\ NetTypes /\ LoopTypes /\ SendingTypes /\ ServerTypes /\ Flags
  <2>1. Counts
    BY NoParts, Limits DEF Counts
  <2>2. NetTypes
    BY <1>5, <1>6, NoParts, Limits DEF NetTypes
  <2>3. LoopTypes /\ SendingTypes
    BY FirstFd, NoParts DEF LoopTypes, SendingTypes
  <2>4. ServerTypes
    BY NoParts, SpecialParts DEF ServerTypes
  <2>5. Flags
    BY Zenon DEF Flags
  <2> QED
    BY <2>1, <2>2, <2>3, <2>4, <2>5
<1>8. Queued
  BY NoParts DEF Queued, Taken
<1>9. Connections
  BY <1>2, <1>4, <1>6, NoParts, SenderAssumption DEF Connections, NoFd
<1>10. Events /\ InHand /\ OneConnection /\ ReadFromCleared
  BY <1>6, FirstFd DEF Events, InHand, OneConnection, ReadFromCleared, Busy
<1> QED
  BY <1>7, <1>8, <1>9, <1>10 DEF Base

LEMMA Records ==
  /\ NoConn \in ConnSet /\ NoConn.st = "none" /\ NoConn.wire = <<>> /\ NoConn.acks = 0
  /\ Connecting \in ConnSet /\ Connecting.st = "connecting" /\ Connecting.wire = <<>> /\ Connecting.acks = 0
  /\ \A c \in ConnSet : /\ c.st \in {"none", "connecting", "up", "ended"} /\ c.wire \in Seq(PartSet)
                        /\ c.acks \in 0 .. AckRoom
<1>1. \A st \in {"none", "connecting"} : [st |-> st, wire |-> <<>>, acks |-> 0] \in ConnSet
  BY NoParts, SenderAssumption DEF ConnSet
<1>2. Connecting = [st |-> "connecting", wire |-> <<>>, acks |-> 0]
  BY DEF Connecting, NoConn
<1> QED
  BY <1>1, <1>2 DEF NoConn, ConnSet

LEMMA Updates ==
  ASSUME NEW c \in ConnSet
  PROVE  /\ \A w \in Seq(PartSet) : /\ [c EXCEPT !.wire = w] \in ConnSet
                                    /\ [c EXCEPT !.wire = w].wire = w
                                    /\ [c EXCEPT !.wire = w].st = c.st
                                    /\ [c EXCEPT !.wire = w].acks = c.acks
         /\ \A a \in 0 .. AckRoom : /\ [c EXCEPT !.acks = a] \in ConnSet
                                    /\ [c EXCEPT !.acks = a].wire = c.wire
                                    /\ [c EXCEPT !.acks = a].st = c.st
                                    /\ [c EXCEPT !.acks = a].acks = a
         /\ \A st \in {"none", "connecting", "up", "ended"} :
                                    /\ [c EXCEPT !.st = st] \in ConnSet
                                    /\ [c EXCEPT !.st = st].wire = c.wire
                                    /\ [c EXCEPT !.st = st].st = st
                                    /\ [c EXCEPT !.st = st].acks = c.acks
BY DEF ConnSet

LEMMA OneChanges ==
  ASSUME NetTypes, NEW fd \in Fds, NEW c \in ConnSet, conn' = [conn EXCEPT ![fd] = c],
         Len(c.wire) <= WireRoom,
         ready' \subseteq ready \cup {fd}, fd \in ready' => c.st # "none"
  PROVE  /\ NetTypes'
         /\ conn'[fd] = c /\ \A x \in Fds : x # fd => conn'[x] = conn[x]
BY DEF NetTypes, Wire, Open

(* Closing a connection, perhaps to make another.                          *)
LEMMA Closing ==
  ASSUME Base, NEW fd \in Fds, NEW c \in {NoConn, Connecting}, conn' = [conn EXCEPT ![fd] = c],
         ready' = ready \ {fd}, ServerForgets(fd), UNCHANGED <<program, sockfd>>,
         c = NoConn \/ Open(fd)
  PROVE  /\ (NetTypes /\ ServerTypes /\ Connections /\ OneConnection /\ ReadFromCleared)'
         /\ conn'[fd] = c /\ \A x \in Fds : x # fd => conn'[x] = conn[x]
<1> USE DEF Base
<1>1. c \in ConnSet /\ c.wire = <<>> /\ c.st # "up" /\ (c.st = "none" => c = NoConn) /\ Len(c.wire) = 0
  BY Records, NoParts
<1>2. NetTypes' /\ conn'[fd] = c /\ \A x \in Fds : x # fd => conn'[x] = conn[x]
  <2>1. Len(c.wire) <= WireRoom
    BY <1>1, SenderAssumption
  <2>2. c \in ConnSet /\ ready' \subseteq ready \cup {fd} /\ fd \notin ready'
    BY <1>1
  <2> HIDE DEF Base
  <2>3. NetTypes
    BY DEF Base
  <2> QED
    BY <2>1, <2>2, <2>3, OneChanges
<1>3. fd # NoFd
  BY SenderAssumption DEF NoFd
<1>4. ServerTypes' /\ ReadFromCleared'
  BY <1>3, SpecialParts DEF ServerTypes, ServerForgets, ReadFromCleared
<1>5. Connections'
  <2>1. fd \notin fd_ack_set' /\ reading' # fd /\ fd_ack_set' \subseteq fd_ack_set
        /\ (reading' = reading \/ reading' = NoFd)
    BY <1>3 DEF ServerForgets
  <2> SUFFICES ASSUME NEW x \in Fds
               PROVE  /\ conn'[x].wire \in Seq(WireParts)
                      /\ conn'[x].st = "none" => conn'[x] = NoConn
                      /\ conn'[x].wire # <<>> \/ x \in fd_ack_set' \/ reading' = x => conn'[x].st = "up"
    BY DEF Connections, Wire
  <2>2. CASE x = fd
    BY <1>1, <1>2, <2>1, <2>2, NoParts
  <2>3. CASE x # fd
    BY <1>2, <2>1, <2>3, SenderAssumption DEF Connections, Wire, NoFd
  <2> QED
    BY <2>2, <2>3
<1>6. OneConnection'
  BY <1>1, <1>2, Records DEF OneConnection, Open
<1> QED
  BY <1>2, <1>4, <1>5, <1>6

LEMMA ProduceBase ==
  ASSUME Base, Produce
  PROVE  Base' /\ Taken' = Taken
<1> USE DEF Base, Produce, netVars, loopVars, serverVars
<1>1. (NetTypes /\ LoopTypes /\ SendingTypes /\ ServerTypes /\ Flags)'
  BY DEF NetTypes, Wire, Open, LoopTypes, SendingTypes, ServerTypes, Flags
<1>2. (Connections /\ Events /\ OneConnection /\ ReadFromCleared)'
  BY DEF Connections, Wire, Events, Open, OneConnection, ReadFromCleared
<1>3. /\ queue \in Seq(Messages) /\ Len(queue) \in Nat /\ Len(queue) < QueueRoom
      /\ produced \in Nat /\ produced + 1 \in 1 .. MaxMessages(program)
      /\ produced + 1 \in Messages
  <2>1. program \in Programs /\ queue \in Seq(Messages) /\ Len(queue) \in Nat
    BY LenProperties DEF Counts
  <2>2. produced \in Nat /\ produced + 1 \in 1 .. MaxMessages(program)
    BY <2>1, Limits DEF Counts
  <2>3. Len(queue) < QueueRoom
    BY <2>1, Limits DEF Counts, Full
  <2> QED
    BY <2>1, <2>2, <2>3, Limits
<1>4. /\ queue' \in Seq(Messages) /\ Len(queue') = Len(queue) + 1
      /\ \A i \in 1 .. Len(queue) : queue'[i] = queue[i]
      /\ queue'[Len(queue) + 1] = produced + 1
  BY <1>3, AddLast
<1>5. Counts'
  BY <1>3, <1>4, Limits DEF Counts
<1>6. Taken' = Taken /\ Taken \in Nat
  BY <1>3, <1>4 DEF Taken, Queued
<1>7. Queued'
  BY <1>3, <1>4, <1>6 DEF Taken, Queued
<1>8. InHand'
  BY <1>6 DEF InHand, Torn
<1> QED
  BY <1>1, <1>2, <1>5, <1>6, <1>7, <1>8

LEMMA Epoll_WaitBase ==
  ASSUME Base, Epoll_Wait
  PROVE  Base'
<1> USE DEF Base, Epoll_Wait, queueVars, serverVars
<1>1. (Counts /\ SendingTypes /\ ServerTypes /\ Flags)'
  BY DEF Counts, SendingTypes, ServerTypes, Flags
<1>2. (Queued /\ Connections /\ OneConnection /\ ReadFromCleared)'
  BY DEF Queued, Taken, Connections, Wire, OneConnection, Open, ReadFromCleared
<1>3. NetTypes'
  BY DEF NetTypes, Wire, Open
<1>4. \A e \in batch' : /\ e.fd \in ready /\ e.hup = (conn[e.fd].st = "ended")
                        /\ e = [fd |-> e.fd, hup |-> conn[e.fd].st = "ended"]
  OBVIOUS
<1>5. batch' \subseteq [fd : Fds, hup : BOOLEAN]
  <2>1. SUFFICES ASSUME NEW e \in batch' PROVE e \in [fd : Fds, hup : BOOLEAN]
    OBVIOUS
  <2>2. PICK fd \in ready : e = [fd |-> fd, hup |-> conn[fd].st = "ended"]
    OBVIOUS
  <2>3. fd \in Fds
    BY DEF NetTypes
  <2>4. (conn[fd].st = "ended") = TRUE \/ (conn[fd].st = "ended") = FALSE
    OBVIOUS
  <2>5. e = [fd |-> fd, hup |-> TRUE] \/ e = [fd |-> fd, hup |-> FALSE]
    BY <2>2, <2>4, Zenon
  <2>6. [fd |-> fd, hup |-> TRUE] \in [fd : Fds, hup : BOOLEAN] /\ [fd |-> fd, hup |-> FALSE] \in [fd : Fds, hup : BOOLEAN]
    BY <2>3
  <2> QED
    BY <2>5, <2>6, Zenon
<1>6. LoopTypes'
  BY <1>5 DEF LoopTypes
<1>7. Events'
  <2>1. \A e \in batch' : Open(e.fd) /\ (e.hup => conn[e.fd].st = "ended")
    BY <1>4 DEF NetTypes
  <2>2. \A e, f \in batch' : e.fd = f.fd => e = f
    BY <1>4
  <2>3. event = NoEvent
    BY DEF Events, Busy
  <2> QED
    BY <2>1, <2>2, <2>3 DEF Events, Busy, Open
<1>8. InHand'
  BY DEF InHand, Torn, Taken
<1> QED
  BY <1>1, <1>2, <1>3, <1>6, <1>7, <1>8

LEMMA NextEventBase ==
  ASSUME Base, NextEvent
  PROVE  Base'
<1> USE DEF Base, NextEvent, netVars, queueVars, serverVars
<1>1. (Counts /\ NetTypes /\ SendingTypes /\ ServerTypes /\ Flags)'
  BY DEF Counts, NetTypes, Wire, Open, SendingTypes, ServerTypes, Flags
<1>2. (Queued /\ Connections /\ OneConnection /\ ReadFromCleared)'
  BY DEF Queued, Taken, Connections, Wire, OneConnection, Open, ReadFromCleared
<1>3. /\ event' \in batch /\ event' \in [fd : Fds, hup : BOOLEAN]
      /\ event'.fd \in Fds /\ event'.hup \in BOOLEAN
      /\ spc' = mode[event'.fd] /\ spc' \in {"read", "write"}
      /\ batch' = batch \ {event'}
  BY DEF LoopTypes
<1>4. LoopTypes'
  BY <1>3 DEF LoopTypes, Busy
<1>5. Events'
  <2>1. \A e \in batch' : e \in batch /\ e # event'
    BY <1>3
  <2>2. \A e \in batch' : e.fd # event'.fd
    BY <1>3, <2>1 DEF Events
  <2> QED
    BY <1>3, <2>1, <2>2 DEF Events, Open, Busy
<1>6. InHand'
  BY <1>3 DEF InHand, Torn, Taken
<1> QED
  BY <1>1, <1>2, <1>4, <1>5, <1>6

(* An event that ends with what it was about closed or changed.            *)
LEMMA EventDone ==
  ASSUME Base, spc \in Busy, spc' = "events", event' = NoEvent, batch' \subseteq batch,
         \A x \in Fds \ {event.fd} : conn'[x] = conn[x]
  PROVE  Events' /\ (UNCHANGED <<mode, sockfd>> => LoopTypes')
<1> USE DEF Base
<1>1. \A e \in batch' : e \in batch /\ e.fd \in Fds /\ e.fd # event.fd
  BY DEF LoopTypes, Events
<1>2. \A e \in batch' : conn'[e.fd] = conn[e.fd]
  BY <1>1
<1>3. Events'
  BY <1>1, <1>2 DEF Events, Open, Busy
<1>4. UNCHANGED <<mode, sockfd>> => LoopTypes'
  BY DEF LoopTypes
<1> QED
  BY <1>3, <1>4

LEMMA AtEvent ==
  ASSUME Base, spc \in Busy
  PROVE  /\ event.fd \in Fds /\ event.hup \in BOOLEAN /\ Open(event.fd)
         /\ event.hup => conn[event.fd].st = "ended"
         /\ mode[event.fd] = IF spc = "read" THEN "read" ELSE "write"
         /\ conn[event.fd] \in ConnSet /\ Len(Wire(event.fd)) <= WireRoom
         /\ Wire(event.fd) \in Seq(WireParts) /\ Wire(event.fd) \in Seq(PartSet)
         /\ Len(Wire(event.fd)) \in Nat
<1>1. event.fd \in Fds /\ event.hup \in BOOLEAN /\ Open(event.fd)
      /\ (event.hup => conn[event.fd].st = "ended")
      /\ mode[event.fd] = IF spc = "read" THEN "read" ELSE "write"
  BY DEF Base, Events
<1>2. conn[event.fd] \in ConnSet /\ Len(Wire(event.fd)) <= WireRoom
  BY <1>1 DEF Base, NetTypes
<1>3. Wire(event.fd) \in Seq(WireParts)
  BY <1>1 DEF Base, Connections
<1>4. Wire(event.fd) \in Seq(PartSet) /\ Len(Wire(event.fd)) \in Nat
  BY <1>2, <1>3, Records, LenProperties DEF Wire
<1> QED
  BY <1>1, <1>2, <1>3, <1>4

LEMMA GiveUpConnectionBase ==
  ASSUME Base, GiveUpConnection
  PROVE  Base' /\ \A x \in Fds \ {event.fd} : conn'[x] = conn[x]
<1> USE DEF GiveUpConnection, queueVars
<1>1. spc \in Busy /\ spc # "send"
  BY DEF Busy
<1>2. event.fd \in Fds
  BY <1>1, AtEvent
<1>3. /\ (NetTypes /\ ServerTypes /\ Connections /\ OneConnection /\ ReadFromCleared)'
      /\ \A x \in Fds : x # event.fd => conn'[x] = conn[x]
  BY <1>2, Closing DEF Closed
<1>4. Events' /\ LoopTypes'
  BY <1>1, <1>3, EventDone
<1>5. (Counts /\ SendingTypes /\ Queued)'
  BY DEF Base, Counts, SendingTypes, Queued, Taken
<1>6. Flags'
  BY DEF Base, Flags
<1>7. InHand'
  BY <1>1 DEF Base, InHand, Torn, Taken
<1> QED
  BY <1>3, <1>4, <1>5, <1>6, <1>7 DEF Base

LEMMA SpinBase ==
  ASSUME Base, Spin
  PROVE  Base'
<1> USE DEF Base, Spin, queueVars, netVars, serverVars
<1>1. (Counts /\ NetTypes /\ SendingTypes /\ ServerTypes /\ Flags)'
  BY DEF Counts, NetTypes, Wire, Open, SendingTypes, ServerTypes, Flags
<1>2. (Queued /\ Connections /\ OneConnection /\ ReadFromCleared)'
  BY DEF Queued, Taken, Connections, Wire, OneConnection, Open, ReadFromCleared
<1>3. LoopTypes' /\ Events' /\ InHand'
  BY DEF LoopTypes, Busy, Events, Open, InHand, Torn, Taken
<1> QED
  BY <1>1, <1>2, <1>3

LEMMA TakeMessageBase ==
  ASSUME Base, TakeMessage
  PROVE  Base' /\ Taken' = Taken + 1 /\ Taken \in Nat /\ sending' = Parts(Taken')
<1> USE DEF Base, TakeMessage, netVars, serverVars
<1>1. (NetTypes /\ ServerTypes /\ Flags /\ Connections /\ OneConnection /\ ReadFromCleared)'
  BY DEF NetTypes, Wire, Open, ServerTypes, Flags, Connections, OneConnection, ReadFromCleared
<1>2. LoopTypes' /\ Events'
  BY DEF LoopTypes, Busy, Events, Open
<1>3. /\ Head(queue) = queue[1] /\ Head(queue) \in Messages
      /\ queue' \in Seq(Messages) /\ Len(queue') = Len(queue) - 1 /\ Len(queue) \in Nat /\ Len(queue) >= 1
      /\ \A i \in 1 .. Len(queue) - 1 : queue'[i] = queue[i + 1]
  BY TakeFirst DEF Counts
<1>4. program \in Programs /\ produced \in Nat /\ Len(queue) <= QueueRoom
  BY Limits DEF Counts
<1>5. Counts'
  BY <1>3, <1>4, Limits DEF Counts
<1>6. Taken' = Taken + 1 /\ Taken \in Nat
  BY <1>3, <1>4 DEF Taken, Queued
<1>7. queue[1] = Taken + 1
  BY <1>3, <1>6 DEF Queued
<1>8. Queued'
  <2>1. SUFFICES ASSUME NEW i \in 1 .. Len(queue') PROVE queue'[i] = Taken' + i
    BY <1>6 DEF Queued
  <2>2. i \in 1 .. Len(queue) - 1 /\ i + 1 \in 1 .. Len(queue)
    BY <1>3
  <2>3. queue[i + 1] = Taken + (i + 1)
    BY <2>2 DEF Queued
  <2> QED
    BY <1>3, <1>6, <2>2, <2>3
<1>9. sending' = Parts(Taken')
  BY <1>3, <1>6, <1>7
<1>10. SendingTypes'
  <2>1. Parts(Head(queue)) \in Seq(WireParts) /\ Len(Parts(Head(queue))) = 3
    BY <1>3, Message
  <2>2. Parts(Head(queue)) \in Seq(PartSet)
    BY <2>1, SpecialParts, SeqMonotonic
  <2>3. sending' = Parts(Head(queue))
    OBVIOUS
  <2>4. sending' \in Seq(PartSet)
    BY <2>2, <2>3
  <2>5. Len(sending') <= 3
    BY <1>3, <2>3, Message
  <2> QED
    BY ONLY <2>4, <2>5 DEF SendingTypes
<1>11. InHand'
  BY <1>6, <1>9 DEF InHand
<1> QED
  BY <1>1, <1>2, <1>5, <1>6, <1>8, <1>9, <1>10, <1>11

(* What is to be sent is parts of messages.                                *)
LEMMA WhatIsSent ==
  ASSUME Base, spc = "send"
  PROVE  /\ sending \in Seq(WireParts) /\ Len(sending) \in Nat /\ Len(sending) >= 1 /\ Len(sending) <= 3
         /\ Taken \in Nat
         /\ \/ Taken \in Messages /\ sending = Parts(Taken)
            \/ torn /\ \A i \in 1 .. Len(sending) : sending[i] = Garbage
<1> USE DEF Base
<1>1. program \in Programs /\ produced \in 0 .. MaxMessages(program) /\ Len(queue) \in Nat /\ Taken \in Nat
  BY LenProperties DEF Counts, Queued
<1>2. CASE Taken >= 1 /\ sending = Parts(Taken)
  <2>1. Taken \in 1 .. MaxMessages(program)
    BY <1>1, <1>2, Limits DEF Taken
  <2>2. Taken \in Messages
    BY <1>1, <2>1, Limits
  <2>3. /\ Parts(Taken) \in Seq(WireParts) /\ Len(Parts(Taken)) \in Nat
        /\ Len(Parts(Taken)) >= 1 /\ Len(Parts(Taken)) <= 3
    BY <2>2, Message
  <2> QED
    BY <1>1, <1>2, <2>2, <2>3
<1>3. CASE Torn
  <2>1. sending \in Seq(PartSet) /\ Len(sending) \in Nat /\ sending # <<>> /\ Len(sending) <= 3
    BY <1>3, LenProperties DEF SendingTypes, Torn
  <2>2. Len(sending) \in Nat /\ Len(sending) >= 1 /\ Len(sending) <= 3
    BY <2>1, TakeFirst
  <2>3. \A i \in 1 .. Len(sending) : sending[i] \in WireParts
    BY <1>3 DEF Torn, WireParts
  <2>4. sending \in Seq(WireParts)
    BY <2>1, <2>3, LenProperties, IsASeq
  <2> QED
    BY <1>1, <1>3, <2>2, <2>4 DEF Torn
<1> QED
  BY <1>2, <1>3 DEF InHand

(* Parts are put on a wire.                                                *)
LEMMA Putting ==
  ASSUME Base, spc = "send", conn[event.fd].st = "up", NEW s \in Seq(WireParts),
         Len(s) <= RoomIn(conn[event.fd]),
         conn' = [conn EXCEPT ![event.fd].wire = @ \o s],
         ready' \subseteq ready \cup {event.fd}, UNCHANGED <<fd_ack_set, reading, program, sockfd>>
  PROVE  /\ (NetTypes /\ Connections /\ OneConnection)'
         /\ Wire(event.fd) \in Seq(WireParts)
         /\ conn'[event.fd].wire = Wire(event.fd) \o s
         /\ conn'[event.fd].st = "up" /\ conn'[event.fd].acks = conn[event.fd].acks
         /\ \A x \in Fds : x # event.fd => conn'[x] = conn[x]
<1> DEFINE fd == event.fd
           wire == Wire(fd) \o s
           c == [conn[fd] EXCEPT !.wire = wire]
<1>1. /\ fd \in Fds /\ conn[fd] \in ConnSet /\ Wire(fd) \in Seq(WireParts) /\ Len(Wire(fd)) \in Nat
  BY AtEvent DEF Busy
<1>2. wire \in Seq(WireParts) /\ Len(wire) = Len(Wire(fd)) + Len(s) /\ Len(s) \in Nat
  BY <1>1, JoinSeq, LenProperties
<1>3. wire \in Seq(PartSet)
  BY <1>2, SpecialParts, SeqMonotonic
<1>4. c \in ConnSet /\ c.wire = wire /\ c.st = "up" /\ c.acks = conn[fd].acks
  <2> HIDE DEF wire, fd
  <2>1. conn[fd] \in ConnSet /\ wire \in Seq(PartSet)
    BY <1>1, <1>3
  <2>2. c \in ConnSet /\ c.wire = wire /\ c.st = conn[fd].st /\ c.acks = conn[fd].acks
    BY ONLY <2>1 DEF ConnSet
  <2>3. conn[fd].st = "up"
    BY DEF fd
  <2> QED
    BY <2>2, <2>3
<1>5. Len(wire) <= WireRoom
  BY <1>1, <1>2, SenderAssumption DEF RoomIn, Wire
<1>6. conn' = [conn EXCEPT ![fd] = c]
  BY DEF Wire
<1> HIDE DEF c
<1>7. NetTypes' /\ conn'[fd] = c /\ \A x \in Fds : x # fd => conn'[x] = conn[x]
  <2>1. NetTypes /\ Len(c.wire) <= WireRoom /\ c.st # "none"
    BY <1>4, <1>5 DEF Base
  <2> QED
    BY <1>1, <1>4, <1>6, <2>1, OneChanges
<1> HIDE DEF wire, fd
<1>8. Connections'
  BY <1>1, <1>2, <1>4, <1>7 DEF Base, Connections, Wire
<1>9. OneConnection'
  BY <1>1, <1>4, <1>7, AtEvent DEF Base, OneConnection, Open, fd, Busy
<1>10. conn'[event.fd].wire = Wire(event.fd) \o s
  BY <1>4, <1>7 DEF wire, fd
<1> QED
  BY <1>1, <1>4, <1>7, <1>8, <1>9, <1>10 DEF fd

LEMMA SendAllBase ==
  ASSUME Base, SendAll
  PROVE  /\ Base' /\ Taken' = Taken
         /\ sending \in Seq(WireParts)
         /\ Wire(event.fd) \in Seq(WireParts) /\ conn'[event.fd].wire = Wire(event.fd) \o sending
         /\ conn'[event.fd].st = "up" /\ conn'[event.fd].acks = conn[event.fd].acks
         /\ \A x \in Fds : x # event.fd => conn'[x] = conn[x]
<1> USE DEF SendAll, queueVars, serverVars
<1>1. spc \in Busy /\ sending \in Seq(WireParts) /\ Len(sending) <= RoomIn(conn[event.fd])
      /\ conn[event.fd].st = "up" /\ spc = "send"
  BY WhatIsSent DEF Busy
<1>2. ready' \subseteq ready \cup {event.fd} /\ mode' = [mode EXCEPT ![event.fd] = "read"]
      /\ spc' = "events" /\ event' = NoEvent /\ sending' = <<>>
  BY DEF SetRead
<1>3. /\ (NetTypes /\ Connections /\ OneConnection)'
      /\ Wire(event.fd) \in Seq(WireParts)
      /\ conn'[event.fd].wire = Wire(event.fd) \o sending
      /\ conn'[event.fd].st = "up" /\ conn'[event.fd].acks = conn[event.fd].acks
      /\ \A x \in Fds : x # event.fd => conn'[x] = conn[x]
  BY <1>1, <1>2, Putting
<1>4. Events'
  BY <1>1, <1>2, <1>3, EventDone
<1>5. LoopTypes' /\ SendingTypes'
  <2>1. LoopTypes'
    BY <1>2 DEF Base, LoopTypes
  <2>2. SendingTypes'
    BY <1>2, NoParts DEF SendingTypes
  <2> QED
    BY <2>1, <2>2
<1>6. (Counts /\ ServerTypes /\ Queued /\ ReadFromCleared)' /\ Taken' = Taken
  BY DEF Base, Counts, ServerTypes, Queued, Taken, ReadFromCleared
<1>7. Flags'
  BY DEF Base, Flags
<1>8. InHand'
  BY <1>2 DEF InHand
<1> QED
  BY <1>1, <1>3, <1>4, <1>5, <1>6, <1>7, <1>8 DEF Base

LEMMA SendPartBase ==
  ASSUME Base, SendPart
  PROVE  /\ Base' /\ Taken' = Taken
         /\ \A x \in Fds : x # event.fd => conn'[x] = conn[x]
         /\ Wire(event.fd) \in Seq(WireParts) /\ sending \in Seq(WireParts) /\ event.fd \in Fds
         /\ \E n \in 1 .. Len(sending) - 1 :
               conn'[event.fd].wire = Wire(event.fd) \o SubSeq(sending, 1, n)
         /\ sending' # <<>> /\ \A i \in 1 .. Len(sending') : sending'[i] = Garbage
<1> USE DEF SendPart, queueVars, serverVars
<1>1. spc \in Busy /\ sending \in Seq(WireParts) /\ spc = "send" /\ conn[event.fd].st = "up"
      /\ Len(sending) \in Nat /\ Len(sending) <= 3
  BY WhatIsSent DEF Busy
<1>2. PICK n \in 1 .. Len(sending) - 1 :
         /\ n <= RoomIn(conn[event.fd])
         /\ conn' = [conn EXCEPT ![event.fd].wire = @ \o SubSeq(sending, 1, n)]
         /\ sending' = [i \in 1 .. Len(sending) - n |-> Garbage]
  OBVIOUS
<1> DEFINE s == SubSeq(sending, 1, n)
           rest == Len(sending) - n
<1>3. n \in 1 .. Len(sending) /\ rest \in Nat /\ rest >= 1 /\ rest <= 3
  BY <1>1
<1>4. s \in Seq(WireParts) /\ Len(s) = n
  BY <1>1, <1>3, FirstPart
<1>5. Len(s) <= RoomIn(conn[event.fd]) /\ conn' = [conn EXCEPT ![event.fd].wire = @ \o s]
  BY <1>2, <1>4
<1> HIDE DEF s, rest
<1>6. /\ (NetTypes /\ Connections /\ OneConnection)'
      /\ Wire(event.fd) \in Seq(WireParts)
      /\ conn'[event.fd].wire = Wire(event.fd) \o s
      /\ conn'[event.fd].st = "up"
      /\ \A x \in Fds : x # event.fd => conn'[x] = conn[x]
  <2>1. ready' \subseteq ready \cup {event.fd} /\ UNCHANGED <<fd_ack_set, reading, program, sockfd>>
    OBVIOUS
  <2> QED
    BY ONLY Base, <1>1, <1>4, <1>5, <2>1, Putting
<1>7. sending' = [i \in 1 .. rest |-> Garbage]
  BY <1>2 DEF rest
<1>8. sending' \in Seq(PartSet) /\ Len(sending') = rest /\ \A i \in 1 .. rest : sending'[i] = Garbage
  BY ONLY <1>3, <1>7, SpecialParts
<1>9. SendingTypes'
  BY <1>3, <1>8 DEF SendingTypes
<1>10. sending' # <<>> /\ \A i \in 1 .. Len(sending') : sending'[i] = Garbage
  BY <1>3, <1>8, NoParts
<1>11. InHand'
  BY <1>1, <1>10 DEF InHand, Torn
<1>12. (Counts /\ LoopTypes /\ ServerTypes /\ Queued /\ ReadFromCleared)' /\ Taken' = Taken
  BY DEF Base, Counts, LoopTypes, ServerTypes, Queued, Taken, ReadFromCleared
<1>13. Flags'
  BY DEF Base, Flags
<1>14. Events'
  <2>1. \A e \in batch : e.fd \in Fds /\ e.fd # event.fd
    BY <1>1 DEF Base, LoopTypes, Events
  <2>2. event.fd \in Fds /\ conn[event.fd].st = "up"
    BY <1>1, AtEvent
  <2> QED
    BY <1>1, <1>6, <2>1, <2>2 DEF Base, Events, Open, Busy
<1>15. event.fd \in Fds
  BY <1>1, AtEvent
<1> QED
  BY <1>1, <1>2, <1>6, <1>9, <1>10, <1>11, <1>12, <1>13, <1>14, <1>15 DEF Base, s

LEMMA FailToSendBase ==
  ASSUME Base, FailToSend
  PROVE  Base' /\ Taken' = Taken
<1> USE DEF FailToSend, queueVars, serverVars
<1>1. spc \in Busy /\ spc = "send"
  BY DEF Busy
<1>2. /\ ready' \subseteq ready \cup {event.fd} /\ mode' = [mode EXCEPT ![event.fd] = "read"]
      /\ spc' = "events" /\ event' = NoEvent /\ sending' = <<>> /\ conn' = conn
  BY DEF SetRead
<1>3. event.fd \in Fds /\ Open(event.fd)
  BY <1>1, AtEvent
<1>4. (Connections /\ OneConnection /\ Counts /\ ServerTypes /\ Queued /\ ReadFromCleared)' /\ Taken' = Taken
  <2>1. (Connections /\ OneConnection)'
    BY <1>2 DEF Base, Connections, Wire, OneConnection, Open
  <2>2. (Counts /\ ServerTypes /\ Queued /\ ReadFromCleared)' /\ Taken' = Taken
    BY <1>2 DEF Base, Counts, ServerTypes, Queued, Taken, ReadFromCleared
  <2> QED
    BY <2>1, <2>2
<1>5. NetTypes'
  BY <1>2, <1>3 DEF Base, NetTypes, Wire, Open
<1>6. Events'
  BY <1>1, <1>2, EventDone
<1>7. LoopTypes'
  BY <1>2 DEF Base, LoopTypes
<1>8. SendingTypes' /\ InHand'
  BY <1>2, NoParts DEF SendingTypes, InHand
<1>9. Flags'
  BY Zenon DEF Base, Flags
<1> QED
  BY <1>4, <1>5, <1>6, <1>7, <1>8, <1>9 DEF Base

LEMMA DropAcksBase ==
  ASSUME Base, DropAcks
  PROVE  Base' /\ \A x \in Fds : Wire(x)' = Wire(x)
<1> USE DEF DropAcks, queueVars, serverVars
<1>1. spc \in Busy /\ spc # "send"
  BY DEF Busy
<1> DEFINE c == [conn[event.fd] EXCEPT !.acks = 0]
<1>2. event.fd \in Fds /\ conn[event.fd] \in ConnSet /\ Open(event.fd) /\ Len(Wire(event.fd)) <= WireRoom
  BY <1>1, AtEvent
<1>3. c \in ConnSet /\ c.wire = Wire(event.fd) /\ c.st = conn[event.fd].st
  <2>1. 0 \in 0 .. AckRoom
    BY SenderAssumption
  <2> QED
    BY <1>2, <2>1, Updates DEF Wire
<1>4. conn' = [conn EXCEPT ![event.fd] = c]
  <2>1. conn' = [conn EXCEPT ![event.fd].acks = 0]
    OBVIOUS
  <2> QED
    BY ONLY <2>1
<1> HIDE DEF c
<1>5. NetTypes' /\ conn'[event.fd] = c /\ \A x \in Fds : x # event.fd => conn'[x] = conn[x]
  <2>1. NetTypes /\ c.st # "none" /\ Len(c.wire) <= WireRoom
    BY <1>2, <1>3 DEF Base, Open
  <2>2. ready' = ready
    OBVIOUS
  <2> HIDE DEF DropAcks
  <2> QED
    BY <1>2, <1>3, <1>4, <2>1, <2>2, OneChanges
<1>6. \A x \in Fds : conn'[x].wire = conn[x].wire /\ conn'[x].st = conn[x].st
  BY <1>3, <1>5 DEF Wire
<1>7. Connections' /\ OneConnection'
  BY <1>2, <1>3, <1>5, <1>6 DEF Base, Connections, OneConnection, Wire, Open
<1>8. Events' /\ LoopTypes'
  BY <1>1, <1>5, EventDone
<1>9. (Counts /\ SendingTypes /\ ServerTypes /\ Queued /\ ReadFromCleared)'
  BY DEF Base, Counts, SendingTypes, ServerTypes, Queued, Taken, ReadFromCleared
<1>10. InHand'
  BY <1>1 DEF Base, InHand
<1>11. Flags'
  BY DEF Base, Flags
<1> QED
  BY <1>5, <1>6, <1>7, <1>8, <1>9, <1>10, <1>11 DEF Base, Wire

(* The descriptor of the new connection is that of the old one.            *)
LEMMA SameFd ==
  ASSUME Base, program = "log_sender", spc \in Busy
  PROVE  event.fd = sockfd /\ NewFd(event.fd) = sockfd
<1>1. event.fd \in Fds /\ Open(event.fd)
  BY AtEvent
<1>2. sockfd = Min(Fds) /\ \A fd \in Fds : Open(fd) => fd = sockfd
  BY DEF Base, OneConnection
<1>3. event.fd = sockfd
  BY <1>1, <1>2
<1>4. {x \in Fds : ~ Open(x)} \cup {sockfd} = Fds
  BY <1>1, <1>2, <1>3
<1> QED
  BY <1>2, <1>3, <1>4 DEF NewFd

LEMMA ReconnectBase ==
  ASSUME Base, Reconnect
  PROVE  /\ Base' /\ event.fd \in Fds /\ conn[event.fd].st = "ended"
         /\ conn'[event.fd] = Connecting /\ \A x \in Fds : x # event.fd => conn'[x] = conn[x]
<1> USE DEF Reconnect, queueVars
<1>1. spc \in Busy /\ spc # "send" /\ program = "log_sender" /\ event.hup
  BY DEF Busy
<1>2. event.fd \in Fds /\ Open(event.fd) /\ conn[event.fd].st = "ended"
  BY <1>1, AtEvent
<1>3. NewFd(event.fd) = event.fd
  BY <1>1, SameFd
<1>4. conn' = [conn EXCEPT ![event.fd] = Connecting]
  BY <1>2, <1>3 DEF Closed, Base, NetTypes
<1>5. /\ (NetTypes /\ ServerTypes /\ Connections /\ OneConnection /\ ReadFromCleared)'
      /\ conn'[event.fd] = Connecting /\ \A x \in Fds : x # event.fd => conn'[x] = conn[x]
  BY <1>2, <1>4, Closing
<1>6. Events'
  BY <1>1, <1>5, EventDone
<1>7. LoopTypes'
  BY <1>3 DEF Base, LoopTypes
<1>8. (Counts /\ SendingTypes /\ Queued)'
  BY DEF Base, Counts, SendingTypes, Queued, Taken
<1>9. Flags'
  BY DEF Base, Flags
<1>10. InHand'
  BY <1>1 DEF Base, InHand
<1> QED
  BY <1>2, <1>5, <1>6, <1>7, <1>8, <1>9, <1>10 DEF Base

LEMMA CloseShortBase ==
  ASSUME Base, CloseShort
  PROVE  /\ Base' /\ event.fd \in Fds
         /\ conn'[event.fd] = NoConn /\ \A x \in Fds : x # event.fd => conn'[x] = conn[x]
<1> USE DEF CloseShort, queueVars
<1>1. spc \in Busy /\ spc # "send" /\ batch' \subseteq batch
  BY DEF Busy
<1>2. event.fd \in Fds
  BY <1>1, AtEvent
<1>3. /\ (NetTypes /\ ServerTypes /\ Connections /\ OneConnection /\ ReadFromCleared)'
      /\ conn'[event.fd] = NoConn /\ \A x \in Fds : x # event.fd => conn'[x] = conn[x]
  BY <1>2, Closing DEF Closed
<1>4. Events' /\ LoopTypes'
  BY <1>1, <1>3, EventDone
<1>5. (Counts /\ SendingTypes /\ Queued)'
  BY DEF Base, Counts, SendingTypes, Queued, Taken
<1>6. Flags'
  BY DEF Base, Flags
<1>7. InHand'
  BY <1>1 DEF Base, InHand
<1> QED
  BY <1>2, <1>3, <1>4, <1>5, <1>6, <1>7 DEF Base

LEMMA EndEventsBase ==
  ASSUME Base, EndEvents
  PROVE  Base' /\ \A x \in Fds : Wire(x)' = Wire(x) /\ (Open(x) => conn'[x] = conn[x])
<1> USE DEF EndEvents, queueVars, serverVars
<1>1. \A x \in Fds : /\ ~ Open(x) => conn[x] = NoConn
                     /\ conn'[x] = conn[x] \/ (program # "log_sender" /\ ~ Open(x) /\ conn'[x] = Connecting)
  <2>1. \A x \in Fds : ~ Open(x) => conn[x] = NoConn
    BY DEF Base, Connections, Open
  <2> QED
    BY <2>1
<1>2. conn' \in [Fds -> ConnSet]
  BY Records DEF Base, NetTypes
<1>3. \A x \in Fds : conn'[x].wire = conn[x].wire
  <2>1. NoConn.wire = <<>> /\ Connecting.wire = <<>>
    BY Records
  <2>2. SUFFICES ASSUME NEW x \in Fds PROVE conn'[x].wire = conn[x].wire
    OBVIOUS
  <2>3. CASE conn'[x] = conn[x]
    BY <2>3
  <2>4. CASE conn[x] = NoConn /\ conn'[x] = Connecting
    BY <2>1, <2>4, Zenon
  <2> QED
    BY <1>1, <2>3, <2>4, Zenon
<1>4. NetTypes'
  <2>1. \A x \in ready : Open(x) /\ x \in Fds
    BY DEF Base, NetTypes
  <2> QED
    BY <1>1, <1>2, <1>3, <2>1 DEF Base, NetTypes, Wire, Open
<1>5. Connections'
  <2>1. SUFFICES ASSUME NEW x \in Fds
                 PROVE  /\ conn'[x].wire \in Seq(WireParts)
                        /\ conn'[x].st = "none" => conn'[x] = NoConn
                        /\ conn'[x].wire # <<>> \/ x \in fd_ack_set \/ reading = x => conn'[x].st = "up"
    BY DEF Connections, Wire
  <2>2. /\ conn[x].wire \in Seq(WireParts)
        /\ conn[x].st = "none" => conn[x] = NoConn
        /\ conn[x].wire # <<>> \/ x \in fd_ack_set \/ reading = x => conn[x].st = "up"
    BY DEF Base, Connections, Wire
  <2> QED
    BY <1>1, <2>2, Records DEF Open
<1>6. OneConnection'
  BY <1>1 DEF Base, OneConnection, Open
<1>7. Events'
  BY DEF Base, Events, Busy
<1>8. LoopTypes'
  BY DEF Base, LoopTypes, Busy
<1>9. (Counts /\ SendingTypes /\ ServerTypes /\ Queued /\ ReadFromCleared /\ InHand)'
  BY DEF Base, Counts, SendingTypes, ServerTypes, Queued, Taken, ReadFromCleared, InHand
<1>10. Flags'
  BY DEF Base, Flags
<1> QED
  BY <1>1, <1>3, <1>4, <1>5, <1>6, <1>7, <1>8, <1>9, <1>10 DEF Base, Wire

LEMMA SetWriteBase ==
  ASSUME Base, SetWrite
  PROVE  Base'
<1> USE DEF SetWrite, queueVars, serverVars
<1>1. (Counts /\ SendingTypes /\ ServerTypes /\ Queued /\ ReadFromCleared)'
  BY DEF Base, Counts, SendingTypes, ServerTypes, Queued, Taken, ReadFromCleared
<1>2. Flags'
  BY DEF Base, Flags
<1>3. (Connections /\ OneConnection)'
  BY DEF Base, Connections, Wire, OneConnection, Open
<1>4. sockfd \in Fds /\ ready' \subseteq ready \cup {sockfd} /\ (ready' \subseteq ready \/ Open(sockfd))
  BY DEF Base, LoopTypes
<1>5. NetTypes'
  BY <1>4 DEF Base, NetTypes, Wire, Open
<1>6. spc' \in {"wait", "exited"}
  OBVIOUS
<1>7. LoopTypes'
  BY <1>4, <1>6 DEF Base, LoopTypes, Busy
<1>8. Events' /\ InHand'
  BY <1>6 DEF Base, Events, Busy, InHand
<1> QED
  BY <1>1, <1>2, <1>3, <1>5, <1>7, <1>8 DEF Base

LEMMA EstablishBase ==
  ASSUME Base, NEW fd \in Fds, Establish(fd)
  PROVE  /\ Base' /\ conn'[fd].wire = conn[fd].wire /\ conn'[fd].acks = conn[fd].acks
         /\ conn'[fd].st = "up"
         /\ \A x \in Fds : x # fd => conn'[x] = conn[x]
<1> USE DEF Establish, queueVars, serverVars, loopVars
<1> DEFINE c == [conn[fd] EXCEPT !.st = "up"]
<1>1. conn[fd] \in ConnSet /\ Len(conn[fd].wire) <= WireRoom /\ conn[fd].st = "connecting"
  BY DEF Base, NetTypes, Wire
<1>2. c \in ConnSet /\ c.wire = conn[fd].wire /\ c.st = "up" /\ c.acks = conn[fd].acks
  BY <1>1, Updates
<1>3. conn' = [conn EXCEPT ![fd] = c]
  OBVIOUS
<1> HIDE DEF c
<1>4. NetTypes' /\ conn'[fd] = c /\ \A x \in Fds : x # fd => conn'[x] = conn[x]
  <2>1. NetTypes /\ Len(c.wire) <= WireRoom /\ c.st # "none"
    BY <1>1, <1>2 DEF Base
  <2>2. ready' \subseteq ready \cup {fd}
    OBVIOUS
  <2> QED
    BY <1>2, <1>3, <2>1, <2>2, OneChanges
<1>5. Connections'
  BY <1>1, <1>2, <1>4 DEF Base, Connections, Wire
<1>6. OneConnection'
  BY <1>1, <1>2, <1>4 DEF Base, OneConnection, Open
<1>7. (Counts /\ LoopTypes /\ SendingTypes /\ ServerTypes /\ Queued /\ ReadFromCleared /\ InHand)'
  BY DEF Base, Counts, LoopTypes, SendingTypes, ServerTypes, Queued, Taken, ReadFromCleared, InHand, Torn
<1>8. Flags'
  BY DEF Base, Flags
<1>9. Events'
  <2>1. \A x \in Fds : Open(x) => Open(x)'
    BY <1>2, <1>4 DEF Open
  <2>2. \A x \in Fds : conn[x].st = "ended" => conn'[x].st = "ended"
    BY <1>1, <1>4
  <2>3. \A e \in batch : e.fd \in Fds
    BY DEF Base, LoopTypes
  <2> QED
    BY <2>1, <2>2, <2>3 DEF Base, Events, Busy
<1> QED
  BY <1>2, <1>4, <1>5, <1>6, <1>7, <1>8, <1>9 DEF Base

LEMMA RefuseBase ==
  ASSUME Base, NEW fd \in Fds, Refuse(fd)
  PROVE  /\ Base' /\ conn'[fd].wire = conn[fd].wire /\ conn'[fd].acks = conn[fd].acks
         /\ conn'[fd].st = "ended"
         /\ \A x \in Fds : x # fd => conn'[x] = conn[x]
<1> USE DEF Refuse, queueVars, serverVars, loopVars
<1> DEFINE c == [conn[fd] EXCEPT !.st = "ended"]
<1>1. conn[fd] \in ConnSet /\ Len(conn[fd].wire) <= WireRoom /\ conn[fd].st = "connecting"
  BY DEF Base, NetTypes, Wire
<1>2. c \in ConnSet /\ c.wire = conn[fd].wire /\ c.st = "ended" /\ c.acks = conn[fd].acks
  BY <1>1, Updates
<1>3. conn' = [conn EXCEPT ![fd] = c]
  OBVIOUS
<1> HIDE DEF c
<1>4. NetTypes' /\ conn'[fd] = c /\ \A x \in Fds : x # fd => conn'[x] = conn[x]
  <2>1. NetTypes /\ Len(c.wire) <= WireRoom /\ c.st # "none"
    BY <1>1, <1>2 DEF Base
  <2>2. ready' \subseteq ready \cup {fd}
    OBVIOUS
  <2> QED
    BY <1>2, <1>3, <2>1, <2>2, OneChanges
<1>5. Connections'
  BY <1>1, <1>2, <1>4 DEF Base, Connections, Wire
<1>6. OneConnection'
  BY <1>1, <1>2, <1>4 DEF Base, OneConnection, Open
<1>7. (Counts /\ LoopTypes /\ SendingTypes /\ ServerTypes /\ Queued /\ ReadFromCleared /\ InHand)'
  BY DEF Base, Counts, LoopTypes, SendingTypes, ServerTypes, Queued, Taken, ReadFromCleared, InHand, Torn
<1>8. Flags'
  BY DEF Base, Flags
<1>9. Events'
  <2>1. \A x \in Fds : Open(x) => Open(x)'
    BY <1>2, <1>4 DEF Open
  <2>2. \A x \in Fds : conn[x].st = "ended" => conn'[x].st = "ended"
    BY <1>2, <1>4
  <2>3. \A e \in batch : e.fd \in Fds
    BY DEF Base, LoopTypes
  <2> QED
    BY <2>1, <2>2, <2>3 DEF Base, Events, Busy
<1> QED
  BY <1>2, <1>4, <1>5, <1>6, <1>7, <1>8, <1>9 DEF Base

LEMMA CrashBase ==
  ASSUME Base, Crash
  PROVE  /\ Base'
         /\ \A x \in Fds : IF conn[x].st = "up"
                             THEN /\ conn'[x].wire = <<>> /\ conn'[x].st = "ended" /\ x \in ready'
                                  /\ Wire(x) # <<>> => broken'
                                  /\ conn'[x].acks = conn[x].acks
                             ELSE conn'[x] = conn[x]
         /\ \A x \in ready' : x \in ready \/ conn'[x].st = "ended"
<1> USE DEF Crash, queueVars, loopVars
<1> DEFINE had == {x \in Fds : conn[x].st = "up"}
<1>1. \A x \in Fds : conn[x] \in ConnSet /\ Len(conn[x].wire) <= WireRoom
  BY DEF Base, NetTypes, Wire
<1>2. conn' = [x \in Fds |-> IF x \in had THEN [conn[x] EXCEPT !.st = "ended", !.wire = <<>>] ELSE conn[x]]
      /\ ready' = ready \cup had /\ broken' = (broken \/ \E fd \in had : conn[fd].wire # <<>>)
  OBVIOUS
<1>3. \A c \in ConnSet : LET d == [c EXCEPT !.st = "ended", !.wire = <<>>]
                         IN  d \in ConnSet /\ d.st = "ended" /\ d.wire = <<>> /\ d.acks = c.acks
  BY NoParts DEF ConnSet
<1>4. \A x \in Fds : conn[x].st # "up" => conn'[x] = conn[x]
  BY <1>2
<1>5. \A x \in Fds : conn[x].st = "up" => /\ conn'[x] \in ConnSet /\ conn'[x].wire = <<>> /\ conn'[x].st = "ended"
                                          /\ conn'[x].acks = conn[x].acks
  <2>1. SUFFICES ASSUME NEW x \in Fds, conn[x].st = "up"
                 PROVE  /\ conn'[x] \in ConnSet /\ conn'[x].wire = <<>> /\ conn'[x].st = "ended"
                        /\ conn'[x].acks = conn[x].acks
    OBVIOUS
  <2>2. conn'[x] = [conn[x] EXCEPT !.st = "ended", !.wire = <<>>]
    BY <1>2, <2>1
  <2> QED
    BY <1>1, <1>3, <2>1, <2>2, Zenon
<1>6. NetTypes'
  <2>1. conn' \in [Fds -> ConnSet]
    BY <1>1, <1>2, <1>4, <1>5
  <2>2. \A x \in Fds : Len(conn'[x].wire) <= WireRoom
    <3> DEFINE n == Len(<<>>)
    <3>1. n = 0
      BY NoParts
    <3> HIDE DEF n
    <3>2. n <= WireRoom
      BY ONLY <3>1, Rooms
    <3> QED
      BY <1>1, <1>4, <1>5, <3>2, Zenon DEF n
  <2>3. ready' \subseteq Fds /\ \A x \in ready' : conn'[x].st # "none"
    BY <1>2, <1>4, <1>5 DEF Base, NetTypes, Open
  <2> QED
    BY <2>1, <2>2, <2>3 DEF NetTypes, Wire, Open
<1>7. Connections'
  <2>1. SUFFICES ASSUME NEW x \in Fds
                 PROVE  /\ conn'[x].wire \in Seq(WireParts)
                        /\ conn'[x].st = "none" => conn'[x] = NoConn
                        /\ conn'[x].wire # <<>> \/ x \in fd_ack_set' \/ reading' = x => conn'[x].st = "up"
    BY DEF Connections, Wire
  <2>2. x # NoFd
    BY SenderAssumption DEF NoFd
  <2> QED
    BY <1>4, <1>5, <2>2, NoParts DEF Base, Connections, Wire
<1>8. OneConnection'
  BY <1>4, <1>5 DEF Base, OneConnection, Open
<1>9. ServerTypes' /\ ReadFromCleared'
  BY SpecialParts DEF Base, ServerTypes, ReadFromCleared
<1>10. Counts'
  <2>1. MaxCrashes \in Nat
    BY SenderAssumption
  <2>2. crashes' \in 0 .. MaxCrashes
    <3>1. crashes \in 0 .. MaxCrashes
      BY DEF Base, Counts
    <3>2. crashes' = crashes + 1 /\ crashes < MaxCrashes
      OBVIOUS
    <3> QED
      BY ONLY <2>1, <3>1, <3>2
  <2> QED
    BY <2>2 DEF Base, Counts
<1>11. (LoopTypes /\ SendingTypes /\ Queued /\ InHand)'
  BY DEF Base, LoopTypes, SendingTypes, Queued, Taken, InHand, Torn
<1>12. Flags'
  <2>1. broken' \in BOOLEAN
    BY <1>2, Zenon DEF Base, Flags
  <2> QED
    BY <2>1, Zenon DEF Base, Flags
<1>13. Events'
  <2>1. \A x \in Fds : /\ Open(x) => Open(x)'
                       /\ conn[x].st = "ended" => conn'[x].st = "ended"
    BY <1>4, <1>5 DEF Open
  <2>2. \A e \in batch : e.fd \in Fds
    BY DEF Base, LoopTypes
  <2> QED
    BY <2>1, <2>2 DEF Base, Events, Busy
<1>14. \A x \in had : x \in ready' /\ (Wire(x) # <<>> => broken')
  BY <1>2, Zenon DEF Wire
<1>15. \A x \in ready' : x \in ready \/ conn'[x].st = "ended"
  BY <1>2, <1>5
<1> QED
  BY <1>4, <1>5, <1>6, <1>7, <1>8, <1>9, <1>10, <1>11, <1>12, <1>13, <1>14, <1>15 DEF Base

LEMMA RestartBase ==
  ASSUME Base, Restart
  PROVE  Base'
<1> USE DEF Restart, netVars, loopVars, queueVars, serverVars
<1>1. (Counts /\ NetTypes /\ LoopTypes /\ SendingTypes /\ ServerTypes)'
  BY DEF Base, Counts, NetTypes, Wire, Open, LoopTypes, SendingTypes, ServerTypes
<1>2. Flags'
  BY DEF Base, Flags
<1>3. (Queued /\ Connections /\ Events /\ InHand /\ OneConnection /\ ReadFromCleared)'
  BY DEF Base, Queued, Taken, Connections, Wire, Events, Open, InHand, Torn, OneConnection, ReadFromCleared
<1> QED
  BY <1>1, <1>2, <1>3 DEF Base

LEMMA BeginReadBase ==
  ASSUME Base, NEW fd \in Fds, BeginRead(fd)
  PROVE  Base' /\ reading = NoFd /\ msg_rscv_buffer = Cleared /\ Wire(fd) # <<>>
<1> USE DEF BeginRead, netVars, loopVars, queueVars
<1>1. (Counts /\ NetTypes /\ LoopTypes /\ SendingTypes /\ ServerTypes /\ Flags)'
  BY DEF Base, Counts, NetTypes, Wire, Open, LoopTypes, SendingTypes, ServerTypes, Flags
<1>2. (Queued /\ Events /\ InHand /\ OneConnection)'
  BY DEF Base, Queued, Taken, Events, Open, InHand, Torn, OneConnection
<1>3. (Connections /\ ReadFromCleared)'
  BY SenderAssumption DEF Base, Connections, Wire, ReadFromCleared, NoFd
<1>4. reading = NoFd /\ msg_rscv_buffer = Cleared /\ Wire(fd) # <<>>
  BY DEF Base, ReadFromCleared, Wire
<1> QED
  BY <1>1, <1>2, <1>3, <1>4 DEF Base

LEMMA RecvNothingBase ==
  ASSUME Base, NEW fd \in Fds, RecvNothing(fd)
  PROVE  Base'
<1> USE DEF RecvNothing, netVars, loopVars, queueVars
<1>1. (Counts /\ NetTypes /\ LoopTypes /\ SendingTypes /\ Flags)'
  BY DEF Base, Counts, NetTypes, Wire, Open, LoopTypes, SendingTypes, Flags
<1>2. (Queued /\ Events /\ InHand /\ OneConnection)'
  BY DEF Base, Queued, Taken, Events, Open, InHand, Torn, OneConnection
<1>3. (ServerTypes /\ ReadFromCleared)'
  BY SpecialParts DEF Base, ServerTypes, ReadFromCleared
<1>4. Connections'
  BY SenderAssumption DEF Base, Connections, Wire, NoFd
<1> QED
  BY <1>1, <1>2, <1>3, <1>4 DEF Base

LEMMA Ack_to_fdBase ==
  ASSUME Base, NEW fd \in Fds, Ack_to_fd(fd)
  PROVE  /\ Base' /\ \A x \in Fds : Wire(x)' = Wire(x)
         /\ conn'[fd].st = conn[fd].st /\ conn'[fd].acks > 0
         /\ \A x \in Fds : x # fd => conn'[x] = conn[x]
<1> USE DEF Ack_to_fd, queueVars, loopVars
<1> DEFINE c == [conn[fd] EXCEPT !.acks = @ + 1]
<1>1. conn[fd] \in ConnSet /\ Len(conn[fd].wire) <= WireRoom /\ conn[fd].st = "up"
  BY DEF Base, NetTypes, Wire, Connections
<1>2. conn[fd].acks + 1 \in 0 .. AckRoom /\ conn[fd].acks + 1 > 0
  <2>1. conn[fd].acks \in 0 .. AckRoom /\ conn[fd].acks < AckRoom
    BY <1>1, Records
  <2> QED
    BY ONLY <2>1, Rooms
<1>3. c \in ConnSet /\ c.wire = conn[fd].wire /\ c.st = "up" /\ c.acks > 0
  BY <1>1, <1>2, Updates
<1>4. conn' = [conn EXCEPT ![fd] = c]
  OBVIOUS
<1> HIDE DEF c
<1>5. NetTypes' /\ conn'[fd] = c /\ \A x \in Fds : x # fd => conn'[x] = conn[x]
  <2>1. NetTypes /\ Len(c.wire) <= WireRoom /\ c.st # "none"
    BY <1>1, <1>3 DEF Base
  <2>2. ready' \subseteq ready \cup {fd}
    OBVIOUS
  <2> QED
    BY <1>3, <1>4, <2>1, <2>2, OneChanges
<1>6. \A x \in Fds : conn'[x].wire = conn[x].wire /\ conn'[x].st = conn[x].st
  BY <1>1, <1>3, <1>5
<1>7. Connections' /\ OneConnection'
  BY <1>1, <1>3, <1>5, <1>6 DEF Base, Connections, OneConnection, Wire, Open
<1>8. ServerTypes' /\ ReadFromCleared'
  BY DEF Base, ServerTypes, ReadFromCleared
<1>9. (Counts /\ LoopTypes /\ SendingTypes /\ Queued /\ InHand)'
  BY DEF Base, Counts, LoopTypes, SendingTypes, Queued, Taken, InHand, Torn
<1>10. Flags'
  BY DEF Base, Flags
<1>11. Events'
  <2>1. \A e \in batch : e.fd \in Fds
    BY DEF Base, LoopTypes
  <2> QED
    BY <1>6, <2>1 DEF Base, Events, Open, Busy
<1> QED
  BY <1>1, <1>3, <1>5, <1>6, <1>7, <1>8, <1>9, <1>10, <1>11 DEF Base, Wire

(* A recv of n parts.                                                      *)
Buffer(fd, n) == [i \in 1 .. 3 |-> IF i <= n THEN Wire(fd)[i] ELSE msg_rscv_buffer[i]]

RecvOf(fd, n) ==
    LET buffer == Buffer(fd, n) IN
    /\ n \in Nat /\ n >= 1 /\ n <= 3 /\ n <= Len(Wire(fd))
    /\ conn'[fd].wire = SubSeq(Wire(fd), n + 1, Len(Wire(fd)))
    /\ \/ /\ Begins(buffer) /\ (HasBlank(buffer[2]) \/ buffer[2] = Garbage)
          /\ stored' = Append(stored, Log(buffer))
          /\ msg_rscv_buffer' = IF n < 3 THEN Cleared ELSE AfterParse(buffer)
       \/ /\ ~ (Begins(buffer) /\ HasBlank(buffer[2]))
          /\ stored' = stored
          /\ msg_rscv_buffer' = IF n < 3 THEN Cleared ELSE buffer
    /\ cut' = (cut \/ (n < 3 /\ Wire(fd)[n].part # "pad"))
    /\ reading' = IF n < 3 THEN NoFd ELSE fd

LEMMA RecvBase ==
  ASSUME Base, NEW fd \in Fds, Recv(fd)
  PROVE  /\ Base' /\ reading = fd /\ \E n \in Nat : RecvOf(fd, n)
         /\ conn'[fd].st = "up" /\ conn'[fd].acks = conn[fd].acks
         /\ \A x \in Fds : x # fd => conn'[x] = conn[x]
<1> USE DEF queueVars, loopVars
<1>1. /\ reading = fd /\ conn[fd] \in ConnSet /\ conn[fd].st = "up" /\ Len(Wire(fd)) <= WireRoom
      /\ Wire(fd) \in Seq(WireParts) /\ Wire(fd) \in Seq(PartSet) /\ Len(Wire(fd)) \in Nat
  <2>1. reading = fd /\ conn[fd] \in ConnSet /\ conn[fd].st = "up" /\ Len(Wire(fd)) <= WireRoom
        /\ Wire(fd) \in Seq(WireParts)
    BY DEF Recv, Base, NetTypes, Connections
  <2> QED
    BY <2>1, Records, LenProperties DEF Wire
<1>2. PICK n \in 1 .. Min({BufferSize, Len(Wire(fd))}) :
         /\ conn' = [conn EXCEPT ![fd].wire = SubSeq(@, n + 1, Len(@))]
         /\ LET taken  == SubSeq(Wire(fd), 1, n)
                buffer == [i \in 1 .. 3 |-> IF i <= n THEN taken[i] ELSE msg_rscv_buffer[i]]
                kept(b) == IF n < BufferSize THEN Cleared ELSE b
            IN  /\ \/ /\ Begins(buffer) /\ (HasBlank(buffer[2]) \/ buffer[2] = Garbage)
                      /\ stored' = Append(stored, Log(buffer))
                      /\ msg_rscv_buffer' = kept(AfterParse(buffer))
                   \/ /\ ~ (Begins(buffer) /\ HasBlank(buffer[2]))
                      /\ stored' = stored
                      /\ msg_rscv_buffer' = kept(buffer)
                /\ cut' = (cut \/ (n < BufferSize /\ taken[n].part # "pad"))
         /\ reading' = IF n < BufferSize THEN NoFd ELSE fd
         /\ fd_ack_set' = fd_ack_set \cup {fd}
  BY DEF Recv, Wire
<1>3. n \in Nat /\ n >= 1 /\ n <= 3 /\ n <= Len(Wire(fd)) /\ n \in 1 .. Len(Wire(fd))
  BY <1>1, LeastOfTwo DEF BufferSize
<1> DEFINE taken == SubSeq(Wire(fd), 1, n)
           left == SubSeq(Wire(fd), n + 1, Len(Wire(fd)))
<1>4. \A i \in 1 .. n : taken[i] = Wire(fd)[i]
  BY <1>1, <1>3, FirstPart
<1>5. left \in Seq(WireParts) /\ left \in Seq(PartSet) /\ Len(left) = Len(Wire(fd)) - n
  BY <1>1, <1>3, LastPart
<1>6. [i \in 1 .. 3 |-> IF i <= n THEN taken[i] ELSE msg_rscv_buffer[i]] = Buffer(fd, n)
  <2> HIDE DEF taken
  <2>1. \A i \in 1 .. 3 : i <= n => taken[i] = Wire(fd)[i]
    BY <1>3, <1>4
  <2> QED
    BY <2>1 DEF Buffer
<1> DEFINE c == [conn[fd] EXCEPT !.wire = left]
<1>7. conn' = [conn EXCEPT ![fd] = c]
  BY <1>2 DEF Wire
<1>8. /\ \/ /\ Begins(Buffer(fd, n)) /\ (HasBlank(Buffer(fd, n)[2]) \/ Buffer(fd, n)[2] = Garbage)
            /\ stored' = Append(stored, Log(Buffer(fd, n)))
            /\ msg_rscv_buffer' = IF n < 3 THEN Cleared ELSE AfterParse(Buffer(fd, n))
         \/ /\ ~ (Begins(Buffer(fd, n)) /\ HasBlank(Buffer(fd, n)[2]))
            /\ stored' = stored
            /\ msg_rscv_buffer' = IF n < 3 THEN Cleared ELSE Buffer(fd, n)
      /\ cut' = (cut \/ (n < 3 /\ taken[n].part # "pad"))
      /\ reading' = IF n < 3 THEN NoFd ELSE fd
      /\ fd_ack_set' = fd_ack_set \cup {fd}
  BY <1>2, <1>6 DEF BufferSize
<1>9. taken[n] = Wire(fd)[n]
  BY <1>3, <1>4
<1> HIDE DEF taken, left
<1>10. c \in ConnSet /\ c.wire = left /\ c.st = "up" /\ c.acks = conn[fd].acks
  <2>1. conn[fd] \in ConnSet /\ left \in Seq(PartSet)
    BY <1>1, <1>5
  <2>2. c \in ConnSet /\ c.wire = left /\ c.st = conn[fd].st /\ c.acks = conn[fd].acks
    BY ONLY <2>1 DEF ConnSet
  <2> QED
    BY <1>1, <2>2
<1> HIDE DEF c
<1>11. NetTypes' /\ conn'[fd] = c /\ \A x \in Fds : x # fd => conn'[x] = conn[x]
  <2>1. NetTypes /\ Len(c.wire) <= WireRoom /\ c.st # "none"
    <3>1. NetTypes /\ c.st # "none"
      BY <1>10 DEF Base
    <3>2. Len(left) <= WireRoom
      BY <1>1, <1>3, <1>5, Rooms
    <3> QED
      BY <1>10, <3>1, <3>2
  <2>2. ready' \subseteq ready \cup {fd}
    BY DEF Recv
  <2> QED
    BY <1>7, <1>10, <2>1, <2>2, OneChanges
<1>12. RecvOf(fd, n)
  BY <1>3, <1>8, <1>9, <1>10, <1>11 DEF RecvOf, left
<1>13. Connections'
  <2>1. \A x \in Fds : /\ conn'[x].wire \in Seq(WireParts) /\ (conn'[x].st = "none" => conn'[x] = NoConn)
                       /\ (x # fd => conn'[x] = conn[x])
    BY <1>5, <1>10, <1>11 DEF Base, Connections, Wire
  <2>2. \A x \in Fds : x \in fd_ack_set' \/ reading' = x => x \in fd_ack_set \/ x = fd
    BY <1>8, Rooms
  <2> QED
    BY <1>10, <1>11, <2>1, <2>2 DEF Base, Connections, Wire
<1>14. OneConnection'
  <2>1. UNCHANGED <<program, sockfd>>
    BY DEF Recv
  <2> QED
    BY <1>1, <1>10, <1>11, <2>1 DEF Base, OneConnection, Open
<1>15. Buffer(fd, n) \in [1 .. 3 -> PartSet] /\ Buffer(fd, n)[1] = Wire(fd)[1] /\ Wire(fd)[1] \in WireParts
  <2>1. \A i \in 1 .. n : Wire(fd)[i] \in PartSet
    BY <1>1, <1>3, ElementOfSeq
  <2>2. msg_rscv_buffer \in [1 .. 3 -> PartSet]
    BY DEF Base, ServerTypes
  <2>3. Wire(fd)[1] \in WireParts
    BY <1>1, <1>3, ElementOfSeq
  <2> QED
    BY <1>3, <2>1, <2>2, <2>3 DEF Buffer
<1>16. ServerTypes'
  <2>1. msg_rscv_buffer' \in [1 .. 3 -> PartSet]
    BY <1>8, <1>15, SpecialParts DEF AfterParse
  <2>2. Log(Buffer(fd, n)) \in Messages \cup {Altered}
    BY <1>15, SpecialParts DEF Log, Altered
  <2>3. stored' \in Seq(Messages \cup {Altered})
    BY <1>8, <2>2, AddLast DEF Base, ServerTypes
  <2>4. reading' \in Fds \cup {NoFd} /\ fd_ack_set' \subseteq Fds
    BY <1>8 DEF Base, ServerTypes
  <2> QED
    BY <2>1, <2>3, <2>4 DEF ServerTypes
<1>17. ReadFromCleared'
  BY <1>8, Rooms DEF ReadFromCleared
<1>18. (Counts /\ LoopTypes /\ SendingTypes /\ Queued /\ InHand)'
  BY DEF Recv, Base, Counts, LoopTypes, SendingTypes, Queued, Taken, InHand, Torn
<1>19. Flags'
  <2>1. cut' \in BOOLEAN
    BY <1>8 DEF Base, Flags
  <2> QED
    BY <2>1 DEF Recv, Base, Flags
<1>20. Events'
  <2>1. \A x \in Fds : conn'[x].st = conn[x].st
    BY <1>1, <1>10, <1>11
  <2>2. \A e \in batch : e.fd \in Fds
    BY DEF Base, LoopTypes
  <2>3. UNCHANGED loopVars
    BY DEF Recv
  <2> QED
    BY <2>1, <2>2, <2>3 DEF Base, Events, Open, Busy
<1> QED
  BY <1>1, <1>10, <1>11, <1>12, <1>13, <1>14, <1>16, <1>17, <1>18, <1>19, <1>20 DEF Base

-----------------------------------------------------------------------------
(* What is on the wires, and what was stored.                              *)
LEMMA Hand ==
  ASSUME Base
  PROVE  /\ Taken \in Nat /\ Sent \in Nat /\ Sent <= Taken
         /\ Holding => /\ spc = "send" /\ Taken \in Messages /\ Taken >= 1
                       /\ sending = Parts(Taken) /\ Sent = Taken - 1
         /\ ~ Holding => Sent = Taken
         /\ spc = "send" /\ ~ Holding => torn /\ \A i \in 1 .. Len(sending) : sending[i] = Garbage
         /\ spc = "send" /\ ~ torn => Holding
<1>1. Taken \in Nat
  BY DEF Base, Queued
<1>2. CASE spc # "send"
  <2>1. sending = <<>>
    BY <1>2 DEF Base, InHand
  <2>2. ~ Holding
    BY <2>1 DEF Holding
  <2> QED
    BY <1>1, <1>2, <2>2 DEF Sent
<1>3. CASE spc = "send"
  <2>1. /\ sending \in Seq(WireParts) /\ Len(sending) \in Nat /\ Len(sending) >= 1
        /\ \/ Taken \in Messages /\ sending = Parts(Taken)
           \/ torn /\ \A i \in 1 .. Len(sending) : sending[i] = Garbage
    BY <1>3, WhatIsSent
  <2>2. CASE Taken \in Messages /\ sending = Parts(Taken)
    <3>1. sending[1].part = "begin" /\ sending # <<>> /\ Taken >= 1
      <4>1. Parts(Taken)[1] = Part(Taken, "begin") /\ Taken >= 1
        BY <1>1, <2>2, Message, SpecialParts
      <4>2. sending # <<>>
        BY <2>1, EmptySeq
      <4> QED
        BY <2>2, <4>1, <4>2, Fields
    <3>2. Holding
      BY <3>1 DEF Holding
    <3> QED
      BY <1>1, <1>3, <2>2, <3>1, <3>2 DEF Sent
  <2>3. CASE torn /\ \A i \in 1 .. Len(sending) : sending[i] = Garbage
    <3>1. sending[1] = Garbage
      BY <2>1, <2>3
    <3>2. ~ Holding
      BY <3>1, SpecialParts DEF Holding
    <3> QED
      BY <1>1, <1>3, <2>3, <3>2 DEF Sent
  <2> QED
    BY <2>1, <2>2, <2>3
<1> QED
  BY <1>2, <1>3

LEMMA SentNat == Base => Sent \in Nat
BY Hand

LEMMA SentStays == Base' => (Sent \in Nat)'
BY SentNat, PTL

(* A step that neither sends nor stores; wires may break off.              *)
Kept ==
    /\ UNCHANGED <<stored, program, torn>>
    /\ \A fd \in Fds : conn'[fd].wire \in {Wire(fd), <<>>}
    /\ Whole' => Whole /\ Sent' = Sent /\ \A fd \in Fds : conn'[fd].wire = Wire(fd)
    /\ Sent <= Sent'
    /\ \/ msg_rscv_buffer' = Cleared
       \/ /\ UNCHANGED <<reading, msg_rscv_buffer>>
          /\ reading # NoFd => conn'[reading].wire = Wire(reading)

LEMMA KeptFlow ==
  ASSUME Base, Base', Flow, Kept
  PROVE  Flow'
<1> USE DEF Flow, Kept
<1>1. Sent \in Nat /\ Sent' \in Nat /\ Sent <= Sent'
  BY SentNat, SentStays
<1>2. \A fd \in Fds : Len(conn'[fd].wire) = 0 \/ conn'[fd].wire = Wire(fd)
  BY NoParts
<1>3. \A fd \in Fds : \A i \in 1 .. Len(conn'[fd].wire) :
         i \in 1 .. Len(Wire(fd)) /\ conn'[fd].wire[i] = Wire(fd)[i]
  BY <1>2
<1>4. OnlyOnce'
  <2>1. \A fd \in Fds : \A i \in 1 .. Len(conn'[fd].wire) : conn'[fd].wire[i].part = "begin" =>
           /\ conn'[fd].wire[i].of \in 1 .. Sent'
           /\ \A j \in 1 .. Len(stored') : stored'[j] # conn'[fd].wire[i].of
    <3> SUFFICES ASSUME NEW fd \in Fds, NEW i \in 1 .. Len(conn'[fd].wire),
                        conn'[fd].wire[i].part = "begin"
                 PROVE  /\ conn'[fd].wire[i].of \in 1 .. Sent'
                        /\ \A j \in 1 .. Len(stored') : stored'[j] # conn'[fd].wire[i].of
      OBVIOUS
    <3>1. i \in 1 .. Len(Wire(fd)) /\ conn'[fd].wire[i] = Wire(fd)[i] /\ BeginsAt(fd, i)
      BY <1>3 DEF BeginsAt
    <3>2. /\ Wire(fd)[i].of \in 1 .. Sent
          /\ \A j \in 1 .. Len(stored) : stored[j] # Wire(fd)[i].of
      BY <3>1 DEF OnlyOnce
    <3>3. 1 .. Sent \subseteq 1 .. Sent'
      BY ONLY <1>1
    <3> QED
      BY <3>1, <3>2, <3>3
  <2>2. \A fd, gd \in Fds : \A i \in 1 .. Len(conn'[fd].wire), j \in 1 .. Len(conn'[gd].wire) :
          conn'[fd].wire[i].part = "begin" /\ conn'[gd].wire[j].part = "begin"
          /\ conn'[fd].wire[i].of = conn'[gd].wire[j].of => fd = gd /\ i = j
    BY <1>3 DEF OnlyOnce, BeginsAt
  <2>3. \A i \in 1 .. Len(stored') : stored'[i] \in 0 .. Sent'
    BY <1>1 DEF OnlyOnce
  <2>4. \A i, j \in 1 .. Len(stored') : i < j /\ stored'[i] # Altered => stored'[i] # stored'[j]
    BY DEF OnlyOnce
  <2> QED
    BY <2>1, <2>2, <2>3, <2>4 DEF OnlyOnce, BeginsAt, Wire
<1>5. InTurn' /\ StoredInTurn'
  <2>1. StoredInTurn'
    BY DEF StoredInTurn
  <2>2. program = "log_sender" =>
          \A fd \in Fds : \A i \in 1 .. Len(conn'[fd].wire) : conn'[fd].wire[i].part = "begin" =>
            /\ \A j \in 1 .. Len(conn'[fd].wire) : i < j /\ conn'[fd].wire[j].part = "begin" =>
                  conn'[fd].wire[i].of < conn'[fd].wire[j].of
            /\ \A j \in 1 .. Len(stored) : stored[j] < conn'[fd].wire[i].of
    <3> SUFFICES ASSUME program = "log_sender", NEW fd \in Fds,
                        NEW i \in 1 .. Len(conn'[fd].wire), conn'[fd].wire[i].part = "begin"
                 PROVE  /\ \A j \in 1 .. Len(conn'[fd].wire) :
                              i < j /\ conn'[fd].wire[j].part = "begin" =>
                                 conn'[fd].wire[i].of < conn'[fd].wire[j].of
                        /\ \A j \in 1 .. Len(stored) : stored[j] < conn'[fd].wire[i].of
      OBVIOUS
    <3>1. \A j \in 1 .. Len(conn'[fd].wire) :
             j \in 1 .. Len(Wire(fd)) /\ conn'[fd].wire[j] = Wire(fd)[j]
      BY <1>3
    <3>2. BeginsAt(fd, i)
      BY <3>1 DEF BeginsAt
    <3>3. /\ \A j \in 1 .. Len(Wire(fd)) : i < j /\ Wire(fd)[j].part = "begin" =>
                Wire(fd)[i].of < Wire(fd)[j].of
          /\ \A j \in 1 .. Len(stored) : stored[j] < Wire(fd)[i].of
      BY <3>1, <3>2 DEF InTurn, BeginsAt
    <3> HIDE DEF Flow, Kept
    <3> QED
      BY <3>1, <3>3
  <2> QED
    BY <2>1, <2>2 DEF InTurn, BeginsAt, Wire
<1>6. Messagewise'
  <2>1. SUFFICES ASSUME ~ torn PROVE
          /\ \A fd \in Fds : Formed(conn'[fd].wire)
          /\ reading' # NoFd /\ HasBlank(msg_rscv_buffer'[2]) =>
                conn'[reading'].wire # <<>> /\ conn'[reading'].wire[1].part = "pad"
          /\ msg_rscv_buffer'[2] # Garbage
          /\ \A i \in 1 .. Len(stored) : stored[i] # Altered
    BY DEF Messagewise, Wire
  <2>2. Formed(<<>>)
    BY NoParts DEF Formed
  <2>3. \A fd \in Fds : Formed(conn'[fd].wire)
    BY <2>1, <2>2 DEF Messagewise
  <2>4. ~ HasBlank(Cleared[2]) /\ Cleared[2] # Garbage
    BY SpecialParts
  <2>5. CASE msg_rscv_buffer' = Cleared
    BY <2>1, <2>3, <2>4, <2>5 DEF Messagewise
  <2>6. CASE UNCHANGED <<reading, msg_rscv_buffer>> /\ (reading # NoFd => conn'[reading].wire = Wire(reading))
    BY <2>1, <2>3, <2>6 DEF Messagewise
  <2> QED
    BY <2>5, <2>6
<1>7. Arriving'
  <2>1. SUFFICES ASSUME Whole' PROVE
          /\ \A fd \in Fds : conn'[fd].wire # <<>> => 1 \in 1 .. Len(conn'[fd].wire) /\ conn'[fd].wire[1].part = "begin"
          /\ \A m \in (1 .. Sent') \ Overlong :
                \/ \E i \in 1 .. Len(stored') : stored'[i] = m
                \/ \E fd \in Fds : \E i \in 1 .. Len(conn'[fd].wire) :
                      conn'[fd].wire[i].part = "begin" /\ conn'[fd].wire[i].of = m
    BY DEF Arriving, Arrived, BeginsAt, Wire
  <2>2. Whole /\ Sent' = Sent /\ \A fd \in Fds : conn'[fd].wire = Wire(fd)
    BY <2>1
  <2> QED
    BY <2>2 DEF Arriving, Arrived, BeginsAt
<1> QED
  BY <1>4, <1>5, <1>6, <1>7

LEMMA Still ==
  ASSUME Base, UNCHANGED <<stored, program, torn, cut, broken>>, Sent' = Sent,
         \A fd \in Fds : conn'[fd].wire = Wire(fd),
         UNCHANGED <<reading, msg_rscv_buffer>> \/ msg_rscv_buffer' = Cleared
  PROVE  Kept
<1>1. Sent <= Sent'
  BY SentNat
<1>2. reading # NoFd => reading \in Fds
  BY DEF Base, ServerTypes
<1>3. Whole' = Whole
  BY DEF Whole
<1> QED
  BY <1>1, <1>2, <1>3 DEF Kept

LEMMA Breaking ==
  ASSUME Base, UNCHANGED <<stored, program, torn>>, Sent' = Sent, NEW fd \in Fds,
         conn'[fd].wire = <<>>, \A x \in Fds : x # fd => conn'[x] = conn[x],
         Whole' => Whole /\ Wire(fd) = <<>>,
         ServerForgets(fd)
  PROVE  Kept
<1>1. Sent <= Sent'
  BY SentNat
<1>2. \A x \in Fds : conn'[x].wire = <<>> \/ conn'[x].wire = Wire(x)
  BY DEF Wire
<1>3. Whole' => \A x \in Fds : conn'[x].wire = Wire(x)
  BY DEF Wire
<1>4. \/ msg_rscv_buffer' = Cleared
      \/ /\ UNCHANGED <<reading, msg_rscv_buffer>>
         /\ reading # NoFd => reading \in Fds /\ reading # fd
  BY DEF ServerForgets, Base, ServerTypes
<1> QED
  BY <1>1, <1>2, <1>3, <1>4 DEF Kept, Wire

LEMMA SenderKeeps ==
  ASSUME Base, Flow, OneEach, Waiting,
         Produce \/ Epoll_Wait \/ NextEvent \/ GiveUpConnection \/ TakeMessage \/ Spin
           \/ FailToSend \/ DropAcks \/ Reconnect \/ CloseShort \/ EndEvents \/ SetWrite
  PROVE  Kept
<1> USE DEF netVars, serverVars, queueVars, loopVars, Wire
<1>1. CASE Produce
  <2>1. Taken' = Taken
    BY <1>1, ProduceBase
  <2>2. Sent' = Sent
    BY <1>1, <2>1 DEF Produce, Sent, Holding
  <2> QED
    BY <1>1, <2>2, Still DEF Produce
<1>2. CASE Epoll_Wait
  BY <1>2, Still DEF Epoll_Wait, Sent, Holding, Taken
<1>3. CASE NextEvent
  BY <1>3, Still DEF NextEvent, Sent, Holding, Taken
<1>4. CASE GiveUpConnection
  <2>1. event.fd \in Fds /\ spc \in Busy
    BY <1>4, AtEvent DEF GiveUpConnection, Busy
  <2>2. conn[event.fd].wire = <<>>
    BY <1>4, <2>1 DEF GiveUpConnection, Base, Connections
  <2>3. conn' = [conn EXCEPT ![event.fd] = NoConn]
    BY <1>4 DEF GiveUpConnection, Closed
  <2>4. conn'[event.fd] = NoConn /\ \A x \in Fds : x # event.fd => conn'[x] = conn[x]
    BY <2>1, <2>3 DEF Base, NetTypes
  <2>5. NoConn.wire = <<>>
    BY Records
  <2>6. Sent' = Sent /\ Whole' = Whole
    BY <1>4 DEF GiveUpConnection, Sent, Holding, Taken, Whole
  <2>7. ServerForgets(event.fd) /\ UNCHANGED <<stored, program, torn>>
    BY <1>4 DEF GiveUpConnection, ServerForgets
  <2>8. conn'[event.fd].wire = <<>>
    BY <2>4, <2>5
  <2> QED
    BY <2>1, <2>2, <2>4, <2>6, <2>7, <2>8, Breaking
<1>5. CASE TakeMessage
  <2>1. Taken' = Taken + 1 /\ Taken \in Nat /\ sending' = Parts(Taken')
    BY <1>5, TakeMessageBase
  <2>2. sending' # <<>> /\ sending'[1] = Part(Taken', "begin")
    BY <2>1 DEF Parts
  <2>3. Sent' = Taken
    BY <2>1, <2>2, Fields DEF Sent, Holding
  <2>4. Sent = Taken
    BY <1>5, Hand DEF TakeMessage
  <2> QED
    BY <1>5, <2>3, <2>4, Still DEF TakeMessage
<1>6. CASE Spin
  BY <1>6, Still DEF Spin, Sent, Holding, Taken
<1>7. CASE FailToSend
  <2>1. Taken' = Taken /\ sending' = <<>>
    BY <1>7, FailToSendBase DEF FailToSend, SetRead
  <2>2. Sent' = Taken
    BY <2>1 DEF Sent, Holding
  <2>3. Sent <= Sent'
    BY <2>2, Hand
  <2>4. Whole' => Whole /\ Sent' = Sent
    <3>1. SUFFICES ASSUME Whole' PROVE Whole /\ ~ Holding
      BY <2>2, Hand
    <3>2. Whole /\ conn[event.fd].st # "ended"
      BY <1>7, <3>1 DEF FailToSend, Whole
    <3>3. Head(sending) = Garbage /\ spc = "send"
      BY <1>7, <3>2 DEF FailToSend
    <3>4. sending \in Seq(WireParts) /\ sending # <<>>
      BY <3>3, WhatIsSent, EmptySeq
    <3>5. sending[1] = Garbage
      BY <3>3, <3>4, TakeFirst
    <3> QED
      BY <3>2, <3>5, SpecialParts DEF Holding
  <2>5. reading # NoFd => reading \in Fds
    BY DEF Base, ServerTypes
  <2> QED
    BY <1>7, <2>3, <2>4, <2>5 DEF Kept, FailToSend
<1>8. CASE DropAcks
  <2>1. \A x \in Fds : conn'[x].wire = conn[x].wire
    BY <1>8, DropAcksBase
  <2> QED
    BY <1>8, <2>1, Still DEF DropAcks, Sent, Holding, Taken
<1>9. CASE Reconnect
  <2>1. /\ event.fd \in Fds /\ conn[event.fd].st = "ended"
        /\ conn'[event.fd] = Connecting /\ \A x \in Fds : x # event.fd => conn'[x] = conn[x]
    BY <1>9, ReconnectBase
  <2>2. conn[event.fd].wire = <<>>
    BY <2>1 DEF Base, Connections
  <2>3. conn'[event.fd].wire = <<>>
    BY <2>1, Records
  <2>4. Sent' = Sent /\ Whole' = Whole
    BY <1>9 DEF Reconnect, Sent, Holding, Taken, Whole
  <2>5. ServerForgets(event.fd) /\ UNCHANGED <<stored, program, torn>>
    BY <1>9 DEF Reconnect, ServerForgets
  <2> QED
    BY <2>1, <2>2, <2>3, <2>4, <2>5, Breaking
<1>10. CASE CloseShort
  <2>1. /\ event.fd \in Fds
        /\ conn'[event.fd] = NoConn /\ \A x \in Fds : x # event.fd => conn'[x] = conn[x]
    BY <1>10, CloseShortBase
  <2>2. conn'[event.fd].wire = <<>>
    BY <2>1, Records
  <2>3. Sent' = Sent /\ Whole' = Whole
    BY <1>10 DEF CloseShort, Sent, Holding, Taken, Whole
  <2>4. ServerForgets(event.fd) /\ UNCHANGED <<stored, program, torn>>
    BY <1>10 DEF CloseShort, ServerForgets
  <2>5. Whole => conn[event.fd].wire = <<>>
    <3>1. SUFFICES ASSUME Whole PROVE conn[event.fd].wire = <<>>
      OBVIOUS
    <3>2. spc = "read" /\ program = "short_sender" /\ Readable(conn[event.fd])
      BY <1>10 DEF CloseShort, Waiting
    <3>3. mode[event.fd] = "read"
      BY <3>2, AtEvent DEF Busy
    <3>4. CASE conn[event.fd].st = "ended"
      BY <2>1, <3>4 DEF Base, Connections
    <3>5. CASE conn[event.fd].acks > 0
      <4>1. conn[event.fd].wire = <<>> \/ conn[event.fd].acks = 0
        BY <2>1, <3>1, <3>2, <3>3 DEF OneEach
      <4> QED
        BY <3>5, <4>1
    <3> QED
      BY <3>2, <3>4, <3>5 DEF Readable
  <2> QED
    BY <2>1, <2>2, <2>3, <2>4, <2>5, Breaking
<1>11. CASE EndEvents
  <2>1. \A x \in Fds : conn'[x].wire = conn[x].wire
    BY <1>11, EndEventsBase
  <2> QED
    BY <1>11, <2>1, Still DEF EndEvents, Sent, Holding, Taken
<1>12. CASE SetWrite
  BY <1>12, Still DEF SetWrite, Sent, Holding, Taken
<1> QED
  BY <1>1, <1>2, <1>3, <1>4, <1>5, <1>6, <1>7, <1>8, <1>9, <1>10, <1>11, <1>12

LEMMA ServerKeeps ==
  ASSUME Base, Flow,
         Crash \/ Restart \/ \E fd \in Fds : Establish(fd) \/ Refuse(fd) \/ BeginRead(fd)
                                             \/ RecvNothing(fd) \/ Ack_to_fd(fd)
  PROVE  Kept
<1> USE DEF netVars, serverVars, queueVars, loopVars, Wire
<1>1. CASE Crash
  <2>1. \A x \in Fds : /\ conn'[x].wire = <<>> \/ conn'[x].wire = conn[x].wire
                       /\ ~ broken' => conn'[x].wire = conn[x].wire
    BY <1>1, CrashBase
  <2>2. Sent' = Sent /\ Sent <= Sent'
    <3>1. Sent' = Sent
      BY <1>1 DEF Crash, Sent, Holding, Taken
    <3>2. Sent \in Nat
      BY SentNat
    <3> QED
      BY <3>1, <3>2
  <2>3. Whole' => Whole /\ ~ broken'
    BY <1>1 DEF Crash, Whole
  <2> QED
    BY <1>1, <2>1, <2>2, <2>3 DEF Kept, Crash
<1>2. CASE Restart
  BY <1>2, Still DEF Restart, Sent, Holding, Taken
<1>3. ASSUME NEW fd \in Fds, Establish(fd) PROVE Kept
  <2>1. \A x \in Fds : conn'[x].wire = conn[x].wire
    BY <1>3, EstablishBase
  <2> QED
    BY <1>3, <2>1, Still DEF Establish, Sent, Holding, Taken
<1>4. ASSUME NEW fd \in Fds, Refuse(fd) PROVE Kept
  <2>1. \A x \in Fds : conn'[x].wire = conn[x].wire
    BY <1>4, RefuseBase
  <2> QED
    BY <1>4, <2>1, Still DEF Refuse, Sent, Holding, Taken
<1>5. ASSUME NEW fd \in Fds, BeginRead(fd) PROVE Kept
  <2>1. msg_rscv_buffer' = Cleared
    BY <1>5, BeginReadBase DEF BeginRead
  <2> QED
    BY <1>5, <2>1, Still DEF BeginRead, Sent, Holding, Taken
<1>6. ASSUME NEW fd \in Fds, RecvNothing(fd) PROVE Kept
  BY <1>6, Still DEF RecvNothing, Sent, Holding, Taken
<1>7. ASSUME NEW fd \in Fds, Ack_to_fd(fd) PROVE Kept
  <2>1. \A x \in Fds : conn'[x].wire = conn[x].wire
    BY <1>7, Ack_to_fdBase
  <2> QED
    BY <1>7, <2>1, Still DEF Ack_to_fd, Sent, Holding, Taken
<1> QED
  BY <1>1, <1>2, <1>3, <1>4, <1>5, <1>6, <1>7

-----------------------------------------------------------------------------
(* A send: a message, or a part of it, is put on a wire.                   *)
LEMMA AddMessage ==
  ASSUME NEW w \in Seq(WireParts), NEW m \in Messages
  PROVE  /\ Len(w) \in Nat /\ Len(w \o Parts(m)) = Len(w) + 3
         /\ \A i \in 1 .. Len(w) : (w \o Parts(m))[i] = w[i]
         /\ (w \o Parts(m))[Len(w) + 1] = Part(m, "begin")
         /\ Formed(w) => Formed(w \o Parts(m))
<1> DEFINE n == Len(w)
           new == w \o Parts(m)
<1>1. n \in Nat
  BY LenProperties
<1>2. Len(new) = n + 3 /\ \A i \in 1 .. Len(new) : new[i] = IF i <= n THEN w[i] ELSE Parts(m)[i - n]
  BY Message, JoinSeq
<1>3. w # <<>> => n >= 1
  BY EmptySeq, <1>1
<1>4. Formed(w) <=> /\ \A i \in 1 .. n : w[i] # Garbage
                    /\ \A i \in 1 .. n - 1 : Comes(w[i], w[i + 1])
                    /\ w # <<>> => w[n].part = "pad"
  BY DEF Formed
<1>5. Formed(new) <=> /\ \A i \in 1 .. Len(new) : new[i] # Garbage
                      /\ \A i \in 1 .. Len(new) - 1 : Comes(new[i], new[i + 1])
                      /\ new # <<>> => new[Len(new)].part = "pad"
  BY DEF Formed
<1>6. n >= 1 => w # <<>>
  BY EmptySeq
<1> HIDE DEF n, new
<1>7. /\ \A i \in 1 .. n : new[i] = w[i]
      /\ new[n + 1] = Part(m, "begin") /\ new[n + 2] = Part(m, "rest") /\ new[n + 3] = Part(m, "pad")
  <2>1. /\ Parts(m)[1] = Part(m, "begin") /\ Parts(m)[2] = Part(m, "rest") /\ Parts(m)[3] = Part(m, "pad")
    BY Message
  <2>2. /\ \A i \in 1 .. n : new[i] = w[i]
        /\ new[n + 1] = Parts(m)[1] /\ new[n + 2] = Parts(m)[2] /\ new[n + 3] = Parts(m)[3]
    BY <1>1, <1>2
  <2> QED
    BY <2>1, <2>2
<1>8. ASSUME Formed(w) PROVE Formed(new)
  <2>1. \A i \in 1 .. Len(new) : new[i] # Garbage
    <3>1. \A i \in 1 .. Len(new) : i \in 1 .. n \/ i = n + 1 \/ i = n + 2 \/ i = n + 3
      BY <1>1, <1>2
    <3>2. \A p \in {"begin", "rest", "pad"} : Part(m, p) # Garbage
      BY Fields, SpecialParts
    <3> QED
      BY <1>4, <1>7, <1>8, <3>1, <3>2
  <2>2. ASSUME NEW i \in 1 .. Len(new) - 1 PROVE Comes(new[i], new[i + 1])
    <3>1. i \in 1 .. n - 1 \/ (i = n /\ n >= 1) \/ i = n + 1 \/ i = n + 2
      BY <1>1, <1>2
    <3>2. CASE i \in 1 .. n - 1
      <4>1. new[i] = w[i] /\ new[i + 1] = w[i + 1]
        BY <1>1, <1>7, <3>2
      <4> QED
        BY <1>4, <1>8, <3>2, <4>1
    <3>3. CASE i = n /\ n >= 1
      <4>1. new[i] = w[n] /\ new[i + 1] = Part(m, "begin") /\ w[n].part = "pad"
        BY <1>1, <1>4, <1>6, <1>7, <1>8, <3>3
      <4> QED
        BY <4>1, Fields DEF Comes
    <3>4. CASE i = n + 1
      <4>1. new[i] = Part(m, "begin") /\ new[i + 1] = Part(m, "rest")
        BY <1>1, <1>7, <3>4
      <4> QED
        BY <4>1, Fields DEF Comes
    <3>5. CASE i = n + 2
      <4>1. new[i] = Part(m, "rest") /\ new[i + 1] = Part(m, "pad")
        BY <1>1, <1>7, <3>5
      <4> QED
        BY <4>1, Fields DEF Comes
    <3> QED
      BY <3>1, <3>2, <3>3, <3>4, <3>5
  <2>3. new[Len(new)].part = "pad"
    BY <1>2, <1>7, Fields
  <2> QED
    BY <1>5, <2>1, <2>2, <2>3
<1> QED
  BY <1>1, <1>2, <1>7, <1>8 DEF n, new

LEMMA SendingFlow ==
  ASSUME Base, Base', OnlyOnce, InTurn, StoredInTurn, NEW fd \in Fds, NEW s \in Seq(WireParts),
         Wire(fd) \in Seq(WireParts), conn'[fd].wire = Wire(fd) \o s,
         \A x \in Fds : x # fd => conn'[x] = conn[x],
         Taken' = Taken, ~ Holding', UNCHANGED <<stored, program>>,
         \A i \in 1 .. Len(s) : s[i].part = "begin" => i = 1 /\ Holding /\ s[i].of = Taken
  PROVE  Sent' = Taken /\ (OnlyOnce /\ InTurn /\ StoredInTurn)'
<1>1. /\ Sent' = Taken /\ Taken \in Nat /\ Sent \in Nat /\ Sent <= Taken
      /\ Holding => Taken >= 1 /\ Sent < Taken
  <2>1. Sent' = Taken
    BY DEF Sent
  <2> QED
    BY <2>1, Hand
<1> DEFINE old(x, i) == i \in 1 .. Len(Wire(x)) /\ conn'[x].wire[i] = Wire(x)[i] /\ BeginsAt(x, i)
           new(x, i) == x = fd /\ Holding /\ i = Len(Wire(fd)) + 1 /\ conn'[x].wire[i].of = Taken
           begins(x, i) == i \in 1 .. Len(conn'[x].wire) /\ conn'[x].wire[i].part = "begin"
<1>2. \A x \in Fds : \A i \in 1 .. Len(conn'[x].wire) :
         conn'[x].wire[i].part = "begin" => old(x, i) \/ new(x, i)
  <2>1. SUFFICES ASSUME NEW x \in Fds, NEW i \in 1 .. Len(conn'[x].wire),
                        conn'[x].wire[i].part = "begin"
                 PROVE  old(x, i) \/ new(x, i)
    OBVIOUS
  <2>2. CASE x # fd
    BY <2>1, <2>2 DEF BeginsAt, Wire
  <2>3. CASE x = fd
    <3>1. /\ Len(Wire(fd)) \in Nat /\ Len(s) \in Nat
          /\ Len(conn'[fd].wire) = Len(Wire(fd)) + Len(s)
          /\ \A j \in 1 .. Len(conn'[fd].wire) :
                conn'[fd].wire[j] = IF j <= Len(Wire(fd)) THEN Wire(fd)[j] ELSE s[j - Len(Wire(fd))]
      BY JoinSeq, LenProperties
    <3> DEFINE n == Len(Wire(fd))
    <3>2. CASE i <= n
      BY <2>1, <2>3, <3>1, <3>2 DEF BeginsAt
    <3>3. CASE i > n
      <4>1. i - n \in 1 .. Len(s) /\ conn'[fd].wire[i] = s[i - n]
        BY <2>3, <3>1, <3>3
      <4>2. i - n = 1 /\ Holding /\ s[i - n].of = Taken
        BY <2>1, <2>3, <4>1
      <4>3. i = n + 1
        BY <2>3, <3>1, <4>2
      <4> QED
        BY <2>3, <4>1, <4>2, <4>3
    <3> QED
      BY <2>3, <3>1, <3>2, <3>3
  <2> QED
    BY <2>2, <2>3
<1>3. \A x \in Fds : \A i : old(x, i) =>
         /\ conn'[x].wire[i].of \in 1 .. Sent
         /\ \A j \in 1 .. Len(stored) : stored[j] # conn'[x].wire[i].of
  BY DEF OnlyOnce
<1>4. \A j \in 1 .. Len(stored) : stored[j] \in 0 .. Sent
  BY DEF OnlyOnce
<1>5. \A x \in Fds : \A i \in 1 .. Len(conn'[x].wire) : conn'[x].wire[i].part = "begin" =>
         /\ conn'[x].wire[i].of \in 1 .. Taken
         /\ \A j \in 1 .. Len(stored) : stored[j] # conn'[x].wire[i].of
  <2>1. SUFFICES ASSUME NEW x \in Fds, NEW i \in 1 .. Len(conn'[x].wire),
                        conn'[x].wire[i].part = "begin"
                 PROVE  /\ conn'[x].wire[i].of \in 1 .. Taken
                        /\ \A j \in 1 .. Len(stored) : stored[j] # conn'[x].wire[i].of
    OBVIOUS
  <2>2. CASE old(x, i)
    <3>1. /\ conn'[x].wire[i].of \in 1 .. Sent
          /\ \A j \in 1 .. Len(stored) : stored[j] # conn'[x].wire[i].of
      BY <1>3, <2>2
    <3>2. 1 .. Sent \subseteq 1 .. Taken
      BY ONLY <1>1
    <3> QED
      BY ONLY <3>1, <3>2
  <2>3. CASE new(x, i)
    <3>1. conn'[x].wire[i].of = Taken /\ Taken >= 1 /\ Sent < Taken
      BY <1>1, <2>3
    <3>2. Taken \in 1 .. Taken /\ Taken \notin 0 .. Sent
      BY <1>1, <3>1
    <3> QED
      BY ONLY <1>4, <3>1, <3>2
  <2> QED
    BY <1>2, <2>1, <2>2, <2>3
<1>6. ASSUME NEW x \in Fds, NEW y \in Fds,
             NEW i \in 1 .. Len(conn'[x].wire), NEW j \in 1 .. Len(conn'[y].wire),
             conn'[x].wire[i].part = "begin", conn'[y].wire[j].part = "begin",
             conn'[x].wire[i].of = conn'[y].wire[j].of
      PROVE  x = y /\ i = j
  <2>1. CASE old(x, i) /\ old(y, j)
    <3> HIDE DEF begins
    <3>1. BeginsAt(x, i) /\ BeginsAt(y, j) /\ Wire(x)[i].of = Wire(y)[j].of
          /\ i \in 1 .. Len(Wire(x)) /\ j \in 1 .. Len(Wire(y))
      BY <1>6, <2>1
    <3> QED
      BY <3>1 DEF OnlyOnce
  <2>2. CASE old(x, i) /\ new(y, j)
    <3>1. conn'[x].wire[i].of \in 1 .. Sent
      BY <1>3, <2>2
    <3>2. conn'[y].wire[j].of = Taken /\ Sent < Taken
      BY <1>1, <2>2
    <3> QED
      BY <1>1, <1>6, <3>1, <3>2
  <2>3. CASE new(x, i) /\ old(y, j)
    <3>1. conn'[y].wire[j].of \in 1 .. Sent
      BY <1>3, <2>3
    <3>2. conn'[x].wire[i].of = Taken /\ Sent < Taken
      BY <1>1, <2>3
    <3> QED
      BY <1>1, <1>6, <3>1, <3>2
  <2>4. CASE new(x, i) /\ new(y, j)
    BY <2>4
  <2> QED
    BY <1>2, <1>6, <2>1, <2>2, <2>3, <2>4
<1>7. OnlyOnce'
  <2>1. \A i \in 1 .. Len(stored') : stored'[i] \in 0 .. Sent'
    BY <1>1, <1>4
  <2>2. \A i, j \in 1 .. Len(stored') : i < j /\ stored'[i] # Altered => stored'[i] # stored'[j]
    BY DEF OnlyOnce
  <2> HIDE DEF old, new, begins
  <2>3. \A x \in Fds : \A i \in 1 .. Len(Wire(x)') : BeginsAt(x, i)' =>
           /\ Wire(x)'[i].of \in 1 .. Sent'
           /\ \A j \in 1 .. Len(stored') : stored'[j] # Wire(x)'[i].of
    BY <1>1, <1>5 DEF BeginsAt, Wire
  <2>4. \A x, y \in Fds : \A i \in 1 .. Len(Wire(x)'), j \in 1 .. Len(Wire(y)') :
           BeginsAt(x, i)' /\ BeginsAt(y, j)' /\ Wire(x)'[i].of = Wire(y)'[j].of
             => x = y /\ i = j
    BY <1>6 DEF BeginsAt, Wire
  <2> QED
    BY <1>1, <2>1, <2>2, <2>3, <2>4 DEF OnlyOnce
<1>8. InTurn'
  <2>1. SUFFICES ASSUME program = "log_sender", NEW x \in Fds, NEW i \in 1 .. Len(conn'[x].wire),
                        conn'[x].wire[i].part = "begin"
                 PROVE  /\ \A j \in 1 .. Len(conn'[x].wire) : i < j /\ conn'[x].wire[j].part = "begin" =>
                             conn'[x].wire[i].of < conn'[x].wire[j].of
                        /\ \A j \in 1 .. Len(stored) : stored[j] < conn'[x].wire[i].of
    BY DEF InTurn, BeginsAt, Wire
  <2>2. CASE old(x, i)
    <3>1. \A j \in 1 .. Len(stored) : stored[j] < conn'[x].wire[i].of
      BY <2>1, <2>2 DEF InTurn
    <3>2. ASSUME NEW j \in 1 .. Len(conn'[x].wire), i < j, conn'[x].wire[j].part = "begin"
          PROVE  conn'[x].wire[i].of < conn'[x].wire[j].of
      <4>1. CASE old(x, j)
        <5>1. BeginsAt(x, i) /\ BeginsAt(x, j) /\ Wire(x)[i] = conn'[x].wire[i] /\ Wire(x)[j] = conn'[x].wire[j]
              /\ i \in 1 .. Len(Wire(x)) /\ j \in 1 .. Len(Wire(x))
          BY <2>2, <4>1
        <5> HIDE DEF old, new, begins
        <5> QED
          BY <2>1, <3>2, <5>1 DEF InTurn
      <4>2. CASE new(x, j)
        <5>1. conn'[x].wire[j].of = Taken /\ Sent < Taken /\ conn'[x].wire[i].of \in 1 .. Sent
          BY <1>1, <1>3, <2>2, <4>2
        <5> QED
          BY ONLY <1>1, <5>1
      <4> QED
        BY <1>2, <3>2, <4>1, <4>2
    <3> QED
      BY <3>1, <3>2
  <2>3. CASE new(x, i)
    <3>1. \A j \in 1 .. Len(stored) : stored[j] < conn'[x].wire[i].of
      <4>1. conn'[x].wire[i].of = Taken /\ Sent < Taken
        BY <1>1, <2>3
      <4>2. \A k \in 0 .. Sent : k < Taken
        BY ONLY <1>1, <4>1
      <4> QED
        BY <1>4, <4>1, <4>2
    <3>2. ASSUME NEW j \in 1 .. Len(conn'[x].wire), i < j, conn'[x].wire[j].part = "begin"
          PROVE  FALSE
      <4>1. Len(Wire(fd)) \in Nat
        BY LenProperties
      <4>2. old(x, j) \/ new(x, j)
        BY <1>2, <3>2
      <4>3. j <= Len(Wire(fd)) \/ j = Len(Wire(fd)) + 1
        BY <2>3, <4>1, <4>2
      <4> QED
        BY <2>3, <3>2, <4>1, <4>3
    <3> QED
      BY <3>1, <3>2
  <2> QED
    BY <1>2, <2>1, <2>2, <2>3
<1>9. StoredInTurn'
  BY DEF StoredInTurn
<1> QED
  BY <1>1, <1>7, <1>8, <1>9

LEMMA SendAllFlow ==
  ASSUME Base, Flow, SendAll
  PROVE  Flow'
<1> USE DEF Flow
<1> DEFINE fd == event.fd
<1>1. /\ Base' /\ Taken' = Taken /\ sending \in Seq(WireParts) /\ fd \in Fds
      /\ Wire(fd) \in Seq(WireParts) /\ conn'[fd].wire = Wire(fd) \o sending
      /\ \A x \in Fds : x # fd => conn'[x] = conn[x]
  <2>1. spc \in Busy
    BY DEF SendAll, Busy
  <2> QED
    BY <2>1, SendAllBase, AtEvent
<1>2. UNCHANGED <<stored, program, torn, cut, broken, reading, msg_rscv_buffer>> /\ spc = "send"
  BY DEF SendAll, serverVars
<1>3. ~ Holding'
  BY DEF SendAll, SetRead, Holding
<1>4. \/ Holding /\ Taken \in Messages /\ sending = Parts(Taken) /\ Sent = Taken - 1
      \/ ~ Holding /\ torn /\ \A i \in 1 .. Len(sending) : sending[i] = Garbage
  BY <1>2, Hand
<1>5. \A i \in 1 .. Len(sending) : sending[i].part = "begin" => i = 1 /\ Holding /\ sending[i].of = Taken
  <2>1. CASE Holding /\ Taken \in Messages /\ sending = Parts(Taken)
    <3>1. \A i \in 1 .. Len(sending) : i = 1 \/ i = 2 \/ i = 3
      <4>1. Len(sending) = 3
        BY <2>1, Message
      <4> QED
        BY <4>1
    <3> QED
      BY <2>1, <3>1, Message, Fields
  <2>2. CASE \A i \in 1 .. Len(sending) : sending[i] = Garbage
    BY <2>2, SpecialParts
  <2> QED
    BY <1>4, <2>1, <2>2
<1> HIDE DEF fd
<1>6. Sent' = Taken /\ (OnlyOnce /\ InTurn /\ StoredInTurn)'
  BY <1>1, <1>2, <1>3, <1>5, SendingFlow
<1>7. ASSUME ~ torn
      PROVE  /\ Holding /\ Taken \in Messages /\ Sent = Taken - 1 /\ Taken \in Nat
             /\ Len(Wire(fd)) \in Nat /\ Len(conn'[fd].wire) = Len(Wire(fd)) + 3
             /\ \A i \in 1 .. Len(Wire(fd)) : conn'[fd].wire[i] = Wire(fd)[i]
             /\ conn'[fd].wire[Len(Wire(fd)) + 1] = Part(Taken, "begin")
             /\ Formed(Wire(fd)) => Formed(conn'[fd].wire)
  BY <1>1, <1>4, <1>7, Hand, AddMessage
<1>8. Messagewise'
  <2>1. SUFFICES ASSUME ~ torn PROVE
          /\ \A x \in Fds : Formed(conn'[x].wire)
          /\ reading # NoFd /\ HasBlank(msg_rscv_buffer[2]) =>
                conn'[reading].wire # <<>> /\ conn'[reading].wire[1].part = "pad"
          /\ msg_rscv_buffer[2] # Garbage
          /\ \A i \in 1 .. Len(stored) : stored[i] # Altered
    BY <1>2 DEF Messagewise, Wire
  <2>2. \A x \in Fds : Formed(conn'[x].wire)
    BY <1>1, <1>7, <2>1 DEF Messagewise, Wire
  <2>3. ASSUME reading # NoFd, HasBlank(msg_rscv_buffer[2])
        PROVE  conn'[reading].wire # <<>> /\ conn'[reading].wire[1].part = "pad"
    <3>1. reading \in Fds /\ Wire(reading) # <<>> /\ Wire(reading)[1].part = "pad"
      BY <2>1, <2>3 DEF Messagewise, Base, ServerTypes
    <3>2. CASE reading # fd
      BY <1>1, <3>1, <3>2 DEF Wire
    <3>3. CASE reading = fd
      <4>1. Len(Wire(fd)) >= 1
        BY <1>1, <3>1, <3>3, EmptySeq, LenProperties
      <4>2. conn'[fd].wire[1] = Wire(fd)[1]
        BY <1>7, <2>1, <4>1
      <4>3. Len(conn'[fd].wire) # 0
        BY <1>7, <2>1
      <4> QED
        BY <3>1, <3>3, <4>2, <4>3, NoParts
    <3> QED
      BY <3>2, <3>3
  <2> QED
    BY <2>1, <2>2, <2>3 DEF Messagewise
<1>9. Arriving'
  <2>1. SUFFICES ASSUME Whole PROVE
          /\ \A x \in Fds : conn'[x].wire # <<>> => 1 \in 1 .. Len(conn'[x].wire) /\ conn'[x].wire[1].part = "begin"
          /\ \A m \in (1 .. Taken) \ Overlong :
                \/ \E i \in 1 .. Len(stored) : stored[i] = m
                \/ \E x \in Fds : \E i \in 1 .. Len(conn'[x].wire) :
                      conn'[x].wire[i].part = "begin" /\ conn'[x].wire[i].of = m
    BY <1>2, <1>6 DEF Arriving, Arrived, BeginsAt, Wire, Whole
  <2>2. ~ torn
    BY <2>1 DEF Whole
  <2>3. ASSUME NEW x \in Fds, conn'[x].wire # <<>>
        PROVE  1 \in 1 .. Len(conn'[x].wire) /\ conn'[x].wire[1].part = "begin"
    <3>1. CASE x # fd
      BY <1>1, <2>1, <2>3, <3>1 DEF Arriving, BeginsAt, Wire
    <3>2. CASE x = fd /\ Wire(fd) # <<>>
      <4>1. 1 \in 1 .. Len(Wire(fd)) /\ Wire(fd)[1].part = "begin"
        BY <1>1, <2>1, <3>2 DEF Arriving, BeginsAt
      <4> QED
        BY <1>7, <2>2, <3>2, <4>1
    <3>3. CASE x = fd /\ Wire(fd) = <<>>
      <4>1. Len(Wire(fd)) = 0
        BY <3>3, NoParts
      <4> QED
        BY <1>7, <2>2, <3>3, <4>1, Fields
    <3> QED
      BY <3>1, <3>2, <3>3
  <2>4. ASSUME NEW m \in (1 .. Taken) \ Overlong
        PROVE  \/ \E i \in 1 .. Len(stored) : stored[i] = m
               \/ \E x \in Fds : \E i \in 1 .. Len(conn'[x].wire) :
                     conn'[x].wire[i].part = "begin" /\ conn'[x].wire[i].of = m
    <3>1. CASE m = Taken
      <4>1. Len(Wire(fd)) + 1 \in 1 .. Len(conn'[fd].wire)
        BY <1>7, <2>2
      <4>2. conn'[fd].wire[Len(Wire(fd)) + 1].part = "begin" /\ conn'[fd].wire[Len(Wire(fd)) + 1].of = m
        BY <1>7, <2>2, <3>1, Fields
      <4> QED
        BY <1>1, <4>1, <4>2
    <3>2. CASE m # Taken
      <4>1. m \in (1 .. Sent) \ Overlong
        BY <1>7, <2>2, <3>2
      <4>2. Arrived(m)
        BY <2>1, <4>1 DEF Arriving
      <4>3. ASSUME NEW x \in Fds, NEW i \in 1 .. Len(Wire(x)), BeginsAt(x, i), Wire(x)[i].of = m
            PROVE  \E y \in Fds : \E j \in 1 .. Len(conn'[y].wire) :
                     conn'[y].wire[j].part = "begin" /\ conn'[y].wire[j].of = m
        <5>1. i \in 1 .. Len(conn'[x].wire) /\ conn'[x].wire[i] = Wire(x)[i]
          <6>1. CASE x = fd
            BY <1>7, <2>2, <4>3, <6>1
          <6>2. CASE x # fd
            BY <1>1, <4>3, <6>2 DEF Wire
          <6> QED
            BY <6>1, <6>2
        <5> QED
          BY <4>3, <5>1 DEF BeginsAt
      <4> QED
        BY <4>2, <4>3 DEF Arrived
    <3> QED
      BY <3>1, <3>2
  <2> QED
    BY <2>3, <2>4
<1> QED
  BY <1>6, <1>8, <1>9

LEMMA SendPartFlow ==
  ASSUME Base, Flow, SendPart
  PROVE  Flow'
<1> USE DEF Flow
<1> DEFINE fd == event.fd
<1>1. /\ Base' /\ Taken' = Taken /\ sending \in Seq(WireParts) /\ fd \in Fds
      /\ Wire(fd) \in Seq(WireParts)
      /\ \A x \in Fds : x # fd => conn'[x] = conn[x]
      /\ sending' # <<>> /\ \A i \in 1 .. Len(sending') : sending'[i] = Garbage
  BY SendPartBase
<1>2. PICK n \in 1 .. Len(sending) - 1 : conn'[fd].wire = Wire(fd) \o SubSeq(sending, 1, n)
  BY SendPartBase
<1>3. UNCHANGED <<stored, program>> /\ spc = "send" /\ torn' = TRUE
  BY DEF SendPart, serverVars
<1>4. ~ Holding'
  <2>1. sending' \in Seq(PartSet)
    BY <1>1 DEF Base, SendingTypes
  <2>2. Len(sending') \in Nat /\ Len(sending') >= 1
    BY <1>1, <2>1, EmptySeq, LenProperties
  <2>3. sending'[1] = Garbage
    BY <1>1, <2>2
  <2> QED
    BY <2>3, SpecialParts DEF Holding
<1>5. n \in 1 .. Len(sending) /\ Len(sending) \in Nat
  BY <1>1, LenProperties
<1> DEFINE s == SubSeq(sending, 1, n)
<1>6. s \in Seq(WireParts) /\ Len(s) = n /\ \A i \in 1 .. n : s[i] = sending[i]
  BY <1>1, <1>5, FirstPart
<1>7. \A i \in 1 .. Len(s) : s[i].part = "begin" => i = 1 /\ Holding /\ s[i].of = Taken
  <2>1. CASE Holding /\ Taken \in Messages /\ sending = Parts(Taken)
    <3>1. \A i \in 1 .. Len(s) : i = 1 \/ i = 2 \/ i = 3
      <4>1. Len(sending) = 3
        BY <2>1, Message
      <4> QED
        BY <1>5, <1>6, <4>1
    <3> QED
      BY <1>6, <2>1, <3>1, Message, Fields
  <2>2. CASE \A i \in 1 .. Len(sending) : sending[i] = Garbage
    <3>1. \A i \in 1 .. Len(s) : s[i] = Garbage
      BY <1>5, <1>6, <2>2
    <3> QED
      BY <3>1, SpecialParts
  <2> QED
    BY <1>3, <2>1, <2>2, Hand
<1> HIDE DEF fd
<1>8. (OnlyOnce /\ InTurn /\ StoredInTurn)'
  BY <1>1, <1>2, <1>3, <1>4, <1>6, <1>7, SendingFlow
<1>9. (Messagewise /\ Arriving)'
  BY <1>3 DEF Messagewise, Arriving, Whole
<1> QED
  BY <1>8, <1>9

-----------------------------------------------------------------------------
(* A recv: what is taken from a wire may be stored as a log.               *)
Received(fd, n) ==
    /\ reading = fd /\ RecvOf(fd, n)
    /\ \A x \in Fds : x # fd => conn'[x] = conn[x]
    /\ Sent' = Sent /\ UNCHANGED <<program, torn, broken>>

(* The log that a recv may have stored, which then began the wire.         *)
Stores(fd, v) ==
    /\ stored' = Append(stored, v)
    /\ v = Altered \/ (BeginsAt(fd, 1) /\ v = Wire(fd)[1].of)

Moved(fd, n, x) == IF x = fd THEN n ELSE 0

LEMMA RecvMoves ==
  ASSUME Base, NEW fd \in Fds, NEW n \in Nat, Received(fd, n)
  PROVE  /\ n >= 1 /\ n <= 3 /\ Len(Wire(fd)) \in Nat /\ n <= Len(Wire(fd))
         /\ Len(conn'[fd].wire) = Len(Wire(fd)) - n
         /\ conn'[fd].wire # <<>> => Len(conn'[fd].wire) # 0
         /\ \A x \in Fds : \A i \in 1 .. Len(conn'[x].wire) :
               /\ i \in Nat /\ i >= 1 /\ i + Moved(fd, n, x) \in 1 .. Len(Wire(x))
               /\ conn'[x].wire[i] = Wire(x)[i + Moved(fd, n, x)]
         /\ \A i \in 1 .. Len(Wire(fd)) : Wire(fd)[i] \in WireParts
         /\ Buffer(fd, n)[1] = Wire(fd)[1]
<1>1. Wire(fd) \in Seq(WireParts) /\ \A x \in Fds : Len(Wire(x)) \in Nat
  BY LenProperties DEF Base, Connections
<1>2. n >= 1 /\ n <= 3 /\ n <= Len(Wire(fd)) /\ conn'[fd].wire = SubSeq(Wire(fd), n + 1, Len(Wire(fd)))
  BY DEF Received, RecvOf
<1>3. /\ conn'[fd].wire \in Seq(WireParts)
      /\ Len(conn'[fd].wire) = Len(Wire(fd)) - n
      /\ \A i \in 1 .. Len(Wire(fd)) - n : conn'[fd].wire[i] = Wire(fd)[i + n]
  <2>1. n \in 1 .. Len(Wire(fd))
    BY <1>1, <1>2
  <2> QED
    BY <1>1, <1>2, <2>1, LastPart
<1>4. ASSUME NEW x \in Fds, NEW i \in 1 .. Len(conn'[x].wire)
      PROVE  /\ i \in Nat /\ i >= 1 /\ i + Moved(fd, n, x) \in 1 .. Len(Wire(x))
             /\ conn'[x].wire[i] = Wire(x)[i + Moved(fd, n, x)]
  <2>1. CASE x = fd
    <3>1. i + n \in 1 .. Len(Wire(fd)) /\ conn'[fd].wire[i] = Wire(fd)[i + n] /\ i \in Nat /\ i >= 1
      BY <1>1, <1>2, <1>3, <2>1
    <3> QED
      BY <2>1, <3>1 DEF Moved
  <2>2. CASE x # fd
    <3>1. conn'[x].wire = Wire(x)
      BY <2>2 DEF Received, Wire
    <3>2. i \in Nat /\ i >= 1 /\ i + 0 = i
      BY <1>1, <3>1
    <3> QED
      BY <2>2, <3>1, <3>2 DEF Moved
  <2> QED
    BY <2>1, <2>2
<1>5. \A i \in 1 .. Len(Wire(fd)) : Wire(fd)[i] \in WireParts
  BY <1>1, ElementOfSeq
<1>6. Buffer(fd, n)[1] = Wire(fd)[1]
  BY <1>2 DEF Buffer
<1>7. conn'[fd].wire # <<>> => Len(conn'[fd].wire) # 0
  BY <1>3, EmptySeq
<1> QED
  BY <1>1, <1>2, <1>3, <1>4, <1>5, <1>6, <1>7

LEMMA RecvStores ==
  ASSUME Base, OnlyOnce, NEW fd \in Fds, NEW n \in Nat, Received(fd, n)
  PROVE  /\ stored' = stored \/ \E v \in 0 .. Sent : Stores(fd, v)
         /\ \A v : Stores(fd, v) => /\ Len(stored) \in Nat /\ Len(stored') = Len(stored) + 1
                                    /\ \A i \in 1 .. Len(stored) : stored'[i] = stored[i]
                                    /\ stored'[Len(stored) + 1] = v
<1>1. BeginsAt(fd, 1) => Wire(fd)[1].of \in 1 .. Sent
  BY DEF OnlyOnce, BeginsAt
<1>2. Sent \in Nat /\ Altered \in 0 .. Sent /\ 1 .. Sent \subseteq 0 .. Sent
  BY SentNat DEF Altered
<1>3. ASSUME Begins(Buffer(fd, n)), stored' = Append(stored, Log(Buffer(fd, n)))
      PROVE  \E v \in 0 .. Sent : Stores(fd, v)
  <2> DEFINE v == Log(Buffer(fd, n))
  <2>1. BeginsAt(fd, 1)
    BY <1>3, RecvMoves DEF Begins, BeginsAt
  <2>2. v = Altered \/ v = Wire(fd)[1].of
    BY RecvMoves DEF Log
  <2>3. stored' = Append(stored, v)
    BY <1>3
  <2> HIDE DEF v
  <2>4. v \in 0 .. Sent
    BY <1>1, <1>2, <2>1, <2>2
  <2>5. Stores(fd, v)
    BY <2>1, <2>2, <2>3 DEF Stores
  <2> QED
    BY <2>4, <2>5
<1>4. stored' = stored \/ \E v \in 0 .. Sent : Stores(fd, v)
  BY <1>3 DEF Received, RecvOf
<1>5. ASSUME NEW v, Stores(fd, v)
      PROVE  /\ Len(stored) \in Nat /\ Len(stored') = Len(stored) + 1
             /\ \A i \in 1 .. Len(stored) : stored'[i] = stored[i]
             /\ stored'[Len(stored) + 1] = v
  <2> DEFINE S == Messages \cup {Altered, v}
  <2>1. stored \in Seq(Messages \cup {Altered})
    BY DEF Base, ServerTypes
  <2>2. stored \in Seq(S) /\ v \in S
    BY <2>1, LenProperties, ElementOfSeq, SeqDef
  <2> HIDE DEF S
  <2> QED
    BY <1>5, <2>2, AddLast, LenProperties DEF Stores
<1> QED
  BY <1>4, <1>5

LEMMA RecvOnlyOnce ==
  ASSUME Base, OnlyOnce, InTurn, StoredInTurn, NEW fd \in Fds, NEW n \in Nat, Received(fd, n)
  PROVE  (OnlyOnce /\ InTurn /\ StoredInTurn)'
<1> DEFINE at(x, i) == i + Moved(fd, n, x)
<1>1. n >= 1 /\ Sent \in Nat /\ Sent' = Sent /\ program' = program /\ Len(stored) \in Nat
  <2>1. stored \in Seq(Messages \cup {Altered})
    BY DEF Base, ServerTypes
  <2> QED
    BY <2>1, LenProperties, SentNat, RecvMoves DEF Received
<1>2. \A x \in Fds : \A i \in 1 .. Len(conn'[x].wire) :
         /\ i \in Nat /\ i >= 1 /\ at(x, i) \in 1 .. Len(Wire(x))
         /\ conn'[x].wire[i] = Wire(x)[at(x, i)]
         /\ conn'[x].wire[i].part = "begin" => BeginsAt(x, at(x, i))
  BY RecvMoves DEF BeginsAt
<1>3. \A x \in Fds : Moved(fd, n, x) \in Nat
  BY DEF Moved
<1>4. ASSUME NEW x \in Fds, NEW i \in 1 .. Len(conn'[x].wire), conn'[x].wire[i].part = "begin"
      PROVE  /\ conn'[x].wire[i].of \in 1 .. Sent
             /\ \A j \in 1 .. Len(stored) : stored[j] # conn'[x].wire[i].of
             /\ BeginsAt(fd, 1) => Wire(fd)[1].of # conn'[x].wire[i].of
  <2> HIDE DEF at
  <2>1. BeginsAt(x, at(x, i)) /\ at(x, i) \in 1 .. Len(Wire(x)) /\ conn'[x].wire[i] = Wire(x)[at(x, i)]
    BY <1>2, <1>4
  <2>2. /\ conn'[x].wire[i].of \in 1 .. Sent
        /\ \A j \in 1 .. Len(stored) : stored[j] # conn'[x].wire[i].of
    BY <2>1 DEF OnlyOnce
  <2>3. ASSUME BeginsAt(fd, 1), Wire(fd)[1].of = conn'[x].wire[i].of
        PROVE  FALSE
    <3>1. 1 \in 1 .. Len(Wire(fd)) /\ Wire(fd)[1].of = Wire(x)[at(x, i)].of
      BY <2>1, <2>3 DEF BeginsAt
    <3>2. fd = x /\ 1 = at(x, i)
      BY <2>1, <2>3, <3>1 DEF OnlyOnce
    <3>3. i + n = 1 /\ i \in Nat /\ i >= 1
      BY <1>2, <3>2 DEF at, Moved
    <3> QED
      BY <1>1, <3>3
  <2> QED
    BY <2>2, <2>3
<1>5. \A x, y \in Fds : \A i \in 1 .. Len(conn'[x].wire), j \in 1 .. Len(conn'[y].wire) :
         /\ conn'[x].wire[i].part = "begin" /\ conn'[y].wire[j].part = "begin"
         /\ conn'[x].wire[i].of = conn'[y].wire[j].of
         => x = y /\ i = j
  <2>1. SUFFICES ASSUME NEW x \in Fds, NEW y \in Fds,
                        NEW i \in 1 .. Len(conn'[x].wire), NEW j \in 1 .. Len(conn'[y].wire),
                        conn'[x].wire[i].part = "begin", conn'[y].wire[j].part = "begin",
                        conn'[x].wire[i].of = conn'[y].wire[j].of
                 PROVE  x = y /\ i = j
    OBVIOUS
  <2> HIDE DEF at
  <2>2. /\ BeginsAt(x, at(x, i)) /\ at(x, i) \in 1 .. Len(Wire(x)) /\ conn'[x].wire[i] = Wire(x)[at(x, i)]
        /\ BeginsAt(y, at(y, j)) /\ at(y, j) \in 1 .. Len(Wire(y)) /\ conn'[y].wire[j] = Wire(y)[at(y, j)]
    BY <1>2, <2>1
  <2>3. x = y /\ at(x, i) = at(y, j)
    BY <2>1, <2>2 DEF OnlyOnce
  <2>4. i \in Nat /\ j \in Nat /\ Moved(fd, n, x) \in Nat
    BY <1>2, <1>3
  <2> QED
    BY <2>3, <2>4 DEF at
<1> HIDE DEF at
<1>6. \A x \in Fds : \A i \in 1 .. Len(conn'[x].wire) : conn'[x].wire[i].part = "begin" =>
         \A j \in 1 .. Len(stored') : stored'[j] # conn'[x].wire[i].of
  <2>1. CASE stored' = stored
    BY <1>4, <2>1
  <2>2. ASSUME NEW v \in 0 .. Sent, Stores(fd, v)
        PROVE  \A x \in Fds : \A i \in 1 .. Len(conn'[x].wire) : conn'[x].wire[i].part = "begin" =>
                 \A j \in 1 .. Len(stored') : stored'[j] # conn'[x].wire[i].of
    <3>1. SUFFICES ASSUME NEW x \in Fds, NEW i \in 1 .. Len(conn'[x].wire),
                          conn'[x].wire[i].part = "begin", NEW j \in 1 .. Len(stored')
                   PROVE  stored'[j] # conn'[x].wire[i].of
      OBVIOUS
    <3>2. (j \in 1 .. Len(stored) /\ stored'[j] = stored[j]) \/ stored'[j] = v
      BY <1>1, <2>2, RecvStores
    <3>3. v # conn'[x].wire[i].of
      <4>1. conn'[x].wire[i].of \in 1 .. Sent /\ (BeginsAt(fd, 1) => Wire(fd)[1].of # conn'[x].wire[i].of)
        BY <1>4, <3>1
      <4>2. v = 0 \/ (BeginsAt(fd, 1) /\ v = Wire(fd)[1].of)
        BY <2>2 DEF Stores, Altered
      <4>3. 0 \notin 1 .. Sent
        BY ONLY <1>1
      <4> QED
        BY <4>1, <4>2, <4>3
    <3> QED
      BY <1>4, <3>1, <3>2, <3>3
  <2> QED
    BY <2>1, <2>2, RecvStores
<1>7. \A i \in 1 .. Len(stored') : stored'[i] \in 0 .. Sent'
  <2>1. CASE stored' = stored
    BY <1>1, <2>1 DEF OnlyOnce
  <2>2. ASSUME NEW v \in 0 .. Sent, Stores(fd, v)
        PROVE  \A i \in 1 .. Len(stored') : stored'[i] \in 0 .. Sent'
    <3>1. \A i \in 1 .. Len(stored') : (i \in 1 .. Len(stored) /\ stored'[i] = stored[i]) \/ stored'[i] = v
      BY <1>1, <2>2, RecvStores
    <3> QED
      BY <1>1, <3>1 DEF OnlyOnce
  <2> QED
    BY <2>1, <2>2, RecvStores
<1>8. ASSUME NEW i \in 1 .. Len(stored'), NEW j \in 1 .. Len(stored'), i < j
      PROVE  \/ /\ i \in 1 .. Len(stored) /\ stored'[i] = stored[i]
                /\ j \in 1 .. Len(stored) /\ stored'[j] = stored[j]
             \/ /\ i \in 1 .. Len(stored) /\ stored'[i] = stored[i]
                /\ stored'[j] = Altered \/ (BeginsAt(fd, 1) /\ stored'[j] = Wire(fd)[1].of)
  <2>1. CASE stored' = stored
    BY <2>1
  <2>2. ASSUME NEW v \in 0 .. Sent, Stores(fd, v)
        PROVE  \/ /\ i \in 1 .. Len(stored) /\ stored'[i] = stored[i]
                  /\ j \in 1 .. Len(stored) /\ stored'[j] = stored[j]
               \/ /\ i \in 1 .. Len(stored) /\ stored'[i] = stored[i]
                  /\ stored'[j] = v
    <3>1. j \in 1 .. Len(stored) \/ j = Len(stored) + 1
      BY <1>1, <2>2, RecvStores
    <3>2. i \in 1 .. Len(stored)
      BY <1>1, <1>8, <2>2, RecvStores
    <3> QED
      BY <2>2, <3>1, <3>2, RecvStores
  <2> QED
    BY <2>1, <2>2, RecvStores DEF Stores
<1>9. OnlyOnce'
  <2>1. \A i, j \in 1 .. Len(stored') : i < j /\ stored'[i] # Altered => stored'[i] # stored'[j]
    <3>1. SUFFICES ASSUME NEW i \in 1 .. Len(stored'), NEW j \in 1 .. Len(stored'), i < j,
                          stored'[i] # Altered
                   PROVE  stored'[i] # stored'[j]
      OBVIOUS
    <3>2. BeginsAt(fd, 1) => \A k \in 1 .. Len(stored) : stored[k] # Wire(fd)[1].of
      BY DEF OnlyOnce, BeginsAt
    <3> QED
      BY <1>8, <3>1, <3>2 DEF OnlyOnce
  <2>2. \A x \in Fds : \A i \in 1 .. Len(Wire(x)') : BeginsAt(x, i)' =>
           /\ Wire(x)'[i].of \in 1 .. Sent'
           /\ \A j \in 1 .. Len(stored') : stored'[j] # Wire(x)'[i].of
    BY <1>1, <1>4, <1>6 DEF BeginsAt, Wire
  <2>3. \A x, y \in Fds : \A i \in 1 .. Len(Wire(x)'), j \in 1 .. Len(Wire(y)') :
           BeginsAt(x, i)' /\ BeginsAt(y, j)' /\ Wire(x)'[i].of = Wire(y)'[j].of
             => x = y /\ i = j
    BY <1>5 DEF BeginsAt, Wire
  <2>4. \A i \in 1 .. Len(stored') : stored'[i] \in 0 .. Sent'
    BY <1>1, <1>7
  <2> QED
    BY <2>1, <2>2, <2>3, <2>4 DEF OnlyOnce
<1>10. StoredInTurn'
  <2>1. SUFFICES ASSUME program = "log_sender", NEW i \in 1 .. Len(stored'), NEW j \in 1 .. Len(stored'),
                        i < j, Altered \notin {stored'[i], stored'[j]}
                 PROVE  stored'[i] < stored'[j]
    BY <1>1 DEF StoredInTurn
  <2>2. BeginsAt(fd, 1) => \A k \in 1 .. Len(stored) : stored[k] < Wire(fd)[1].of
    BY <2>1 DEF InTurn, BeginsAt
  <2> QED
    BY <1>8, <2>1, <2>2 DEF StoredInTurn
<1>11. InTurn'
  <2>1. SUFFICES ASSUME program = "log_sender", NEW x \in Fds, NEW i \in 1 .. Len(conn'[x].wire),
                        conn'[x].wire[i].part = "begin"
                 PROVE  /\ \A j \in 1 .. Len(conn'[x].wire) : i < j /\ conn'[x].wire[j].part = "begin" =>
                             conn'[x].wire[i].of < conn'[x].wire[j].of
                        /\ \A j \in 1 .. Len(stored') : stored'[j] < conn'[x].wire[i].of
    BY <1>1 DEF InTurn, BeginsAt, Wire
  <2>2. BeginsAt(x, at(x, i)) /\ at(x, i) \in 1 .. Len(Wire(x)) /\ conn'[x].wire[i] = Wire(x)[at(x, i)]
    BY <1>2, <2>1
  <2>3. ASSUME NEW j \in 1 .. Len(conn'[x].wire), i < j, conn'[x].wire[j].part = "begin"
        PROVE  conn'[x].wire[i].of < conn'[x].wire[j].of
    <3>1. BeginsAt(x, at(x, j)) /\ at(x, j) \in 1 .. Len(Wire(x)) /\ conn'[x].wire[j] = Wire(x)[at(x, j)]
      BY <1>2, <2>3
    <3>2. at(x, i) < at(x, j)
      <4>1. i \in Nat /\ j \in Nat /\ Moved(fd, n, x) \in Nat
        BY <1>2, <1>3
      <4> QED
        BY <2>3, <4>1 DEF at
    <3> QED
      BY <2>1, <2>2, <3>1, <3>2 DEF InTurn
  <2>4. \A j \in 1 .. Len(stored) : stored[j] < conn'[x].wire[i].of
    BY <2>1, <2>2 DEF InTurn
  <2>5. ASSUME BeginsAt(fd, 1) PROVE Wire(fd)[1].of < conn'[x].wire[i].of
    <3>1. x = fd
      <4>1. Wire(x) # <<>> /\ Wire(fd) # <<>>
        BY <2>2, <2>5, NoParts DEF BeginsAt
      <4>2. Open(x) /\ Open(fd)
        BY <4>1 DEF Base, Connections, Open
      <4> QED
        BY <2>1, <4>2 DEF Base, OneConnection
    <3>2. 1 < at(x, i)
      <4>1. at(x, i) = i + n /\ i \in Nat /\ i >= 1
        BY <1>2, <3>1 DEF at, Moved
      <4> QED
        BY <1>1, <4>1
    <3>3. 1 \in 1 .. Len(Wire(fd))
      BY <2>5 DEF BeginsAt
    <3> QED
      BY <2>1, <2>2, <2>5, <3>1, <3>2, <3>3 DEF InTurn
  <2>6. \A j \in 1 .. Len(stored') : stored'[j] < conn'[x].wire[i].of
    <3>1. CASE stored' = stored
      BY <2>4, <3>1
    <3>2. ASSUME NEW v \in 0 .. Sent, Stores(fd, v), NEW j \in 1 .. Len(stored')
          PROVE  stored'[j] < conn'[x].wire[i].of
      <4>1. (j \in 1 .. Len(stored) /\ stored'[j] = stored[j]) \/ stored'[j] = v
        BY <1>1, <3>2, RecvStores
      <4>2. v = Altered \/ (BeginsAt(fd, 1) /\ v = Wire(fd)[1].of)
        BY <3>2 DEF Stores
      <4>3. Altered < conn'[x].wire[i].of
        <5>1. conn'[x].wire[i].of \in 1 .. Sent
          BY <1>4, <2>1
        <5>2. \A k \in 1 .. Sent : Altered < k
          BY <1>1 DEF Altered
        <5> QED
          BY ONLY <5>1, <5>2
      <4>4. v < conn'[x].wire[i].of
        BY <2>5, <4>2, <4>3
      <4> QED
        BY <2>4, <4>1, <4>4
    <3> QED
      BY <3>1, <3>2, RecvStores
  <2> QED
    BY <2>3, <2>6
<1> QED
  BY <1>9, <1>10, <1>11

LEMMA RecvMessagewise ==
  ASSUME Base, OnlyOnce, Messagewise, NEW fd \in Fds, NEW n \in Nat, Received(fd, n)
  PROVE  Messagewise'
<1> SUFFICES ASSUME ~ torn PROVE
       /\ \A x \in Fds : Formed(conn'[x].wire)
       /\ reading' # NoFd /\ HasBlank(msg_rscv_buffer'[2]) =>
             conn'[reading'].wire # <<>> /\ conn'[reading'].wire[1].part = "pad"
       /\ msg_rscv_buffer'[2] # Garbage
       /\ \A i \in 1 .. Len(stored') : stored'[i] # Altered
  BY DEF Messagewise, Wire, Received
<1> DEFINE w == Wire(fd)
           len == Len(w)
           rest == conn'[fd].wire
<1>1. /\ n >= 1 /\ n <= 3 /\ len \in Nat /\ n <= len
      /\ Len(rest) = len - n
      /\ \A i \in 1 .. len - n : rest[i] = w[i + n]
  <2>1. \A i \in 1 .. Len(rest) : rest[i] = w[i + n]
    BY RecvMoves DEF Moved
  <2> QED
    BY <2>1, RecvMoves
<1>2. /\ \A i \in 1 .. len : w[i] # Garbage
      /\ \A i \in 1 .. len - 1 : Comes(w[i], w[i + 1])
      /\ w[len].part = "pad"
  <2>1. Formed(w)
    BY DEF Messagewise
  <2>2. len # 0
    BY <1>1
  <2>3. w # <<>>
    BY <2>2, NoParts
  <2> QED
    BY <2>1, <2>3 DEF Formed
<1>3. \A i \in 1 .. len : w[i].part \in {"begin", "rest", "pad"} /\ w[i] \in WireParts
  BY <1>2, RecvMoves, SpecialParts
<1>4. Buffer(fd, n)[1] = w[1] /\ (n >= 2 => Buffer(fd, n)[2] = w[2])
      /\ (n = 1 => Buffer(fd, n)[2] = msg_rscv_buffer[2])
  BY <1>1 DEF Buffer
<1>5. rest # <<>> => Len(rest) # 0
  BY RecvMoves
<1> HIDE DEF len
<1>6. \A x \in Fds : Formed(conn'[x].wire)
  <2>1. \A x \in Fds : x # fd => Formed(conn'[x].wire)
    BY DEF Received, Messagewise, Wire
  <2>2. ASSUME NEW i \in 1 .. len - n PROVE rest[i] # Garbage
    <3>1. i + n \in 1 .. len
      BY <1>1
    <3>2. rest[i] = w[i + n]
      BY <1>1
    <3> QED
      BY <1>2, <3>1, <3>2
  <2>3. ASSUME NEW i \in 1 .. (len - n) - 1 PROVE Comes(rest[i], rest[i + 1])
    <3>1. i \in 1 .. len - n /\ i + 1 \in 1 .. len - n /\ i + n \in 1 .. len - 1
      BY <1>1
    <3>2. rest[i] = w[i + n] /\ rest[i + 1] = w[(i + 1) + n]
      BY <1>1, <3>1
    <3>3. (i + 1) + n = (i + n) + 1
      BY <1>1
    <3>4. Comes(w[i + n], w[(i + n) + 1])
      BY <1>2, <3>1
    <3> QED
      BY <3>2, <3>3, <3>4
  <2>4. ASSUME rest # <<>> PROVE rest[len - n].part = "pad"
    <3>1. len - n \in 1 .. len - n /\ (len - n) + n = len
      BY <1>1, <1>5, <2>4
    <3>2. rest[len - n] = w[(len - n) + n]
      BY <1>1, <3>1
    <3> QED
      BY <1>2, <3>1, <3>2
  <2>5. Formed(rest)
    BY <1>1, <2>2, <2>3, <2>4 DEF Formed
  <2> QED
    BY <2>1, <2>5
<1>7. n >= 2 => Comes(w[1], w[2])
  <2>1. n >= 2 => 1 \in 1 .. len - 1 /\ 1 + 1 = 2
    BY <1>1
  <2> QED
    BY <1>2, <2>1
<1>8. n = 3 => Comes(w[2], w[3])
  <2>1. n = 3 => 2 \in 1 .. len - 1 /\ 2 + 1 = 3
    BY <1>1
  <2> QED
    BY <1>2, <2>1
<1>9. n < 3 => msg_rscv_buffer' = Cleared /\ reading' = NoFd
  BY DEF Received, RecvOf
<1>10. n = 3 => /\ reading' = fd
                /\ \/ msg_rscv_buffer' = AfterParse(Buffer(fd, n))
                   \/ /\ msg_rscv_buffer' = Buffer(fd, n)
                      /\ ~ (Begins(Buffer(fd, n)) /\ HasBlank(w[2]))
  BY <1>4 DEF Received, RecvOf
<1>11. AfterParse(Buffer(fd, n))[2] = CutOff
  BY DEF AfterParse, Buffer
<1>12. msg_rscv_buffer'[2] # Garbage
  <2>1. CASE n < 3
    BY <1>9, <2>1, SpecialParts
  <2>2. CASE n = 3
    <3>1. w[2] # Garbage
      BY <1>1, <1>2, <2>2
    <3> QED
      BY <1>4, <1>10, <1>11, <2>2, <3>1, SpecialParts
  <2> QED
    BY <1>1, <2>1, <2>2
<1>13. ASSUME reading' # NoFd, HasBlank(msg_rscv_buffer'[2])
       PROVE  conn'[reading'].wire # <<>> /\ conn'[reading'].wire[1].part = "pad"
  <2>1. n = 3 /\ reading' = fd
    BY <1>1, <1>9, <1>10, <1>13
  <2>2. HasBlank(w[2]) /\ ~ Begins(Buffer(fd, n))
    BY <1>4, <1>10, <1>11, <1>13, <2>1, SpecialParts
  <2>3. w[1].part # "begin" /\ w[1].part \in {"begin", "rest", "pad"}
    BY <1>1, <1>3, <1>4, <2>2 DEF Begins
  <2>4. w[2].part = "begin" \/ w[2].part = "rest"
    BY <2>2 DEF HasBlank
  <2>5. w[2].part = "begin"
    <3>1. w[1].part = "rest" => w[2].part = "pad"
      BY <1>7, <2>1, Fields DEF Comes
    <3>2. w[1].part = "pad" => w[2].part = "begin"
      BY <1>7, <2>1 DEF Comes
    <3> QED
      BY <2>3, <2>4, <3>1, <3>2
  <2>6. w[3].part = "rest" /\ w[3] # Garbage
    <3>1. w[3] = Part(w[2].of, "rest")
      BY <1>8, <2>1, <2>5 DEF Comes
    <3> QED
      BY <3>1, Fields, SpecialParts
  <2>7. len # 3
    BY <1>2, <2>6
  <2>8. 3 \in 1 .. len - 1 /\ 3 + 1 = 4 /\ 1 \in 1 .. len - n /\ 1 + n = 4
    BY <1>1, <2>1, <2>7
  <2>9. w[4].part = "pad"
    <3>1. Comes(w[3], w[4])
      BY <1>2, <2>8
    <3> QED
      BY <2>6, <3>1, Fields DEF Comes
  <2>10. rest[1] = w[4]
    BY <1>1, <2>8
  <2>11. Len(rest) # 0
    BY <1>1, <2>8
  <2> QED
    BY <2>1, <2>9, <2>10, <2>11, NoParts
<1>14. \A i \in 1 .. Len(stored') : stored'[i] # Altered
  <2>1. CASE stored' = stored
    BY <2>1 DEF Messagewise
  <2>2. CASE stored' # stored
    <3>1. /\ Begins(Buffer(fd, n))
          /\ HasBlank(Buffer(fd, n)[2]) \/ Buffer(fd, n)[2] = Garbage
          /\ stored' = Append(stored, Log(Buffer(fd, n)))
      BY <2>2 DEF Received, RecvOf
    <3>2. w[1].part = "begin"
      BY <1>4, <3>1 DEF Begins
    <3>3. n >= 2
      <4>1. SUFFICES ASSUME n = 1 PROVE FALSE
        BY <1>1
      <4>2. reading = fd /\ fd # NoFd /\ msg_rscv_buffer[2] # Garbage
        BY Rooms DEF Received, Messagewise
      <4>3. w[1].part = "pad"
        BY <1>4, <3>1, <4>1, <4>2 DEF Messagewise
      <4> QED
        BY <3>2, <4>3
    <3>4. w[2] = Part(w[1].of, "rest")
      BY <1>7, <3>2, <3>3 DEF Comes
    <3>5. Log(Buffer(fd, n)) = w[1].of
      BY <1>4, <3>3, <3>4 DEF Log
    <3>6. w[1].of # Altered
      <4>1. BeginsAt(fd, 1) /\ 1 \in 1 .. Len(Wire(fd))
        BY <1>1, <3>2 DEF BeginsAt, len
      <4>2. w[1].of \in 1 .. Sent
        BY <4>1 DEF OnlyOnce
      <4> QED
        BY <4>2, SentNat DEF Altered
    <3>7. stored \in Seq(Messages \cup {Altered}) /\ w[1].of \in Messages \cup {Altered}
      <4>1. w[1] # Garbage /\ w[1] \in WireParts
        BY <1>1, <1>2, <1>3
      <4> QED
        BY <4>1, SpecialParts DEF Base, ServerTypes
    <3>8. stored' = Append(stored, w[1].of)
      BY <3>1, <3>5
    <3> HIDE DEF w, rest
    <3> DEFINE m == Wire(fd)[1].of
    <3>9. m # Altered /\ stored' = Append(stored, m) /\ m \in Messages \cup {Altered}
      BY <3>6, <3>7, <3>8 DEF w
    <3> HIDE DEF m
    <3>10. /\ Len(stored') = Len(stored) + 1 /\ Len(stored) \in Nat
           /\ \A i \in 1 .. Len(stored) : stored'[i] = stored[i]
           /\ stored'[Len(stored) + 1] = m
      BY <3>7, <3>9, AddLast, LenProperties
    <3>11. \A i \in 1 .. Len(stored') : i \in 1 .. Len(stored) \/ i = Len(stored) + 1
      BY <3>10
    <3> QED
      BY <3>9, <3>10, <3>11 DEF Messagewise
  <2> QED
    BY <2>1, <2>2
<1> QED
  BY <1>6, <1>12, <1>13, <1>14

LEMMA RecvWhole ==
  ASSUME Base, Messagewise, Arriving, NEW fd \in Fds, NEW n \in Nat, Received(fd, n), Whole'
  PROVE  Whole /\ n = 3
<1>1. Whole /\ ~ torn /\ ~ (n < 3 /\ Wire(fd)[n].part # "pad")
  <2>1. ~ torn' /\ ~ cut' /\ ~ broken'
    BY DEF Whole
  <2> QED
    BY <2>1 DEF Whole, Received, RecvOf
<1>2. n >= 1 /\ n <= 3 /\ Len(Wire(fd)) \in Nat /\ n <= Len(Wire(fd))
  BY RecvMoves
<1>3. \A i \in 1 .. Len(Wire(fd)) - 1 : Comes(Wire(fd)[i], Wire(fd)[i + 1])
  BY <1>1 DEF Messagewise, Formed
<1>4. Wire(fd)[1].part = "begin"
  <2>1. Len(Wire(fd)) # 0
    BY <1>2
  <2>2. Wire(fd) # <<>>
    BY <2>1, NoParts
  <2> QED
    BY <1>1, <2>2 DEF Arriving, BeginsAt
<1>5. CASE n = 1
  BY <1>1, <1>4, <1>5
<1>6. CASE n = 2
  <2>1. 1 \in 1 .. Len(Wire(fd)) - 1 /\ 1 + 1 = 2
    BY <1>2, <1>6
  <2>2. Comes(Wire(fd)[1], Wire(fd)[2])
    BY <1>3, <2>1
  <2>3. Wire(fd)[2].part = "rest"
    BY <1>4, <2>2, Fields DEF Comes
  <2> QED
    BY <1>1, <1>6, <2>3
<1> QED
  BY <1>1, <1>2, <1>5, <1>6

LEMMA RecvArriving ==
  ASSUME Base, OnlyOnce, Messagewise, Arriving, NEW fd \in Fds, NEW n \in Nat, Received(fd, n)
  PROVE  Arriving'
<1> SUFFICES ASSUME Whole' PROVE
       /\ \A x \in Fds : conn'[x].wire # <<>> => 1 \in 1 .. Len(conn'[x].wire) /\ conn'[x].wire[1].part = "begin"
       /\ \A m \in (1 .. Sent) \ Overlong :
             \/ \E i \in 1 .. Len(stored') : stored'[i] = m
             \/ \E x \in Fds : \E i \in 1 .. Len(conn'[x].wire) :
                   conn'[x].wire[i].part = "begin" /\ conn'[x].wire[i].of = m
  BY DEF Arriving, Arrived, BeginsAt, Wire, Received
<1> DEFINE w == Wire(fd)
           len == Len(w)
           rest == conn'[fd].wire
<1>1. Whole /\ ~ torn /\ n = 3
  BY RecvWhole DEF Whole
<1>2. /\ n >= 1 /\ n <= 3 /\ len \in Nat /\ n <= len
      /\ Len(rest) = len - n
      /\ \A i \in 1 .. len - n : rest[i] = w[i + n]
  <2>1. \A i \in 1 .. Len(rest) : rest[i] = w[i + n]
    BY RecvMoves DEF Moved
  <2> QED
    BY <2>1, RecvMoves
<1>3. \A i \in 1 .. len - 1 : Comes(w[i], w[i + 1])
  BY <1>1 DEF Messagewise, Formed
<1>4. BeginsAt(fd, 1) /\ w[1].part = "begin"
  <2>1. len # 0
    BY <1>2
  <2>2. w # <<>>
    BY <2>1, NoParts
  <2> QED
    BY <1>1, <2>2 DEF Arriving, BeginsAt
<1> HIDE DEF len
<1>5. len >= 2 => w[2] = Part(w[1].of, "rest")
  <2>1. len >= 2 => 1 \in 1 .. len - 1 /\ 1 + 1 = 2
    BY <1>2
  <2>2. len >= 2 => Comes(w[1], w[2])
    BY <1>3, <2>1
  <2> QED
    BY <1>4, <2>2 DEF Comes
<1>6. n = 3
  BY <1>1
<1>7. w[2].part = "rest" /\ w[3].part = "pad"
  <2>1. w[2].part = "rest"
    BY <1>2, <1>5, <1>6, Fields
  <2>2. 2 \in 1 .. len - 1 /\ 2 + 1 = 3
    BY <1>2, <1>6
  <2>3. Comes(w[2], w[3])
    BY <1>3, <2>2
  <2> QED
    BY <2>1, <2>3, Fields DEF Comes
<1>8. \A x \in Fds : conn'[x].wire # <<>> => 1 \in 1 .. Len(conn'[x].wire) /\ conn'[x].wire[1].part = "begin"
  <2>1. \A x \in Fds : x # fd /\ conn'[x].wire # <<>> =>
           1 \in 1 .. Len(conn'[x].wire) /\ conn'[x].wire[1].part = "begin"
    BY <1>1 DEF Received, Arriving, BeginsAt, Wire
  <2>2. ASSUME rest # <<>> PROVE 1 \in 1 .. Len(rest) /\ rest[1].part = "begin"
    <3>1. Len(rest) # 0
      BY <2>2, RecvMoves
    <3>2. 1 \in 1 .. len - n /\ 1 + n = 4 /\ 3 \in 1 .. len - 1 /\ 3 + 1 = 4
      BY <1>2, <1>6, <3>1
    <3>3. rest[1] = w[4] /\ Comes(w[3], w[4])
      BY <1>2, <1>3, <3>2
    <3> QED
      BY <1>2, <1>7, <3>2, <3>3 DEF Comes
  <2> QED
    BY <2>1, <2>2
<1>9. ASSUME NEW m \in (1 .. Sent) \ Overlong
      PROVE  \/ \E i \in 1 .. Len(stored') : stored'[i] = m
             \/ \E x \in Fds : \E i \in 1 .. Len(conn'[x].wire) :
                   conn'[x].wire[i].part = "begin" /\ conn'[x].wire[i].of = m
  <2>1. Arrived(m)
    BY <1>1 DEF Arriving
  <2>2. ASSUME NEW i \in 1 .. Len(stored), stored[i] = m
        PROVE  \E j \in 1 .. Len(stored') : stored'[j] = m
    <3>1. CASE stored' = stored
      BY <2>2, <3>1
    <3>2. ASSUME NEW v, Stores(fd, v) PROVE \E j \in 1 .. Len(stored') : stored'[j] = m
      <4>1. i \in 1 .. Len(stored') /\ stored'[i] = m
        BY <2>2, <3>2, RecvStores
      <4> QED
        BY <4>1
    <3> QED
      BY <3>1, <3>2, RecvStores
  <2>3. ASSUME NEW x \in Fds, x # fd, NEW i \in 1 .. Len(Wire(x)), BeginsAt(x, i), Wire(x)[i].of = m
        PROVE  \E j \in 1 .. Len(conn'[x].wire) : conn'[x].wire[j].part = "begin" /\ conn'[x].wire[j].of = m
    BY <2>3 DEF Received, BeginsAt, Wire
  <2>4. ASSUME NEW i \in 1 .. len, i # 1, BeginsAt(fd, i), w[i].of = m
        PROVE  \E j \in 1 .. Len(rest) : rest[j].part = "begin" /\ rest[j].of = m
    <3>1. w[i].part = "begin"
      BY <2>4 DEF BeginsAt
    <3>2. i # 2 /\ i # 3
      BY <1>7, <3>1
    <3>3. i - 3 \in 1 .. len - n /\ (i - 3) + n = i
      BY <1>2, <1>6, <2>4, <3>2
    <3>4. rest[i - 3] = w[i]
      BY <1>2, <3>3
    <3> QED
      BY <1>2, <2>4, <3>1, <3>3, <3>4
  <2>5. ASSUME w[1].of = m PROVE \E j \in 1 .. Len(stored') : stored'[j] = m
    <3>1. Buffer(fd, n)[1] = w[1] /\ Buffer(fd, n)[2] = w[2]
      BY <1>2, <1>6 DEF Buffer
    <3>2. w[2] = Part(m, "rest")
      BY <1>2, <1>5, <1>6, <2>5
    <3>3. Begins(Buffer(fd, n)) /\ HasBlank(Buffer(fd, n)[2]) /\ Log(Buffer(fd, n)) = m
      BY <1>4, <2>5, <3>1, <3>2, Fields DEF Begins, HasBlank, Log
    <3>4. stored' = Append(stored, m)
      BY <3>3 DEF Received, RecvOf
    <3>5. Stores(fd, m)
      BY <1>4, <2>5, <3>4 DEF Stores
    <3>6. /\ Len(stored) \in Nat /\ Len(stored') = Len(stored) + 1
          /\ stored'[Len(stored) + 1] = m
      BY <3>5, RecvStores
    <3>7. Len(stored) + 1 \in 1 .. Len(stored')
      BY <3>6
    <3> QED
      BY <3>6, <3>7
  <2> QED
    BY <2>1, <2>2, <2>3, <2>4, <2>5 DEF Arrived, len
<1> QED
  BY <1>8, <1>9

LEMMA RecvFlow ==
  ASSUME Base, Flow, NEW fd \in Fds, Recv(fd)
  PROVE  Flow'
<1>1. PICK n \in Nat : RecvOf(fd, n)
  BY RecvBase
<1>2. Received(fd, n)
  <2>1. reading = fd /\ \A x \in Fds : x # fd => conn'[x] = conn[x]
    BY RecvBase
  <2>2. Sent' = Sent /\ UNCHANGED <<program, torn, broken>>
    BY DEF Recv, queueVars, loopVars, Sent, Holding, Taken
  <2> QED
    BY <1>1, <2>1, <2>2 DEF Received
<1> QED
  BY <1>2, RecvOnlyOnce, RecvMessagewise, RecvArriving DEF Flow

-----------------------------------------------------------------------------
(* The connections of short_sender, one for each message.                  *)
LEMMA OthersOneEach ==
  ASSUME Base, OneEach, Whole' => Whole, program' = program, NEW fd \in Fds,
         \A x \in Fds : x # fd => /\ conn'[x].wire = Wire(x) /\ conn'[x].acks = conn[x].acks
                                  /\ mode'[x] = mode[x]
                                  /\ x \in fd_ack_set' => x \in fd_ack_set
                                  /\ x = reading' => x = reading,
         program = "short_sender" /\ Whole /\ Whole' =>
            IF mode'[fd] = "write"
              THEN conn'[fd].wire = <<>> /\ conn'[fd].acks = 0 /\ fd \notin fd_ack_set' /\ fd # reading'
              ELSE \/ conn'[fd].wire = <<>>
                   \/ Len(conn'[fd].wire) = 3 /\ fd \notin fd_ack_set' /\ conn'[fd].acks = 0
  PROVE  OneEach'
<1> SUFFICES ASSUME program = "short_sender", Whole', NEW x \in Fds
             PROVE  IF mode'[x] = "write"
                      THEN conn'[x].wire = <<>> /\ conn'[x].acks = 0 /\ x \notin fd_ack_set' /\ x # reading'
                      ELSE \/ conn'[x].wire = <<>>
                           \/ Len(conn'[x].wire) = 3 /\ x \notin fd_ack_set' /\ conn'[x].acks = 0
  BY DEF OneEach, Unused, Wire
<1>1. Whole /\ IF mode[x] = "write"
                 THEN Wire(x) = <<>> /\ conn[x].acks = 0 /\ x \notin fd_ack_set /\ x # reading
                 ELSE \/ Wire(x) = <<>>
                      \/ Len(Wire(x)) = 3 /\ x \notin fd_ack_set /\ conn[x].acks = 0
  BY DEF OneEach, Unused
<1>2. CASE x = fd
  BY <1>1, <1>2
<1>3. CASE x # fd
  BY <1>1, <1>3
<1> QED
  BY <1>2, <1>3

LEMMA SameOneEach ==
  ASSUME Base, OneEach, Whole' => Whole, program' = program,
         \A x \in Fds : /\ conn'[x].wire = Wire(x) /\ conn'[x].acks = conn[x].acks
                        /\ mode'[x] = mode[x]
                        /\ x \in fd_ack_set' => x \in fd_ack_set
                        /\ x = reading' => x = reading
  PROVE  OneEach'
<1> SUFFICES ASSUME program = "short_sender", Whole', NEW x \in Fds
             PROVE  IF mode'[x] = "write"
                      THEN conn'[x].wire = <<>> /\ conn'[x].acks = 0 /\ x \notin fd_ack_set' /\ x # reading'
                      ELSE \/ conn'[x].wire = <<>>
                           \/ Len(conn'[x].wire) = 3 /\ x \notin fd_ack_set' /\ conn'[x].acks = 0
  BY DEF OneEach, Unused, Wire
<1> QED
  BY DEF OneEach, Unused

LEMMA ForgottenFd ==
  ASSUME Base, NEW fd \in Fds, ServerForgets(fd)
  PROVE  /\ fd \notin fd_ack_set' /\ fd # reading'
         /\ \A x \in Fds : x \in fd_ack_set' => x \in fd_ack_set
         /\ \A x \in Fds : x = reading' => x = reading
BY Rooms DEF ServerForgets

LEMMA SenderOneEach ==
  ASSUME Base, Flow, OneEach, Waiting, program = "short_sender", Produce \/ Sender
  PROVE  OneEach'
<1> USE DEF netVars, serverVars, queueVars, loopVars
<1>1. CASE Produce
  BY <1>1, SameOneEach DEF Produce, Whole, Wire
<1>2. CASE Epoll_Wait
  BY <1>2, SameOneEach DEF Epoll_Wait, Whole, Wire
<1>3. CASE NextEvent
  BY <1>3, SameOneEach DEF NextEvent, Whole, Wire
<1>4. CASE TakeMessage
  BY <1>4, SameOneEach DEF TakeMessage, Whole, Wire
<1>5. CASE Spin
  BY <1>5, SameOneEach DEF Spin, Whole, Wire
<1>6. CASE GiveUpConnection
  <2>1. event.fd \in Fds
    BY <1>6, AtEvent DEF GiveUpConnection, Busy
  <2>2. conn' = [conn EXCEPT ![event.fd] = NoConn] /\ ServerForgets(event.fd)
        /\ UNCHANGED <<program, mode, torn, cut, broken>>
    BY <1>6 DEF GiveUpConnection, Closed
  <2>3. conn'[event.fd] = NoConn /\ \A x \in Fds : x # event.fd => conn'[x] = conn[x]
    BY <2>1, <2>2 DEF Base, NetTypes
  <2>4. conn'[event.fd].wire = <<>> /\ conn'[event.fd].acks = 0
    BY <2>3, Records
  <2>5. Whole' => Whole
    BY <2>2 DEF Whole
  <2> DEFINE fd == event.fd
  <2> HIDE DEF fd
  <2>6. /\ fd \in Fds /\ conn'[fd].wire = <<>> /\ conn'[fd].acks = 0 /\ ServerForgets(fd)
        /\ \A x \in Fds : x # fd => conn'[x] = conn[x]
    BY <2>1, <2>2, <2>3, <2>4 DEF fd
  <2> QED
    BY <2>2, <2>5, <2>6, ForgottenFd, OthersOneEach DEF Wire
<1>7. CASE CloseShort
  <2> DEFINE fd == event.fd
  <2>1. /\ fd \in Fds /\ conn'[fd] = NoConn /\ \A x \in Fds : x # fd => conn'[x] = conn[x]
        /\ ServerForgets(fd) /\ UNCHANGED <<program, mode, torn, cut, broken>>
    BY <1>7, CloseShortBase DEF CloseShort
  <2> HIDE DEF fd
  <2>2. conn'[fd].wire = <<>> /\ conn'[fd].acks = 0
    BY <2>1, Records
  <2>3. Whole' => Whole
    BY <2>1 DEF Whole
  <2> QED
    BY <2>1, <2>2, <2>3, ForgottenFd, OthersOneEach DEF Wire
<1>8. CASE SendAll
  <2> DEFINE fd == event.fd
  <2>1. /\ fd \in Fds /\ mode[fd] = "write" /\ spc = "send"
        /\ conn'[fd].wire = Wire(fd) \o sending /\ conn'[fd].acks = conn[fd].acks
        /\ \A x \in Fds : x # fd => conn'[x] = conn[x]
    BY <1>8, SendAllBase, AtEvent DEF SendAll, Busy
  <2>2. /\ mode' = [mode EXCEPT ![fd] = "read"]
        /\ UNCHANGED <<program, reading, fd_ack_set, torn, cut, broken>>
    BY <1>8 DEF SendAll, SetRead
  <2> HIDE DEF fd
  <2>3. mode'[fd] = "read" /\ \A x \in Fds : x # fd => mode'[x] = mode[x]
    BY <2>1, <2>2 DEF Base, LoopTypes
  <2>4. Whole' => Whole
    BY <2>2 DEF Whole
  <2>5. ASSUME Whole
        PROVE  Len(conn'[fd].wire) = 3 /\ fd \notin fd_ack_set /\ conn'[fd].acks = 0
    <3>1. Unused(fd)
      BY <2>1, <2>5 DEF OneEach
    <3>2. sending = Parts(Taken) /\ Taken \in Messages
      BY <2>1, <2>5, Hand DEF Whole
    <3>3. conn'[fd].wire = <<>> \o Parts(Taken)
      BY <2>1, <3>1, <3>2 DEF Unused
    <3>4. Len(conn'[fd].wire) = 0 + 3
      BY <3>2, <3>3, NoParts, AddMessage
    <3> QED
      BY <2>1, <3>1, <3>4 DEF Unused
  <2> QED
    BY <2>1, <2>2, <2>3, <2>4, <2>5, OthersOneEach DEF Wire
<1>9. CASE SendPart
  BY <1>9 DEF SendPart, OneEach, Whole
<1>10. CASE FailToSend
  <2> DEFINE fd == event.fd
  <2>1. fd \in Fds /\ mode[fd] = "write"
    BY <1>10, AtEvent DEF FailToSend, Busy
  <2>2. /\ mode' = [mode EXCEPT ![fd] = "read"]
        /\ UNCHANGED <<conn, program, reading, fd_ack_set, torn, cut>> /\ (~ broken' => ~ broken)
    BY <1>10 DEF FailToSend, SetRead
  <2> HIDE DEF fd
  <2>3. mode'[fd] = "read" /\ \A x \in Fds : x # fd => mode'[x] = mode[x]
    BY <2>1, <2>2 DEF Base, LoopTypes
  <2>4. Whole' => Whole
    BY <2>2 DEF Whole
  <2>5. Whole => conn'[fd].wire = <<>>
    BY <2>1, <2>2 DEF OneEach, Unused, Wire
  <2> QED
    BY <2>1, <2>2, <2>3, <2>4, <2>5, OthersOneEach DEF Wire
<1>11. CASE EndEvents
  <2>1. /\ conn' = [fd \in Fds |-> IF Open(fd) THEN conn[fd] ELSE Connecting]
        /\ mode' = [fd \in Fds |-> IF Open(fd) THEN mode[fd] ELSE "write"]
        /\ UNCHANGED <<program, reading, fd_ack_set, torn, cut, broken>>
    BY <1>11 DEF EndEvents
  <2>2. Whole' => Whole
    BY <2>1 DEF Whole
  <2>3. \A x \in Fds : IF Open(x) THEN conn'[x] = conn[x] /\ mode'[x] = mode[x]
                       ELSE /\ conn'[x].wire = <<>> /\ conn'[x].acks = 0
                            /\ x \notin fd_ack_set /\ x # reading
    BY <2>1, Records DEF Base, Connections, Open
  <2> SUFFICES ASSUME Whole, NEW x \in Fds
               PROVE  IF mode'[x] = "write"
                        THEN conn'[x].wire = <<>> /\ conn'[x].acks = 0 /\ x \notin fd_ack_set' /\ x # reading'
                        ELSE \/ conn'[x].wire = <<>>
                             \/ Len(conn'[x].wire) = 3 /\ x \notin fd_ack_set' /\ conn'[x].acks = 0
    BY <2>1, <2>2 DEF OneEach, Unused, Wire
  <2>4. CASE Open(x)
    BY <2>1, <2>3, <2>4 DEF OneEach, Unused, Wire
  <2>5. CASE ~ Open(x)
    BY <2>1, <2>3, <2>5
  <2> QED
    BY <2>4, <2>5
<1>12. ~ (DropAcks \/ Reconnect \/ SetWrite)
  BY DEF DropAcks, Reconnect, SetWrite
<1> QED
  BY <1>1, <1>2, <1>3, <1>4, <1>5, <1>6, <1>7, <1>8, <1>9, <1>10, <1>11, <1>12 DEF Sender

LEMMA ServerOneEach ==
  ASSUME Base, Flow, OneEach, program = "short_sender",
         Crash \/ Restart \/ \E fd \in Fds : Server(fd)
  PROVE  OneEach'
<1> USE DEF netVars, serverVars, queueVars, loopVars
<1>1. CASE Crash
  <2>1. \A x \in Fds : /\ conn'[x].acks = conn[x].acks
                       /\ ~ broken' => conn'[x].wire = conn[x].wire
    BY <1>1, CrashBase DEF Wire
  <2>2. (Whole' => Whole /\ ~ broken') /\ UNCHANGED <<program, mode>> /\ fd_ack_set' = {} /\ reading' = NoFd
    BY <1>1 DEF Crash, Whole
  <2>3. CASE broken'
    BY <2>2, <2>3 DEF OneEach
  <2>4. CASE ~ broken'
    BY <2>1, <2>2, <2>4, Rooms, SameOneEach DEF Wire
  <2> QED
    BY <2>3, <2>4
<1>2. CASE Restart
  BY <1>2, SameOneEach DEF Restart, Whole, Wire
<1>3. ASSUME NEW fd \in Fds, Establish(fd) PROVE OneEach'
  <2>1. \A x \in Fds : conn'[x].wire = conn[x].wire /\ conn'[x].acks = conn[x].acks
    BY <1>3, EstablishBase
  <2> QED
    BY <1>3, <2>1, SameOneEach DEF Establish, Whole, Wire
<1>4. ASSUME NEW fd \in Fds, Refuse(fd) PROVE OneEach'
  <2>1. \A x \in Fds : conn'[x].wire = conn[x].wire /\ conn'[x].acks = conn[x].acks
    BY <1>4, RefuseBase
  <2> QED
    BY <1>4, <2>1, SameOneEach DEF Refuse, Whole, Wire
<1>5. ASSUME NEW fd \in Fds, BeginRead(fd) PROVE OneEach'
  <2>1. /\ Wire(fd) # <<>> /\ reading' = fd
        /\ UNCHANGED <<conn, mode, program, fd_ack_set, torn, cut, broken>>
    BY <1>5, BeginReadBase DEF BeginRead
  <2>2. Whole' => Whole
    BY <2>1 DEF Whole
  <2> QED
    BY <2>1, <2>2, OthersOneEach DEF OneEach, Unused, Wire
<1>6. ASSUME NEW fd \in Fds, Recv(fd) PROVE OneEach'
  <2>1. PICK n \in Nat : RecvOf(fd, n)
    BY <1>6, RecvBase
  <2>2. Received(fd, n) /\ conn'[fd].acks = conn[fd].acks
    <3>1. reading = fd /\ conn'[fd].acks = conn[fd].acks /\ \A x \in Fds : x # fd => conn'[x] = conn[x]
      BY <1>6, RecvBase
    <3>2. Sent' = Sent /\ UNCHANGED <<program, torn, broken>>
      BY <1>6 DEF Recv, Sent, Holding, Taken
    <3> QED
      BY <2>1, <3>1, <3>2 DEF Received
  <2>3. fd_ack_set' = fd_ack_set \cup {fd} /\ UNCHANGED mode /\ reading' \in {NoFd, fd}
    BY <1>6, <2>1 DEF Recv, RecvOf
  <2>4. Whole' => Whole /\ n = 3
    BY <2>2, RecvWhole DEF Flow
  <2>5. ASSUME Whole, Whole' PROVE mode[fd] # "write" /\ conn'[fd].wire = <<>>
    <3>1. n = 3 /\ 3 <= Len(Wire(fd)) /\ Len(Wire(fd)) \in Nat /\ Len(conn'[fd].wire) = Len(Wire(fd)) - n
      BY <2>2, <2>4, <2>5, RecvMoves
    <3>2. Wire(fd) # <<>>
      BY <3>1, NoParts
    <3>3. mode[fd] # "write" /\ Len(Wire(fd)) = 3
      BY <2>5, <3>2 DEF OneEach, Unused
    <3>4. ~ Len(conn'[fd].wire) # 0
      BY <3>1, <3>3
    <3> QED
      BY <2>2, <3>3, <3>4, RecvMoves
  <2>6. \A x \in Fds : x # fd => conn'[x] = conn[x] /\ x # reading' /\ (x \in fd_ack_set' => x \in fd_ack_set)
    BY <2>2, <2>3, Rooms DEF Received
  <2>7. program' = program
    BY <2>2 DEF Received
  <2> QED
    BY <2>3, <2>4, <2>5, <2>6, <2>7, OthersOneEach DEF Wire
<1>7. ASSUME NEW fd \in Fds, RecvNothing(fd) PROVE OneEach'
  BY <1>7, Rooms, SameOneEach DEF RecvNothing, Whole, Wire
<1>8. ASSUME NEW fd \in Fds, Ack_to_fd(fd) PROVE OneEach'
  <2>1. \A x \in Fds : conn'[x].wire = Wire(x) /\ (x # fd => conn'[x] = conn[x])
    BY <1>8, Ack_to_fdBase DEF Wire
  <2>2. /\ fd \in fd_ack_set /\ fd_ack_set' = fd_ack_set \ {fd}
        /\ UNCHANGED <<mode, program, reading, torn, cut, broken>>
    BY <1>8 DEF Ack_to_fd
  <2>3. Whole' => Whole
    BY <2>2 DEF Whole
  <2>4. Whole => mode[fd] # "write" /\ conn'[fd].wire = <<>>
    BY <2>1, <2>2 DEF OneEach, Unused
  <2> QED
    BY <2>1, <2>2, <2>3, <2>4, OthersOneEach
<1> QED
  BY <1>1, <1>2, <1>3, <1>4, <1>5, <1>6, <1>7, <1>8 DEF Server

(* Where short_sender waits to read, an event says there is something.     *)
LEMMA WaitingOn ==
  ASSUME Base, Waiting, UNCHANGED <<program, mode>>, batch' = batch,
         spc' = "read" => spc = "read" /\ event' = event,
         \A x \in Fds : Readable(conn[x]) => Readable(conn'[x]),
         \A x \in ready' : x \in ready \/ (mode[x] = "read" => Readable(conn'[x]))
  PROVE  Waiting'
<1>1. /\ \A x \in ready : x \in Fds
      /\ \A e \in batch : e.fd \in Fds
      /\ spc = "read" => event.fd \in Fds
  BY AtEvent DEF Base, NetTypes, LoopTypes, Busy
<1> QED
  BY <1>1 DEF Waiting

LEMMA WaitingDone ==
  ASSUME Base, Waiting, spc \in Busy, spc' = "events", program' = program, batch' \subseteq batch,
         \A x \in Fds : x # event.fd => conn'[x] = conn[x] /\ mode'[x] = mode[x],
         \A x \in ready' : x # event.fd => x \in ready,
         event.fd \in ready' => Readable(conn'[event.fd])
  PROVE  Waiting'
<1>1. /\ \A x \in ready : x \in Fds
      /\ \A e \in batch : e.fd \in Fds /\ e.fd # event.fd
  BY DEF Base, NetTypes, LoopTypes, Events
<1> QED
  BY <1>1 DEF Waiting

LEMMA SenderWaiting ==
  ASSUME Base, Waiting, program = "short_sender", Produce \/ Sender
  PROVE  Waiting'
<1> USE DEF netVars, serverVars, queueVars, loopVars
<1>1. CASE Produce
  BY <1>1, WaitingOn DEF Produce
<1>2. CASE Epoll_Wait
  <2>1. \A e \in batch' : e.fd \in ready
    BY <1>2 DEF Epoll_Wait
  <2> QED
    BY <1>2, <2>1 DEF Epoll_Wait, Waiting
<1>3. CASE NextEvent
  BY <1>3 DEF NextEvent, Waiting
<1>4. CASE TakeMessage
  BY <1>4, WaitingOn DEF TakeMessage
<1>5. CASE Spin
  BY <1>5, WaitingOn DEF Spin
<1>6. CASE GiveUpConnection
  <2>1. spc \in Busy /\ \A x \in Fds : x # event.fd => conn'[x] = conn[x]
    BY <1>6, GiveUpConnectionBase DEF GiveUpConnection, Busy
  <2> QED
    BY <1>6, <2>1, WaitingDone DEF GiveUpConnection
<1>7. CASE CloseShort
  <2>1. spc \in Busy /\ \A x \in Fds : x # event.fd => conn'[x] = conn[x]
    BY <1>7, CloseShortBase DEF CloseShort, Busy
  <2>2. batch' \subseteq batch
    BY <1>7 DEF CloseShort
  <2> QED
    BY <1>7, <2>1, <2>2, WaitingDone DEF CloseShort
<1>8. CASE SendAll \/ FailToSend
  <2>1. spc \in Busy /\ \A x \in Fds : x # event.fd => conn'[x] = conn[x]
    BY <1>8, SendAllBase DEF SendAll, FailToSend, Busy
  <2>2. /\ mode' = [mode EXCEPT ![event.fd] = "read"]
        /\ ready' = IF Readable(conn'[event.fd]) THEN ready \cup {event.fd} ELSE ready \ {event.fd}
        /\ spc' = "events" /\ UNCHANGED <<program, batch>>
    BY <1>8 DEF SendAll, FailToSend, SetRead
  <2>3. \A x \in Fds : x # event.fd => mode'[x] = mode[x]
    BY <2>2 DEF Base, LoopTypes
  <2> QED
    BY <2>1, <2>2, <2>3, WaitingDone
<1>9. CASE SendPart
  <2>1. \A x \in Fds : conn'[x].st = conn[x].st /\ conn'[x].acks = conn[x].acks
    <3>1. PICK n \in 1 .. Len(sending) - 1 :
             conn' = [conn EXCEPT ![event.fd].wire = @ \o SubSeq(sending, 1, n)]
      BY <1>9 DEF SendPart
    <3> DEFINE w == conn[event.fd].wire \o SubSeq(sending, 1, n)
    <3>2. conn' = [conn EXCEPT ![event.fd] = [conn[event.fd] EXCEPT !.wire = w]]
      BY <3>1
    <3> HIDE DEF w
    <3>3. conn \in [Fds -> ConnSet]
      BY DEF Base, NetTypes
    <3> QED
      BY <3>2, <3>3 DEF ConnSet
  <2> QED
    BY <1>9, <2>1, WaitingOn DEF SendPart, Readable
<1>10. CASE EndEvents
  <2>1. /\ batch = {} /\ spc' = "wait" /\ UNCHANGED <<ready, batch, program>>
        /\ conn' = [fd \in Fds |-> IF Open(fd) THEN conn[fd] ELSE Connecting]
        /\ mode' = [fd \in Fds |-> IF Open(fd) THEN mode[fd] ELSE "write"]
    BY <1>10 DEF EndEvents
  <2>2. \A x \in ready : x \in Fds /\ Open(x)
    BY DEF Base, NetTypes
  <2> QED
    BY <2>1, <2>2 DEF Waiting
<1>11. ~ (DropAcks \/ Reconnect \/ SetWrite)
  BY DEF DropAcks, Reconnect, SetWrite
<1> QED
  BY <1>1, <1>2, <1>3, <1>4, <1>5, <1>6, <1>7, <1>8, <1>9, <1>10, <1>11 DEF Sender

LEMMA ServerWaiting ==
  ASSUME Base, Waiting, Crash \/ Restart \/ \E fd \in Fds : Server(fd)
  PROVE  Waiting'
<1> USE DEF netVars, serverVars, queueVars, loopVars
<1>1. CASE Crash
  <2>1. \A x \in Fds : Readable(conn[x]) => Readable(conn'[x])
    BY <1>1, CrashBase DEF Readable
  <2>2. \A x \in ready' : x \in ready \/ Readable(conn'[x])
    BY <1>1, CrashBase DEF Readable
  <2> QED
    BY <1>1, <2>1, <2>2, WaitingOn DEF Crash
<1>2. CASE Restart
  BY <1>2, WaitingOn DEF Restart
<1>3. ASSUME NEW fd \in Fds, Establish(fd) PROVE Waiting'
  <2>1. \A x \in Fds : Readable(conn[x]) => Readable(conn'[x])
    <3>1. conn[fd].st = "connecting"
      BY <1>3 DEF Establish
    <3> QED
      BY <1>3, <3>1, EstablishBase DEF Readable
  <2>2. \A x \in ready' : x \in ready \/ mode[x] = "write"
    BY <1>3 DEF Establish
  <2> QED
    BY <1>3, <2>1, <2>2, WaitingOn DEF Establish
<1>4. ASSUME NEW fd \in Fds, Refuse(fd) PROVE Waiting'
  <2>1. \A x \in Fds : Readable(conn[x]) => Readable(conn'[x])
    BY <1>4, RefuseBase DEF Readable
  <2>2. \A x \in ready' : x \in ready \/ Readable(conn'[x])
    BY <1>4, RefuseBase DEF Refuse, Readable
  <2> QED
    BY <1>4, <2>1, <2>2, WaitingOn DEF Refuse
<1>5. ASSUME NEW fd \in Fds, BeginRead(fd) PROVE Waiting'
  BY <1>5, WaitingOn DEF BeginRead
<1>6. ASSUME NEW fd \in Fds, Recv(fd) PROVE Waiting'
  <2>1. \A x \in Fds : Readable(conn[x]) => Readable(conn'[x])
    <3>1. conn[fd].st = "up"
      <4>1. reading = fd
        BY <1>6, RecvBase
      <4> QED
        BY <4>1 DEF Base, Connections
    <3> QED
      BY <1>6, <3>1, RecvBase DEF Readable
  <2>2. \A x \in ready' : x \in ready \/ mode[x] = "write"
    BY <1>6 DEF Recv
  <2> QED
    BY <1>6, <2>1, <2>2, WaitingOn DEF Recv
<1>7. ASSUME NEW fd \in Fds, RecvNothing(fd) PROVE Waiting'
  BY <1>7, WaitingOn DEF RecvNothing
<1>8. ASSUME NEW fd \in Fds, Ack_to_fd(fd) PROVE Waiting'
  <2>1. \A x \in Fds : Readable(conn[x]) => Readable(conn'[x])
    BY <1>8, Ack_to_fdBase DEF Readable
  <2>2. \A x \in ready' : x \in ready \/ Readable(conn'[x])
    BY <1>8, Ack_to_fdBase DEF Ack_to_fd, Readable
  <2> QED
    BY <1>8, <2>1, <2>2, WaitingOn DEF Ack_to_fd
<1> QED
  BY <1>1, <1>2, <1>3, <1>4, <1>5, <1>6, <1>7, <1>8 DEF Server

-----------------------------------------------------------------------------
(* The inductive invariant, and what follows from it.                      *)
LEMMA InitIInv == Init => IInv
<1> SUFFICES ASSUME Init PROVE IInv
  OBVIOUS
<1>1. Base
  BY InitBase
<1>2. \A fd \in Fds : Wire(fd) = <<>> /\ Len(Wire(fd)) = 0 /\ conn[fd].acks = 0
  <2>1. \A fd \in Fds : conn[fd] = Connecting \/ conn[fd] = NoConn
    BY DEF Init
  <2> QED
    BY <2>1, Records, NoParts DEF Wire
<1>3. Len(stored) = 0 /\ Sent = 0
  <2>1. sending = <<>> /\ stored = <<>> /\ produced = 0 /\ queue = <<>>
    BY DEF Init
  <2> QED
    <3>1. Len(queue) = 0 /\ Len(stored) = 0 /\ produced = 0
      BY <2>1, NoParts, Zenon
    <3>2. Taken = 0
      BY ONLY <3>1 DEF Taken
    <3>3. ~ Holding
      BY <2>1, Zenon DEF Holding
    <3> QED
      BY <3>1, <3>2, <3>3 DEF Sent
<1>4. OnlyOnce /\ InTurn /\ StoredInTurn
  BY <1>2, <1>3 DEF OnlyOnce, InTurn, StoredInTurn
<1>5. Messagewise
  <2>1. \A fd \in Fds : Formed(Wire(fd))
    BY <1>2 DEF Formed
  <2>2. msg_rscv_buffer[2] = Zeros /\ ~ HasBlank(Zeros) /\ Zeros # Garbage
    BY SpecialParts DEF Init
  <2> QED
    BY <1>3, <2>1, <2>2 DEF Messagewise
<1>6. Arriving
  BY <1>2, <1>3 DEF Arriving
<1>7. OneEach
  <2>1. reading = NoFd /\ fd_ack_set = {}
    BY DEF Init
  <2> QED
    BY <1>2, <2>1, Rooms DEF OneEach, Unused
<1>8. Waiting
  BY DEF Init, Waiting
<1> QED
  BY <1>1, <1>4, <1>5, <1>6, <1>7, <1>8 DEF IInv, Flow

LEMMA NextBase ==
  ASSUME Base, Next
  PROVE  Base'
<1>1. CASE Produce
  BY <1>1, ProduceBase
<1>2. CASE Sender
  BY <1>2, Epoll_WaitBase, NextEventBase, GiveUpConnectionBase, TakeMessageBase, SpinBase,
     SendAllBase, SendPartBase, FailToSendBase, DropAcksBase, ReconnectBase, CloseShortBase,
     EndEventsBase, SetWriteBase DEF Sender
<1>3. CASE Crash \/ Restart
  BY <1>3, CrashBase, RestartBase
<1>4. ASSUME NEW fd \in Fds, Server(fd) PROVE Base'
  BY <1>4, EstablishBase, RefuseBase, BeginReadBase, RecvBase, RecvNothingBase, Ack_to_fdBase
     DEF Server
<1> QED
  BY <1>1, <1>2, <1>3, <1>4 DEF Next

LEMMA NextFlow ==
  ASSUME IInv, Next
  PROVE  Flow'
<1> USE DEF IInv
<1>1. Base'
  BY NextBase
<1>2. CASE Produce
  BY <1>1, <1>2, SenderKeeps, KeptFlow
<1>3. CASE Sender
  <2>1. CASE SendAll
    BY <2>1, SendAllFlow
  <2>2. CASE SendPart
    BY <2>2, SendPartFlow
  <2>3. CASE ~ (SendAll \/ SendPart)
    <3>1. Kept
      BY <1>3, <2>3, SenderKeeps DEF Sender
    <3> QED
      BY <1>1, <3>1, KeptFlow
  <2> QED
    BY <2>1, <2>2, <2>3
<1>4. CASE Crash \/ Restart
  BY <1>1, <1>4, ServerKeeps, KeptFlow
<1>5. ASSUME NEW fd \in Fds, Server(fd) PROVE Flow'
  <2>1. CASE Recv(fd)
    BY <2>1, RecvFlow
  <2>2. CASE ~ Recv(fd)
    <3>1. Kept
      BY <1>5, <2>2, ServerKeeps DEF Server
    <3> QED
      BY <1>1, <3>1, KeptFlow
  <2> QED
    BY <2>1, <2>2
<1> QED
  BY <1>2, <1>3, <1>4, <1>5 DEF Next

LEMMA NextEach ==
  ASSUME IInv, Next
  PROVE  (OneEach /\ Waiting)'
<1> USE DEF IInv
<1>1. program' = program
  BY DEF Next, Sender, Server, Produce, Epoll_Wait, NextEvent, GiveUpConnection, TakeMessage, Spin,
     SendAll, SendPart, FailToSend, DropAcks, Reconnect, CloseShort, EndEvents, SetWrite, Crash,
     Restart, Establish, Refuse, BeginRead, Recv, RecvNothing, Ack_to_fd
<1>2. CASE program # "short_sender"
  BY <1>1, <1>2 DEF OneEach, Waiting
<1>3. CASE program = "short_sender"
  BY <1>3, SenderOneEach, SenderWaiting, ServerOneEach, ServerWaiting DEF Next
<1> QED
  BY <1>2, <1>3

LEMMA NextIInv == IInv /\ [Next]_vars => IInv'
<1> SUFFICES ASSUME IInv, [Next]_vars PROVE IInv'
  OBVIOUS
<1>1. CASE Next
  <2>1. Base' /\ Flow' /\ (OneEach /\ Waiting)'
    BY <1>1, NextBase, NextFlow, NextEach DEF IInv
  <2> QED
    BY <2>1 DEF IInv
<1>2. CASE UNCHANGED vars
  <2> USE <1>2 DEF vars, queueVars, netVars, loopVars, serverVars, IInv
  <2>1. Base'
    BY DEF Base, Counts, NetTypes, LoopTypes, SendingTypes, ServerTypes, Flags, Queued, Connections,
       Events, InHand, Torn, OneConnection, ReadFromCleared, Taken, Wire, Open
  <2>2. Flow'
    <3>1. Sent' = Sent /\ Whole' = Whole /\ \A fd \in Fds : conn'[fd].wire = Wire(fd)
      BY DEF Sent, Holding, Taken, Whole, Wire
    <3>2. Kept
      BY <3>1, Still
    <3> QED
      BY <2>1, <3>2, KeptFlow
  <2>3. (OneEach /\ Waiting)'
    BY DEF OneEach, Waiting, Unused, Wire, Whole
  <2> QED
    BY <2>1, <2>2, <2>3
<1> QED
  BY <1>1, <1>2

(* The messages in the queue, at hand, on the wires and stored fit         *)
(* together, and epoll's events with the connections: every message is     *)
(* begun on one wire or stored once at most (IInv, above).                 *)
THEOREM SenderInvariant == Spec => []IInv
BY InitIInv, NextIInv, PTL DEF Spec

(* Both senders close descriptors within their loops (log_sender.cpp:75,   *)
(* short_sender.cpp:74), yet epoll has events of open ones only, one       *)
(* message at most is at hand, and queue, wires and ACKs keep to their     *)
(* room.                                                                   *)
THEOREM SenderTypes == Spec => []TypeOK
BY SenderInvariant, BaseTypes, PTL DEF IInv

LEMMA StoredWell == IInv => StoredAsSent
<1> SUFFICES ASSUME IInv PROVE StoredAsSent
  OBVIOUS
<1>1. torn \/ Altered \notin ToSet(stored)
  BY DEF IInv, Flow, Messagewise, ToSet
<1>2. ASSUME NEW i \in 1 .. Len(stored), NEW j \in 1 .. Len(stored), i < j,
             Altered \notin {stored[i], stored[j]}
      PROVE  IF program = "log_sender" THEN stored[i] < stored[j] ELSE stored[i] # stored[j]
  BY <1>2 DEF IInv, Flow, OnlyOnce, StoredInTurn
<1> QED
  BY <1>1, <1>2 DEF StoredAsSent

(* log_server passes on no log that nobody sent unless a send was cut      *)
(* short, none twice, and those of log_sender in their order, however TCP  *)
(* cuts what is sent (log_server.cpp:209).                                 *)
THEOREM SenderStoresAsSent == Spec => []StoredAsSent
BY SenderInvariant, StoredWell, PTL

LEMMA NothingLost == IInv => LossesExplained
<1> SUFFICES ASSUME IInv, Whole, NEW m \in 1 .. produced, m \notin ToSet(queue), m \notin Overlong
             PROVE  m \in ToSet(stored) \/ OnItsWay(m)
  BY DEF LossesExplained, Whole
<1> USE DEF IInv
<1>1. Taken \in Nat /\ produced \in Nat /\ Taken = produced - Len(queue) /\ Len(queue) \in Nat
  <2>1. queue \in Seq(Messages) /\ produced \in Nat
    BY Limits DEF Base, Counts
  <2> QED
    BY <2>1, LenProperties DEF Base, Queued, Taken
<1>2. m <= Taken
  <2>1. SUFFICES ASSUME m > Taken PROVE FALSE
    BY <1>1
  <2>2. m - Taken \in 1 .. Len(queue) /\ Taken + (m - Taken) = m
    BY <1>1, <2>1
  <2>3. queue[m - Taken] = m
    BY <2>2 DEF Base, Queued
  <2> QED
    BY <2>2, <2>3 DEF ToSet
<1>3. CASE m \in 1 .. Sent
  <2>1. Arrived(m)
    BY <1>3 DEF Flow, Arriving
  <2>2. ASSUME NEW fd \in Fds, NEW i \in 1 .. Len(Wire(fd)), BeginsAt(fd, i), Wire(fd)[i].of = m
        PROVE  OnItsWay(m)
    <3>1. Wire(fd)[i] \in PartSet
      <4>1. Wire(fd) \in Seq(WireParts)
        BY DEF Base, Connections
      <4> QED
        BY <4>1, ElementOfSeq, SpecialParts
    <3>2. Wire(fd)[i] = Part(m, "begin")
      BY <2>2, <3>1, Fields DEF BeginsAt
    <3> QED
      BY <3>2 DEF OnItsWay, ToSet, Wire
  <2> QED
    BY <2>1, <2>2 DEF Arrived, ToSet
<1>4. CASE m \notin 1 .. Sent
  <2>1. Holding /\ m = Taken /\ sending = Parts(Taken) /\ Taken \in Messages
    BY <1>1, <1>2, <1>4, Hand
  <2>2. 1 \in 1 .. Len(sending) /\ sending[1] = Part(m, "begin")
    BY <2>1, Message
  <2> QED
    BY <2>2 DEF OnItsWay, ToSet
<1> QED
  BY <1>3, <1>4

(* A log taken from the queue is passed on or on its way unless it was     *)
(* cut, went down with its connection, or was too long to begin with: the  *)
(* events and descriptors of the senders' loops lose nothing.              *)
THEOREM SenderExplainsLosses == Spec => []LossesExplained
BY SenderInvariant, NothingLost, PTL
=============================================================================
