--------------------------- MODULE MsgQueueProofs ---------------------------
(***************************************************************************)
(* Proofs about the ring queue, for any number of slots, messages and      *)
(* readers, and for both builds.  Types and the exclusion of readers hold  *)
(* whatever happens; the rest until a test is misled by a position past    *)
(* the end, which only the build of two stores shows.                      *)
(***************************************************************************)
EXTENDS MsgQueue, SequenceTheorems, TLAPS

LEMMA ModOnce ==
    ASSUME NEW x \in Nat, NEW n \in Nat \ {0}
    PROVE  /\ x < n => x % n = x
           /\ x >= n /\ x < n + n => x % n = x - n
  BY SMT

-----------------------------------------------------------------------------
(* Types.  One reader at a time is in the method, and a position is equal  *)
(* to size_ only between the two statements that advance it.               *)
ReadersExclude ==
    /\ read_sem_ = 1 => \A r \in Readers : rpc[r] = "idle"
    /\ \A r, s \in Readers : rpc[r] # "idle" /\ rpc[s] # "idle" => r = s

InRange ==
    /\ wpc # "wrap" => write_position_ < N
    /\ read_position_ < N \/ \E r \in Readers : rpc[r] = "wrap"

TypeInv == TypeOK /\ ReadersExclude /\ InRange

LEMMA TypeInit == Init => TypeInv
  <1> SUFFICES ASSUME Init PROVE TypeInv
    OBVIOUS
  <1> USE QueueAssumption DEF Init
  <1>1. /\ slots \in [0 .. N - 1 -> Nat] /\ write_position_ = 0 /\ read_position_ = 0
        /\ read_sem_ \in {0, 1} /\ sent \in Nat /\ received \in Seq(Nat)
    OBVIOUS
  <1>2. /\ wpc \in WriterPlaces /\ rpc \in [Readers -> ReaderPlaces]
        /\ buf \in [Readers -> Nat] /\ misled \in BOOLEAN
    BY Zenon DEF WriterPlaces, ReaderPlaces
  <1>3. ReadersExclude /\ InRange
    BY DEF ReadersExclude, InRange
  <1> QED
    BY <1>1, <1>2, <1>3 DEF TypeInv, TypeOK

LEMMA TypeWriter == TypeInv /\ Writer => TypeInv'
  <1> SUFFICES ASSUME TypeInv, Writer PROVE TypeInv'
    OBVIOUS
  <1> USE QueueAssumption
      DEF TypeInv, TypeOK, ReadersExclude, InRange, WriterPlaces, readerVars, Advanced, Wrapped
  <1>1. CASE CallWrite
    BY <1>1 DEF CallWrite
  <1>2. CASE ReturnFull
    BY <1>2 DEF ReturnFull
  <1>3. CASE FindRoom
    BY <1>3 DEF FindRoom
  <1>4. CASE CopyIn
    BY <1>4 DEF CopyIn
  <1>5. CASE AdvanceWrite
    BY <1>5 DEF AdvanceWrite
  <1>6. CASE WrapWrite
    BY <1>6 DEF WrapWrite
  <1> QED
    BY <1>1, <1>2, <1>3, <1>4, <1>5, <1>6 DEF Writer

LEMMA TypeReader == ASSUME NEW r \in Readers PROVE TypeInv /\ Reader(r) => TypeInv'
  <1> SUFFICES ASSUME TypeInv, Reader(r) PROVE TypeInv'
    OBVIOUS
  <1> USE QueueAssumption
      DEF TypeInv, TypeOK, ReadersExclude, InRange, ReaderPlaces, writerVars, Advanced, Wrapped
  <1>0. rpc[r] \notin {"idle", "wrap"} => read_position_ \in 0 .. N - 1
    <2>1. \A s \in Readers : rpc[r] # "idle" /\ rpc[s] # "idle" => r = s
      OBVIOUS
    <2>2. rpc[r] \notin {"idle", "wrap"} => \A s \in Readers : rpc[s] # "wrap"
      BY <2>1
    <2> QED
      BY <2>2
  <1>1. CASE LockRead(r)
    BY <1>1 DEF LockRead
  <1>2. CASE ReturnEmpty(r)
    BY <1>2 DEF ReturnEmpty
  <1>3. CASE FindMessage(r)
    BY <1>0, <1>3 DEF FindMessage
  <1>4. CASE CopyOut(r)
    BY <1>0, <1>4 DEF CopyOut
  <1>5. CASE AdvanceRead(r)
    BY <1>0, <1>5 DEF AdvanceRead
  <1>6. CASE WrapRead(r)
    BY <1>6 DEF WrapRead
  <1>7. CASE UnlockRead(r)
    BY <1>7 DEF UnlockRead
  <1> QED
    BY <1>1, <1>2, <1>3, <1>4, <1>5, <1>6, <1>7 DEF Reader

LEMMA TypeNext == TypeInv /\ [Next]_vars => TypeInv'
  <1>1. TypeInv /\ UNCHANGED vars => TypeInv'
    BY DEF TypeInv, TypeOK, ReadersExclude, InRange, vars
  <1> QED
    BY <1>1, TypeWriter, TypeReader DEF Next

(* The variables of the queue keep their types, in either build: positions *)
(* stay within the slots or one past the end, and the semaphore is 0 or 1. *)
THEOREM QueueTypeOK == Spec => []TypeOK
  <1>1. TypeInv => TypeOK
    BY DEF TypeInv
  <1> QED
    BY <1>1, TypeInit, TypeNext, PTL DEF Spec

-----------------------------------------------------------------------------
(* The ring, between the positions as they are once wrapped.  Its slots,   *)
(* oldest first, hold the messages after those received, up to the last    *)
(* one sent; the writer beyond its test has a free slot, and the reader    *)
(* beyond its own has a message.  The tests see the positions as they are  *)
(* stored, so this holds until one is misled.                              *)
Write == Wrapped(write_position_)
Read == Wrapped(read_position_)

SlotAt(i) == (Read + i - 1) % N

WriterHasRoom ==
    /\ wpc \in {"copy", "advance"} => Size # N - 1
    /\ wpc \in {"try", "wait", "copy", "advance"} => sent < MaxMessages

ReaderHasMessage ==
    \A r \in Readers : /\ rpc[r] \in {"copy", "advance"} => Size # 0
                       /\ rpc[r] = "advance" => buf[r] = Len(received) + 1

Contents ==
    /\ Len(received) + Size = sent
    /\ \A i \in 1 .. Size : slots[SlotAt(i)] = Len(received) + i
    /\ wpc = "advance" => slots[Write] = sent + 1

RingInv == TypeInv /\ WriterHasRoom /\ ReaderHasMessage /\ Contents /\ ReceivedInOrder

(* Going round.  What the ring computes with %, without it.                *)
LEMMA RoundFrom ==
    ASSUME NEW p \in 0 .. N - 1, NEW i \in 1 .. N
    PROVE  (p + i - 1) % N = IF p + i - 1 < N THEN p + i - 1 ELSE p + i - 1 - N
  <1> DEFINE x == p + i - 1
  <1>1. N \in Nat \ {0} /\ x \in Nat /\ x < N + N
    BY QueueAssumption
  <1> HIDE DEF x
  <1>2. x < N => x % N = x
    BY <1>1, ModOnce
  <1>3. x >= N => x % N = x - N
    BY <1>1, ModOnce
  <1>4. x % N = IF x < N THEN x ELSE x - N
    BY <1>1, <1>2, <1>3
  <1> QED
    BY <1>1, <1>4, QueueAssumption DEF x

LEMMA NextSlot ==
    ASSUME NEW p \in 0 .. N - 1
    PROVE  (p + 1) % N = IF p + 1 < N THEN p + 1 ELSE 0
  <1> DEFINE x == p + 1
  <1>1. N \in Nat \ {0} /\ x \in Nat /\ x <= N
    BY QueueAssumption
  <1> HIDE DEF x
  <1>2. x % N = IF x < N THEN x ELSE 0
    BY <1>1, ModOnce
  <1> QED
    BY <1>2 DEF x

LEMMA Positions ==
    ASSUME TypeInv
    PROVE  /\ Write \in 0 .. N - 1 /\ Read \in 0 .. N - 1
           /\ write_position_ # N => Write = write_position_
           /\ write_position_ = N => Write = 0
           /\ read_position_ # N => Read = read_position_
           /\ read_position_ = N => Read = 0
  BY QueueAssumption DEF TypeInv, TypeOK, Write, Read, Wrapped

LEMMA SizeIs ==
    ASSUME TypeInv
    PROVE  /\ Size = IF Write >= Read THEN Write - Read ELSE Write + N - Read
           /\ Size \in 0 .. N - 1
  <1>1. Size = IF Write >= Read THEN Write - Read ELSE Write + N - Read
    BY DEF Size, SizeBetween, Write, Read
  <1> QED
    BY <1>1, Positions, QueueAssumption

LEMMA Round ==
    ASSUME TypeInv, NEW i \in 1 .. N
    PROVE  SlotAt(i) = IF Read + i - 1 < N THEN Read + i - 1 ELSE Read + i - 1 - N
  BY Positions, RoundFrom DEF SlotAt

LEMMA Apart ==
    ASSUME TypeInv, NEW i \in 1 .. Size
    PROVE  SlotAt(i) \in 0 .. N - 1 /\ SlotAt(i) # Write
  <1>1. i \in 1 .. N /\ i <= Size
    BY SizeIs, QueueAssumption
  <1>2. SlotAt(i) = IF Read + i - 1 < N THEN Read + i - 1 ELSE Read + i - 1 - N
    BY <1>1, Round
  <1>3. CASE Write >= Read
    BY <1>1, <1>2, <1>3, SizeIs, Positions, QueueAssumption
  <1>4. CASE ~ Write >= Read
    BY <1>1, <1>2, <1>4, SizeIs, Positions, QueueAssumption
  <1> QED
    BY <1>3, <1>4

LEMMA Behind ==
    ASSUME TypeInv
    PROVE  SlotAt(Size + 1) = Write
  <1>1. Size \in 0 .. N - 1 /\ Size + 1 \in 1 .. N
    BY SizeIs, QueueAssumption
  <1>2. SlotAt(Size + 1) = IF Read + Size < N THEN Read + Size ELSE Read + Size - N
    <2>1. SlotAt(Size + 1) = IF Read + (Size + 1) - 1 < N
                               THEN Read + (Size + 1) - 1
                               ELSE Read + (Size + 1) - 1 - N
      BY <1>1, Round
    <2> QED
      BY <1>1, <2>1, Positions, QueueAssumption
  <1> QED
    BY <1>1, <1>2, SizeIs, Positions, QueueAssumption

(* The first of the two statements moves a position by one, in either      *)
(* build, and the second leaves it where it is.                            *)
LEMMA OneOn ==
    ASSUME NEW p \in 0 .. N - 1
    PROVE  Wrapped(Advanced(p)) = IF p + 1 < N THEN p + 1 ELSE 0
  BY QueueAssumption DEF Wrapped, Advanced

LEMMA AlreadyOn ==
    ASSUME NEW p \in 0 .. N
    PROVE  Wrapped(Wrapped(p)) = Wrapped(p)
  BY QueueAssumption DEF Wrapped

(* A test that is not misled answers what the wrapped positions say.       *)
LEMMA RoomFound ==
    ASSUME TypeInv, FindRoom, ~ misled'
    PROVE  Size # N - 1
  <1>1. wpc # "wrap" /\ ~ Full /\ ~ (write_position_ = N - 1 /\ read_position_ = N)
    BY DEF FindRoom
  <1>2. write_position_ \in 0 .. N - 1 /\ read_position_ \in 0 .. N
    BY <1>1, QueueAssumption DEF TypeInv, TypeOK, InRange
  <1>3. (IF write_position_ + 1 < N THEN write_position_ + 1 ELSE 0) # read_position_
    BY <1>1, <1>2, NextSlot DEF Full
  <1> QED
    BY <1>1, <1>2, <1>3, SizeIs, Positions, QueueAssumption

LEMMA MessageFound ==
    ASSUME TypeInv, NEW r \in Readers, FindMessage(r), ~ misled'
    PROVE  Size # 0
  <1>1. rpc[r] = "locked" /\ ~ Empty /\ ~ (write_position_ = N /\ read_position_ = 0)
    BY DEF FindMessage
  <1>2. write_position_ \in 0 .. N /\ read_position_ \in 0 .. N - 1
    <2>1. \A s \in Readers : rpc[s] # "wrap"
      BY <1>1 DEF TypeInv, ReadersExclude
    <2> QED
      BY <2>1, QueueAssumption DEF TypeInv, TypeOK, InRange
  <1> QED
    BY <1>1, <1>2, SizeIs, Positions, QueueAssumption DEF Empty

-----------------------------------------------------------------------------
LEMMA RingInit == Init => RingInv
  <1> SUFFICES ASSUME Init PROVE RingInv
    OBVIOUS
  <1>1. Size = 0 /\ received = <<>> /\ sent = 0
    BY QueueAssumption DEF Init, Size, SizeBetween, Wrapped
  <1>2. WriterHasRoom /\ ReaderHasMessage
    BY QueueAssumption DEF Init, WriterHasRoom, ReaderHasMessage
  <1>3. Contents /\ ReceivedInOrder
    BY <1>1 DEF Init, Contents, ReceivedInOrder
  <1> QED
    BY <1>2, <1>3, TypeInit DEF RingInv

(* What the slots hold stays as it is when neither they nor a wrapped      *)
(* position changes.                                                       *)
LEMMA SameRing ==
    ASSUME Write' = Write, Read' = Read
    PROVE  Size' = Size /\ \A i : SlotAt(i)' = SlotAt(i)
  BY DEF Size, SizeBetween, SlotAt, Write, Read

LEMMA SameContents ==
    ASSUME Contents, UNCHANGED <<slots, received, sent>>, Write' = Write, Read' = Read,
           wpc' = "advance" => wpc = "advance"
    PROVE  Contents'
  BY SameRing DEF Contents

(* The writer.                                                             *)
LEMMA BeforeCopy ==
    ASSUME RingInv, CallWrite \/ ReturnFull \/ FindRoom \/ WrapWrite, ~ misled'
    PROVE  RingInv' /\ Write' = Write /\ Read' = Read
  <1> USE DEF RingInv, CallWrite, ReturnFull, FindRoom, WrapWrite, readerVars
  <1>1. TypeInv'
    BY TypeWriter DEF Writer
  <1>2. Write' = Write /\ Read' = Read
    BY AlreadyOn DEF Write, Read, TypeInv, TypeOK
  <1>3. Contents'
    BY <1>2, SameContents
  <1>4. ReaderHasMessage' /\ ReceivedInOrder'
    BY <1>2, SameRing DEF ReaderHasMessage, ReceivedInOrder
  <1>5. WriterHasRoom'
    <2>1. FindRoom => Size # N - 1
      BY RoomFound
    <2> QED
      BY <1>2, <2>1, SameRing DEF WriterHasRoom
  <1> QED
    BY <1>1, <1>2, <1>3, <1>4, <1>5

LEMMA CopyInKeeps ==
    ASSUME RingInv, CopyIn
    PROVE  RingInv' /\ Write' = Write /\ Read' = Read
  <1> USE DEF RingInv, CopyIn, readerVars
  <1>1. TypeInv'
    BY TypeWriter DEF Writer
  <1>2. Write' = Write /\ Read' = Read
    BY DEF Write, Read
  <1>3. Contents'
    <2>1. slots \in [0 .. N - 1 -> Nat] /\ Write = write_position_ /\ Write \in 0 .. N - 1
      BY Positions, QueueAssumption DEF TypeInv, TypeOK, InRange
    <2>2. slots'[Write] = sent + 1
      BY <2>1
    <2>3. ASSUME NEW i \in 1 .. Size PROVE slots'[SlotAt(i)] = slots[SlotAt(i)]
      BY <2>1, Apart
    <2> QED
      BY <1>2, <2>2, <2>3, SameRing DEF Contents
  <1>4. ReaderHasMessage' /\ ReceivedInOrder' /\ WriterHasRoom'
    BY <1>2, SameRing DEF ReaderHasMessage, ReceivedInOrder, WriterHasRoom
  <1> QED
    BY <1>1, <1>2, <1>3, <1>4

LEMMA AdvanceWriteKeeps ==
    ASSUME RingInv, AdvanceWrite
    PROVE  RingInv' /\ Size' = Size + 1 /\ Size < N - 1
  <1> USE DEF RingInv, AdvanceWrite, readerVars
  <1>1. TypeInv'
    BY TypeWriter DEF Writer
  <1>2. Size \in 0 .. N - 1 /\ Size # N - 1
    BY SizeIs DEF WriterHasRoom
  <1>3. Write' = (IF Write + 1 < N THEN Write + 1 ELSE 0) /\ Read' = Read
    <2>1. write_position_ \in 0 .. N - 1 /\ Write = write_position_
      BY Positions, QueueAssumption DEF TypeInv, TypeOK, InRange
    <2> QED
      BY <2>1, OneOn DEF Write, Read
  <1>4. Size' = Size + 1
    <2>1. Size' = IF Write' >= Read' THEN Write' - Read' ELSE Write' + N - Read'
      BY DEF Size, SizeBetween, Write, Read
    <2> QED
      BY <1>2, <1>3, <2>1, SizeIs, Positions, QueueAssumption
  <1>5. Contents'
    <2>1. slots[SlotAt(Size + 1)] = sent + 1
      BY Behind DEF Contents
    <2>0. Len(received) \in Nat /\ Size \in Nat
      BY <1>2, QueueAssumption DEF TypeInv, TypeOK
    <2>4. Len(received) + (Size + 1) = sent + 1
      BY <2>0 DEF Contents
    <2>2. \A i \in 1 .. Size + 1 : slots[SlotAt(i)] = Len(received) + i
      BY <2>0, <2>1, <2>4 DEF Contents
    <2>3. \A i : SlotAt(i)' = SlotAt(i)
      BY <1>3 DEF SlotAt
    <2>5. \A i \in 1 .. Size' : slots'[SlotAt(i)'] = Len(received') + i
      BY <1>4, <2>2, <2>3
    <2>6. (Len(received) + Size = sent)' /\ wpc' = "wrap"
      BY <1>4, <2>4
    <2> QED
      BY <2>5, <2>6 DEF Contents
  <1>6. ReaderHasMessage' /\ ReceivedInOrder' /\ WriterHasRoom'
    BY <1>2, <1>4 DEF ReaderHasMessage, ReceivedInOrder, WriterHasRoom
  <1>7. Size < N - 1
    BY <1>2, QueueAssumption
  <1>8. RingInv'
    BY <1>1, <1>5, <1>6
  <1> QED
    BY <1>4, <1>7, <1>8

(* The readers.                                                            *)
LEMMA OnlyReader ==
    ASSUME TypeInv, NEW r \in Readers, rpc[r] # "idle"
    PROVE  \A s \in Readers \ {r} : rpc[s] = "idle"
  BY DEF TypeInv, ReadersExclude

LEMMA BeforeCopyOut ==
    ASSUME RingInv, NEW r \in Readers, ~ misled',
           LockRead(r) \/ ReturnEmpty(r) \/ FindMessage(r) \/ WrapRead(r) \/ UnlockRead(r)
    PROVE  RingInv' /\ Write' = Write /\ Read' = Read
  <1> USE DEF RingInv, LockRead, ReturnEmpty, FindMessage, WrapRead, UnlockRead, writerVars
  <1>1. TypeInv'
    BY TypeReader DEF Reader
  <1>2. Write' = Write /\ Read' = Read
    BY AlreadyOn DEF Write, Read, TypeInv, TypeOK
  <1>3. Contents'
    BY <1>2, SameContents
  <1>4. WriterHasRoom' /\ ReceivedInOrder'
    BY <1>2, SameRing DEF WriterHasRoom, ReceivedInOrder
  <1>5. ReaderHasMessage'
    <2>1. rpc \in [Readers -> ReaderPlaces]
      BY DEF TypeInv, TypeOK
    <2>2. FindMessage(r) => Size # 0
      BY MessageFound
    <2>3. ASSUME NEW s \in Readers, rpc'[s] \in {"copy", "advance"}
          PROVE  Size # 0 /\ (rpc[s] = rpc'[s] \/ rpc'[s] = "copy")
      BY <2>1, <2>2, <2>3 DEF ReaderHasMessage
    <2> QED
      BY <1>2, <2>3, SameRing DEF ReaderHasMessage
  <1> QED
    BY <1>1, <1>2, <1>3, <1>4, <1>5

LEMMA CopyOutKeeps ==
    ASSUME RingInv, NEW r \in Readers, CopyOut(r)
    PROVE  RingInv' /\ Write' = Write /\ Read' = Read
  <1> USE DEF RingInv, CopyOut, writerVars
  <1>1. TypeInv'
    BY TypeReader DEF Reader
  <1>2. Write' = Write /\ Read' = Read
    BY DEF Write, Read
  <1>3. Contents'
    BY <1>2, SameContents
  <1>4. WriterHasRoom' /\ ReceivedInOrder'
    BY <1>2, SameRing DEF WriterHasRoom, ReceivedInOrder
  <1>5. ReaderHasMessage'
    <2>1. rpc \in [Readers -> ReaderPlaces] /\ buf \in [Readers -> Nat]
      BY DEF TypeInv, TypeOK
    <2>2. \A s \in Readers \ {r} : rpc'[s] = "idle"
      BY <2>1, OnlyReader
    <2>3. Size \in 1 .. N - 1
      BY SizeIs, QueueAssumption DEF ReaderHasMessage
    <2>4. Read = read_position_
      <3>1. \A s \in Readers : rpc[s] # "wrap"
        BY OnlyReader
      <3> QED
        BY <3>1, Positions, QueueAssumption DEF TypeInv, TypeOK, InRange
    <2>5. SlotAt(1) = Read
      BY Round, Positions, QueueAssumption
    <2>6. slots[read_position_] = Len(received) + 1
      BY <2>3, <2>4, <2>5, QueueAssumption DEF Contents
    <2>7. buf'[r] = Len(received') + 1
      BY <2>1, <2>6
    <2> QED
      BY <1>2, <2>2, <2>3, <2>7, SameRing DEF ReaderHasMessage
  <1> QED
    BY <1>1, <1>2, <1>3, <1>4, <1>5

LEMMA AdvanceReadKeeps ==
    ASSUME RingInv, NEW r \in Readers, AdvanceRead(r)
    PROVE  /\ RingInv' /\ Size' = Size - 1 /\ Size \in 1 .. N - 1
           /\ received' = Append(received, Len(received) + 1)
  <1> USE DEF RingInv, AdvanceRead, writerVars
  <1>1. TypeInv'
    BY TypeReader DEF Reader
  <1>2. Size \in 1 .. N - 1
    BY SizeIs, QueueAssumption DEF ReaderHasMessage
  <1>3. Read' = (IF Read + 1 < N THEN Read + 1 ELSE 0) /\ Write' = Write
    <2>1. \A s \in Readers : rpc[s] # "wrap"
      BY OnlyReader
    <2>2. read_position_ \in 0 .. N - 1 /\ Read = read_position_
      BY <2>1, Positions, QueueAssumption DEF TypeInv, TypeOK, InRange
    <2> QED
      BY <2>2, OneOn DEF Write, Read
  <1>4. Size' = Size - 1
    <2>1. Size' = IF Write' >= Read' THEN Write' - Read' ELSE Write' + N - Read'
      BY DEF Size, SizeBetween, Write, Read
    <2>2. CASE Write >= Read
      BY <1>2, <1>3, <2>1, <2>2, SizeIs, Positions, QueueAssumption
    <2>3. CASE ~ Write >= Read
      BY <1>2, <1>3, <2>1, <2>3, SizeIs, Positions, QueueAssumption
    <2> QED
      BY <2>2, <2>3
  <1>5. received \in Seq(Nat) /\ received' = Append(received, Len(received) + 1)
    BY DEF ReaderHasMessage, TypeInv, TypeOK
  <1>6. Len(received) \in Nat /\ Len(received') = Len(received) + 1
    BY <1>5
  <1>7. ASSUME NEW i \in 1 .. Size' PROVE SlotAt(i)' = SlotAt(i + 1)
    <2>1. i \in 1 .. N /\ i + 1 \in 1 .. N /\ i + 1 <= Size
      BY <1>2, <1>4, QueueAssumption
    <2>2. Read \in 0 .. N - 1 /\ Read' \in 0 .. N - 1
      BY <1>3, Positions, QueueAssumption
    <2>3. SlotAt(i + 1) = IF Read + i < N THEN Read + i ELSE Read + i - N
      <3>1. SlotAt(i + 1) = IF Read + (i + 1) - 1 < N
                              THEN Read + (i + 1) - 1 ELSE Read + (i + 1) - 1 - N
        BY <2>1, Round
      <3> QED
        BY <2>1, <2>2, <3>1, QueueAssumption
    <2>4. SlotAt(i)' = IF Read' + i - 1 < N THEN Read' + i - 1 ELSE Read' + i - 1 - N
      BY <2>1, <2>2, RoundFrom DEF SlotAt
    <2> QED
      BY <1>3, <2>1, <2>2, <2>3, <2>4, QueueAssumption
  <1>8. Contents'
    <2>1. (Len(received) + Size = sent)'
      BY <1>2, <1>4, <1>6 DEF Contents
    <2>2. \A i \in 1 .. Size' : slots[SlotAt(i + 1)] = Len(received) + (i + 1)
      BY <1>2, <1>4 DEF Contents
    <2>3. \A i \in 1 .. Size' : slots'[SlotAt(i)'] = Len(received') + i
      BY <1>2, <1>4, <1>6, <1>7, <2>2
    <2> QED
      BY <1>3, <2>1, <2>3 DEF Contents
  <1>9. WriterHasRoom'
    BY <1>2, <1>4, QueueAssumption DEF WriterHasRoom
  <1>10. ReaderHasMessage'
    <2>1. rpc \in [Readers -> ReaderPlaces]
      BY DEF TypeInv, TypeOK
    <2>2. \A s \in Readers : rpc'[s] \in {"idle", "wrap"}
      BY <2>1, OnlyReader
    <2> QED
      BY <2>2 DEF ReaderHasMessage
  <1>11. ReceivedInOrder'
    BY <1>5, <1>6 DEF ReceivedInOrder
  <1>12. RingInv'
    BY <1>1, <1>8, <1>9, <1>10, <1>11
  <1> QED
    BY <1>2, <1>4, <1>5, <1>12

(* What holds until a test is misled is kept by a step that misleads none. *)
UntilMisled == TypeInv /\ (~ misled => RingInv)

LEMMA RingNext == RingInv /\ [Next]_vars /\ ~ misled' => RingInv'
  <1> SUFFICES ASSUME RingInv, [Next]_vars, ~ misled' PROVE RingInv'
    OBVIOUS
  <1>1. CASE UNCHANGED vars
    <2>1. TypeInv' /\ Write' = Write /\ Read' = Read
      BY <1>1, TypeNext DEF RingInv, Write, Read, vars
    <2>2. Contents'
      BY <1>1, <2>1, SameContents DEF RingInv, vars
    <2>3. WriterHasRoom' /\ ReaderHasMessage' /\ ReceivedInOrder'
      BY <1>1, <2>1, SameRing DEF RingInv, vars, WriterHasRoom, ReaderHasMessage, ReceivedInOrder
    <2> QED
      BY <2>1, <2>2, <2>3 DEF RingInv
  <1>2. CASE Writer
    BY <1>2, BeforeCopy, CopyInKeeps, AdvanceWriteKeeps DEF Writer
  <1>3. ASSUME NEW r \in Readers, Reader(r) PROVE RingInv'
    BY <1>3, BeforeCopyOut, CopyOutKeeps, AdvanceReadKeeps DEF Reader
  <1> QED
    BY <1>1, <1>2, <1>3 DEF Next

(* History: a test that was misled stays so.                               *)
LEMMA MisledStays == [Next]_vars /\ misled => misled'
  <1> SUFFICES ASSUME [Next]_vars, misled PROVE misled'
    OBVIOUS
  <1>1. CASE UNCHANGED vars
    BY <1>1 DEF vars
  <1>2. CASE Writer
    BY <1>2 DEF Writer, CallWrite, ReturnFull, FindRoom, CopyIn, AdvanceWrite, WrapWrite
  <1>3. ASSUME NEW r \in Readers, Reader(r) PROVE misled'
    BY <1>3 DEF Reader, LockRead, ReturnEmpty, FindMessage, CopyOut, AdvanceRead, WrapRead,
                UnlockRead
  <1> QED
    BY <1>1, <1>2, <1>3 DEF Next

LEMMA UntilMisledInit == Init => UntilMisled
  BY TypeInit, RingInit DEF UntilMisled

LEMMA UntilMisledNext == UntilMisled /\ [Next]_vars => UntilMisled'
  BY TypeNext, RingNext, MisledStays DEF UntilMisled

(* The writer never copies into the slot a reader copies out of, whatever  *)
(* the size of the ring and in either build, until a test sees a position  *)
(* past the end and is misled by it.                                       *)
THEOREM QueueNoTornRead == Spec => []NoTornRead
  <1>1. UntilMisled => NoTornRead
    <2> SUFFICES ASSUME RingInv, NEW r \in Readers, wpc = "copy", rpc[r] = "copy"
                 PROVE  write_position_ # read_position_
      BY DEF UntilMisled, NoTornRead
    <2>1. TypeInv /\ Size # 0
      BY DEF RingInv, ReaderHasMessage
    <2>2. Write # Read
      BY <2>1, SizeIs, Positions, QueueAssumption
    <2> QED
      BY <2>2 DEF Write, Read
  <1> QED
    BY <1>1, UntilMisledInit, UntilMisledNext, PTL DEF Spec

-----------------------------------------------------------------------------
(* The refinement.  What the ring holds is the numbers after those         *)
(* received: it grows when the writer stores its position, and loses its   *)
(* head when the reader stores its own.                                    *)
Queue == [i \in 1 .. Size |-> slots[(Wrapped(read_position_) + i - 1) % N]]

LEMMA QueueHolds ==
    ASSUME RingInv
    PROVE  /\ Queue = [i \in 1 .. Size |-> Len(received) + i]
           /\ Queue \in Seq(Nat) /\ Len(Queue) = Size
           /\ Len(received) \in Nat /\ Size \in 0 .. N - 1
  <1>1. Len(received) \in Nat /\ Size \in 0 .. N - 1
    BY SizeIs DEF RingInv, TypeInv, TypeOK
  <1>2. Queue = [i \in 1 .. Size |-> Len(received) + i]
    BY DEF Queue, RingInv, Contents, SlotAt, Read
  <1>3. Queue \in Seq(Nat) /\ Len(Queue) = Size
    BY <1>1, <1>2, QueueAssumption
  <1> QED
    BY <1>1, <1>2, <1>3

LEMMA Putting ==
    ASSUME RingInv, RingInv', AdvanceWrite
    PROVE  Fifo!Put(sent + 1) /\ sent + 1 \in 1 .. MaxMessages
  <1>1. Size' = Size + 1 /\ Size < N - 1
    BY AdvanceWriteKeeps
  <1>2. received' = received
    BY DEF AdvanceWrite, readerVars
  <1>3. Queue' = [i \in 1 .. Size' |-> Len(received') + i]
    BY DEF Queue, RingInv, Contents, SlotAt, Read
  <1>4. Len(received) + Size = sent /\ sent < MaxMessages
    BY DEF RingInv, Contents, WriterHasRoom, AdvanceWrite
  <1>5. Queue' = Append(Queue, sent + 1)
    <2> DEFINE n == Size  k == Len(received)
    <2>1. n \in Nat /\ k \in Nat /\ sent + 1 = k + n + 1
      BY <1>1, <1>4, QueueHolds
    <2>2. Queue = [i \in 1 .. n |-> k + i] /\ Queue' = [i \in 1 .. n + 1 |-> k + i]
      BY <1>1, <1>2, <1>3, QueueHolds
    <2> HIDE DEF n, k
    <2> QED
      BY <2>1, <2>2
  <1>6. sent + 1 \in 1 .. MaxMessages
    BY <1>4, QueueAssumption DEF RingInv, TypeInv, TypeOK
  <1> QED
    BY <1>1, <1>2, <1>5, <1>6, QueueHolds DEF Fifo!Put, Queue

LEMMA CountingFrom ==
    ASSUME NEW n \in Nat \ {0}, NEW k \in Nat, NEW q, q = [i \in 1 .. n |-> k + i]
    PROVE  /\ q # <<>> /\ Head(q) = k + 1
           /\ Tail(q) = [i \in 1 .. n - 1 |-> k + 1 + i]
  <1>1. q \in Seq(Nat) /\ Len(q) = n
    OBVIOUS
  <1>2. q # <<>> /\ Head(q) = k + 1
    BY <1>1
  <1>3. Len(Tail(q)) = n - 1 /\ \A i \in 1 .. n - 1 : Tail(q)[i] = k + 1 + i
    BY <1>1, <1>2, HeadTailProperties
  <1>4. Tail(q) = [i \in 1 .. n - 1 |-> Tail(q)[i]]
    BY <1>1, <1>2, <1>3, HeadTailProperties
  <1> QED
    BY <1>2, <1>3, <1>4

LEMMA Taking ==
    ASSUME RingInv, RingInv', NEW r \in Readers, AdvanceRead(r)
    PROVE  Fifo!Take
  <1> DEFINE n == Size  k == Len(received)
  <1>1. n \in Nat \ {0} /\ k \in Nat /\ Len(received') = k + 1 /\ Size' = n - 1
    <2>1. Size \in 1 .. N - 1 /\ Size' = Size - 1
      BY AdvanceReadKeeps
    <2>2. received \in Seq(Nat) /\ received' = Append(received, Len(received) + 1)
      BY AdvanceReadKeeps DEF RingInv, TypeInv, TypeOK
    <2> QED
      BY <2>1, <2>2, QueueAssumption
  <1>2. Queue = [i \in 1 .. n |-> k + i]
    BY QueueHolds
  <1>3. Queue' = [i \in 1 .. n - 1 |-> k + 1 + i]
    <2>1. Queue' = [i \in 1 .. Size' |-> Len(received') + i]
      BY DEF Queue, RingInv, Contents, SlotAt, Read
    <2> QED
      BY <1>1, <2>1
  <1>4. received' = Append(received, k + 1)
    BY AdvanceReadKeeps
  <1> HIDE DEF n, k
  <1>5. Queue # <<>> /\ Head(Queue) = k + 1 /\ Queue' = Tail(Queue)
    BY <1>1, <1>2, <1>3, CountingFrom
  <1> QED
    BY <1>4, <1>5 DEF Fifo!Take, Queue

LEMMA SameQueue ==
    ASSUME RingInv, RingInv', Write' = Write, Read' = Read, UNCHANGED received
    PROVE  UNCHANGED Fifo!vars
  <1>1. Queue = [i \in 1 .. Size |-> Len(received) + i]
    BY QueueHolds
  <1>2. Queue' = [i \in 1 .. Size' |-> Len(received') + i]
    BY DEF Queue, RingInv, Contents, SlotAt, Read
  <1> QED
    BY <1>1, <1>2, SameRing DEF Fifo!vars, Queue

LEMMA QueueSteps ==
    ASSUME RingInv, RingInv', [Next]_vars, ~ misled'
    PROVE  [Fifo!Next]_(Fifo!vars)
  <1>1. CASE UNCHANGED vars
    BY <1>1, SameQueue DEF vars, Write, Read
  <1>2. CASE CallWrite \/ ReturnFull \/ FindRoom \/ CopyIn \/ WrapWrite
    <2>1. UNCHANGED received
      BY <1>2 DEF CallWrite, ReturnFull, FindRoom, CopyIn, WrapWrite, readerVars
    <2> QED
      BY <1>2, <2>1, BeforeCopy, CopyInKeeps, SameQueue
  <1>3. CASE AdvanceWrite
    <2>1. Fifo!Put(sent + 1) /\ sent + 1 \in 1 .. MaxMessages
      BY <1>3, Putting
    <2>2. \E m \in 1 .. MaxMessages : Fifo!Put(m)
      BY <2>1 DEF Fifo!Put
    <2> QED
      BY <2>2 DEF Fifo!Next
  <1>4. ASSUME NEW r \in Readers, Reader(r), ~ AdvanceRead(r)
        PROVE  UNCHANGED Fifo!vars
    <2>1. LockRead(r) \/ ReturnEmpty(r) \/ FindMessage(r) \/ CopyOut(r) \/ WrapRead(r)
            \/ UnlockRead(r)
      BY <1>4 DEF Reader
    <2>2. UNCHANGED received
      BY <2>1
      DEF LockRead, ReturnEmpty, FindMessage, CopyOut, WrapRead, UnlockRead, writerVars
    <2> QED
      BY <2>1, <2>2, BeforeCopyOut, CopyOutKeeps, SameQueue
  <1>5. ASSUME NEW r \in Readers, AdvanceRead(r) PROVE Fifo!Next
    BY <1>5, Taking DEF Fifo!Next
  <1> QED
    BY <1>1, <1>2, <1>3, <1>4, <1>5 DEF Next, Writer

LEMMA FifoInit == Init => Fifo!Init
  <1> SUFFICES ASSUME Init PROVE Fifo!Init
    OBVIOUS
  <1>1. Size = 0 /\ received = <<>>
    BY QueueAssumption DEF Init, Size, SizeBetween, Wrapped
  <1> QED
    BY <1>1 DEF Fifo!Init

(* The step on which a test is misled moves nothing.                       *)
LEMMA MisledStep ==
    ASSUME UntilMisled, UntilMisled', [Next]_vars
    PROVE  [misled \/ Fifo!Next]_(Fifo!vars)
  <1>1. CASE ~ misled'
    <2>1. ~ misled
      BY <1>1, MisledStays
    <2> QED
      BY <1>1, <2>1, QueueSteps DEF UntilMisled
  <1>2. CASE misled' /\ ~ misled
    <2>1. FindRoom \/ \E r \in Readers : FindMessage(r)
      BY <1>2 DEF Next, vars, Writer, Reader, CallWrite, ReturnFull, CopyIn, AdvanceWrite,
                  WrapWrite, LockRead, ReturnEmpty, CopyOut, AdvanceRead, WrapRead, UnlockRead
    <2>2. UNCHANGED <<slots, write_position_, read_position_, received>>
      BY <2>1 DEF FindRoom, FindMessage, readerVars, writerVars
    <2> QED
      BY <2>2 DEF Fifo!vars, Size, SizeBetween
  <1> QED
    BY <1>1, <1>2

(* The ring is a FIFO of N - 1 messages, for any N, any number of messages *)
(* and of readers, and in either build, until a test is misled.            *)
THEOREM QueueIsFifo == Spec => FifoUntilMisled
  <1> QED
    BY FifoInit, MisledStep, UntilMisledInit, UntilMisledNext, PTL DEF Spec, FifoUntilMisled

(* A build that stores a position once misleads nobody: there it is a FIFO *)
(* for good.                                                               *)
LEMMA OneStore ==
    ASSUME AtomicWrap PROVE Spec => [](~ misled)
  <1> DEFINE Inside == write_position_ # N /\ read_position_ # N /\ ~ misled
  <1>1. Init => Inside
    BY QueueAssumption DEF Init
  <1>2. TypeInv /\ Inside /\ [Next]_vars => Inside'
    <2> SUFFICES ASSUME TypeInv, Inside, [Next]_vars PROVE Inside'
      OBVIOUS
    <2>1. Advanced(write_position_) # N /\ Wrapped(write_position_) # N
          /\ Advanced(read_position_) # N /\ Wrapped(read_position_) # N
      BY QueueAssumption DEF TypeInv, TypeOK, Advanced, Wrapped
    <2>2. CASE UNCHANGED vars
      BY <2>2 DEF vars
    <2>0. UNCHANGED <<write_position_, read_position_, misled>> => Inside'
      BY DEF TypeInv, TypeOK
    <2>3. CASE CallWrite \/ ReturnFull \/ CopyIn
      BY <2>0, <2>3 DEF CallWrite, ReturnFull, CopyIn, readerVars
    <2>7. CASE FindRoom
      BY <2>7 DEF FindRoom, readerVars
    <2>4. CASE AdvanceWrite \/ WrapWrite
      BY <2>1, <2>4 DEF AdvanceWrite, WrapWrite, readerVars
    <2>5. ASSUME NEW r \in Readers, LockRead(r) \/ ReturnEmpty(r) \/ CopyOut(r) \/ UnlockRead(r)
          PROVE  Inside'
      BY <2>0, <2>5 DEF LockRead, ReturnEmpty, CopyOut, UnlockRead, writerVars
    <2>8. ASSUME NEW r \in Readers, FindMessage(r) PROVE Inside'
      BY <2>8 DEF FindMessage, writerVars
    <2>6. ASSUME NEW r \in Readers, AdvanceRead(r) \/ WrapRead(r) PROVE Inside'
      BY <2>1, <2>6 DEF AdvanceRead, WrapRead, writerVars
    <2> QED
      BY <2>2, <2>3, <2>4, <2>5, <2>6, <2>7, <2>8 DEF Next, Writer, Reader
  <1>3. Inside => ~ misled
    OBVIOUS
  <1> QED
    BY <1>1, <1>2, <1>3, TypeInit, TypeNext, PTL DEF Spec

THEOREM OneStoreIsFifo == ASSUME AtomicWrap PROVE Spec => FifoSpec
  <1>1. ~ misled /\ [misled \/ Fifo!Next]_(Fifo!vars) => [Fifo!Next]_(Fifo!vars)
    OBVIOUS
  <1> QED
    BY <1>1, FifoInit, MisledStep, UntilMisledInit, UntilMisledNext, OneStore, PTL
    DEF Spec, FifoSpec, Fifo!Spec
=============================================================================
