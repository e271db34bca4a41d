------------------------------ MODULE MsgQueue ------------------------------
(***************************************************************************)
(* The ring queue of src/include/MsgQueue.h in shared memory, as one       *)
(* writer and the readers of other processes use it.  Readers take         *)
(* read_sem_ one at a time; the wait on write_sem_ is commented out in     *)
(* every writing method, so the writer takes no lock (and write_sem_,      *)
(* which only ever gains posts, is left out).                              *)
(*                                                                         *)
(* A position is advanced by two statements,                               *)
(*     write_position_++;  if(write_position_ >= size_) write_position_=0; *)
(* AtomicWrap says whether the build keeps the sum in a register and       *)
(* stores once, wrapped (an optimising compiler may), or stores after each *)
(* statement (the build of CMakeLists.txt, which sets no optimisation):    *)
(* then the other process can see a position equal to size_.  misled, a    *)
(* history variable no step depends on, records that a test did see one    *)
(* and took a full queue for one with room, or an empty one for one with a *)
(* message.  Until then the queue is a FIFO, in either build.              *)
(***************************************************************************)
EXTENDS Naturals, Sequences

CONSTANTS N,            \* size_, the number of slots
          Readers,
          MaxMessages,  \* bound: messages the writer offers
          AtomicWrap

ASSUME QueueAssumption == N \in Nat \ {0, 1} /\ MaxMessages \in Nat /\ AtomicWrap \in BOOLEAN

VARIABLES slots,           \* msg_queue_: the message in each slot, 0 for none
          write_position_,
          read_position_,
          read_sem_,
          wpc, rpc,        \* where the writer and each reader are in a method
          buf,             \* the buffer each reader copies into
          sent,            \* messages written so far; the next one is sent + 1
          received,        \* messages returned to readers, in order
          misled           \* history: a test answered wrongly (see above)

vars == <<slots, write_position_, read_position_, read_sem_, wpc, rpc, buf, sent, received,
          misled>>
writerVars == <<slots, write_position_, wpc, sent>>
readerVars == <<read_position_, read_sem_, rpc, buf, received>>

WriterPlaces == {"idle", "try", "wait", "copy", "advance", "wrap"}
ReaderPlaces == {"idle", "locked", "copy", "advance", "wrap", "unlock"}

Empty == write_position_ = read_position_

(* A slip: every slot may be filled, so that full looks like empty.        *)
Full_using_every_slot == Empty /\ slots[read_position_] # 0
Full == (write_position_ + 1) % N = read_position_

Wrapped(position) == IF position >= N THEN 0 ELSE position

(* What the first statement stores.                                        *)
Advanced(position) == IF AtomicWrap THEN Wrapped(position + 1) ELSE position + 1

Init ==
    /\ slots = [i \in 0 .. N - 1 |-> 0]
    /\ write_position_ = 0 /\ read_position_ = 0
    /\ read_sem_ = 1
    /\ wpc = "idle" /\ sent = 0
    /\ rpc = [r \in Readers |-> "idle"]
    /\ buf = [r \in Readers |-> 0]
    /\ received = <<>>
    /\ misled = FALSE

-----------------------------------------------------------------------------
(* The writer.  WriteToMsgQueue gives up when the queue is full;           *)
(* WriteToMsgQueue_Wait spins in its test until the queue is not.          *)
CallWrite ==
    /\ wpc = "idle" /\ sent < MaxMessages
    /\ wpc' \in {"try", "wait"}
    /\ UNCHANGED <<slots, write_position_, sent, misled, readerVars>>

(* A slip: WriteToMsgQueue without its test of Full. *)
FindRoom_unchecked ==
    /\ wpc \in {"try", "wait"}
    /\ wpc' = "copy"
    /\ UNCHANGED <<slots, write_position_, sent, misled, readerVars>>

ReturnFull ==
    /\ wpc = "try" /\ Full
    /\ wpc' = "idle"
    /\ UNCHANGED <<slots, write_position_, sent, misled, readerVars>>

FindRoom ==
    /\ wpc \in {"try", "wait"} /\ ~ Full
    /\ misled' = (misled \/ (write_position_ = N - 1 /\ read_position_ = N))
    /\ wpc' = "copy"
    /\ UNCHANGED <<slots, write_position_, sent, readerVars>>

CopyIn ==
    /\ wpc = "copy"
    /\ slots' = [slots EXCEPT ![write_position_] = sent + 1]
    /\ wpc' = "advance"
    /\ UNCHANGED <<write_position_, sent, misled, readerVars>>

AdvanceWrite ==
    /\ wpc = "advance"
    /\ write_position_' = Advanced(write_position_)
    /\ sent' = sent + 1
    /\ wpc' = "wrap"
    /\ UNCHANGED <<slots, misled, readerVars>>

WrapWrite ==
    /\ wpc = "wrap"
    /\ write_position_' = Wrapped(write_position_)
    /\ wpc' = "idle"
    /\ UNCHANGED <<slots, sent, misled, readerVars>>

-----------------------------------------------------------------------------
(* A reader in ReadAndDeleteFromMsgQueue, under read_sem_.  A misled one   *)
(* can go round the ring for as long as the writer stays past the end;     *)
(* MaxReceived bounds the messages it is handed.                           *)
MaxReceived == MaxMessages + N

(* A slip: the wait on read_sem_ commented out, as it is for the writer.   *)
LockRead_without_sem(r) ==
    /\ rpc[r] = "idle" /\ Len(received) < MaxReceived
    /\ rpc' = [rpc EXCEPT ![r] = "locked"]
    /\ UNCHANGED <<read_position_, read_sem_, buf, received, misled, writerVars>>

LockRead(r) ==
    /\ rpc[r] = "idle" /\ read_sem_ > 0 /\ Len(received) < MaxReceived
    /\ read_sem_' = read_sem_ - 1
    /\ rpc' = [rpc EXCEPT ![r] = "locked"]
    /\ UNCHANGED <<read_position_, buf, received, misled, writerVars>>


ReturnEmpty(r) ==
    /\ rpc[r] = "locked" /\ Empty
    /\ read_sem_' = read_sem_ + 1
    /\ rpc' = [rpc EXCEPT ![r] = "idle"]
    /\ UNCHANGED <<read_position_, buf, received, misled, writerVars>>

FindMessage(r) ==
    /\ rpc[r] = "locked" /\ ~ Empty
    /\ misled' = (misled \/ (write_position_ = N /\ read_position_ = 0))
    /\ rpc' = [rpc EXCEPT ![r] = "copy"]
    /\ UNCHANGED <<read_position_, read_sem_, buf, received, writerVars>>

CopyOut(r) ==
    /\ rpc[r] = "copy"
    /\ buf' = [buf EXCEPT ![r] = slots[read_position_]]
    /\ rpc' = [rpc EXCEPT ![r] = "advance"]
    /\ UNCHANGED <<read_position_, read_sem_, received, misled, writerVars>>

AdvanceRead(r) ==
    /\ rpc[r] = "advance"
    /\ read_position_' = Advanced(read_position_)
    /\ received' = Append(received, buf[r])
    /\ rpc' = [rpc EXCEPT ![r] = "wrap"]
    /\ UNCHANGED <<read_sem_, buf, misled, writerVars>>

WrapRead(r) ==
    /\ rpc[r] = "wrap"
    /\ read_position_' = Wrapped(read_position_)
    /\ rpc' = [rpc EXCEPT ![r] = "unlock"]
    /\ UNCHANGED <<read_sem_, buf, received, misled, writerVars>>

UnlockRead(r) ==
    /\ rpc[r] = "unlock"
    /\ read_sem_' = read_sem_ + 1
    /\ rpc' = [rpc EXCEPT ![r] = "idle"]
    /\ UNCHANGED <<read_position_, buf, received, misled, writerVars>>

-----------------------------------------------------------------------------
Writer == CallWrite \/ ReturnFull \/ FindRoom \/ CopyIn \/ AdvanceWrite \/ WrapWrite

Reader(r) == \/ LockRead(r) \/ ReturnEmpty(r) \/ FindMessage(r) \/ CopyOut(r)
             \/ AdvanceRead(r) \/ WrapRead(r) \/ UnlockRead(r)

Next == Writer \/ \E r \in Readers : Reader(r)

Spec == Init /\ [][Next]_vars

(* A method once called runs on: neither process stops inside it.  Some    *)
(* reader polls again and again (log_sender, log_processor and log_server  *)
(* read in an endless loop); nobody has to call write.                     *)
Fairness == /\ WF_vars(ReturnFull \/ FindRoom \/ CopyIn \/ AdvanceWrite \/ WrapWrite)
            /\ WF_vars(\E r \in Readers : Reader(r))

FairSpec == Spec /\ Fairness

-----------------------------------------------------------------------------
TypeOK ==
    /\ slots \in [0 .. N - 1 -> Nat]
    /\ write_position_ \in 0 .. N /\ read_position_ \in 0 .. N
    /\ read_sem_ \in {0, 1}
    /\ wpc \in WriterPlaces /\ rpc \in [Readers -> ReaderPlaces]
    /\ buf \in [Readers -> Nat]
    /\ sent \in Nat /\ received \in Seq(Nat) /\ misled \in BOOLEAN

(* The writer never fills a slot while a reader copies out of it: the one  *)
(* slot Full (line 46) keeps free is what separates memcpy in (74) from    *)
(* memcpy out (126), in a build of two stores until a test of the other's  *)
(* position falls between them and answers wrongly.                        *)
NoTornRead ==
    ~ misled => \A r \in Readers :
        wpc = "copy" /\ rpc[r] = "copy" => write_position_ # read_position_

(* The readers get messages 1, 2, 3, ...: none lost, repeated, overtaken   *)
(* or made up from what a slot held before.                                *)
ReceivedInOrder == \A i \in 1 .. Len(received) : received[i] = i


(* No writer spins for ever in WriteToMsgQueue_Wait (line 95) while        *)
(* somebody reads.  (Misled readers can use up MaxReceived.)               *)
WriterGetsThrough == wpc = "wait" ~> wpc # "wait" \/ misled

(* The queue is what lies between the positions, once each is wrapped.     *)
SizeBetween(write, read) == IF write >= read THEN write - read ELSE write + N - read
Size == SizeBetween(Wrapped(write_position_), Wrapped(read_position_))

Fifo == INSTANCE BoundedFifo
    WITH Capacity <- N - 1, Messages <- 1 .. MaxMessages,
         queue <- [i \in 1 .. Size |-> slots[(Wrapped(read_position_) + i - 1) % N]]

(* The ring implements a FIFO of N - 1 messages, each put and taken when   *)
(* its position is first stored: with one store always,                    *)
FifoSpec == Fifo!Spec

(* and with two (lines 77-80, 128-131) as long as no test is misled.       *)
FifoUntilMisled == Fifo!Init /\ [][misled \/ Fifo!Next]_(Fifo!vars)
=============================================================================
