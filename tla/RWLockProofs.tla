---------------------------- MODULE RWLockProofs ----------------------------
(***************************************************************************)
(* For every finite set of threads, the lock of RWLock excludes writers,   *)
(* counts its readers exactly, loses no wakeup, and implements the atomic  *)
(* lock.  The inductive invariant is the conjunction of the four state     *)
(* invariants the runs check: mutual exclusion alone is not inductive,     *)
(* because GetWriteLock consults readerCount and writerUsed, not the       *)
(* threads, so that the counters have to be exact for it to be preserved.  *)
(***************************************************************************)
EXTENDS RWLock, TLAPS, FiniteSetTheorems

LEMMA ReadersFinite == IsFiniteSet(Readers) /\ Cardinality(Readers) \in Nat
  BY ThreadsFinite, FS_Subset, FS_CardinalityType, Readers \subseteq Threads DEF Readers

(* An empty count means that no thread reads. *)
LEMMA NoReaders == Cardinality(Readers) = 0 <=> Readers = {}
  BY ReadersFinite, FS_EmptySet

IInv == TypeOK /\ MutualExclusion /\ CountersExact /\ NoLostWakeup

LEMMA InitIInv == Init => IInv
<1> SUFFICES ASSUME Init PROVE IInv
  OBVIOUS
<1>1. TypeOK /\ MutualExclusion /\ NoLostWakeup
  BY DEF Init, TypeOK, Places, MutualExclusion, NoLostWakeup, Holds
<1>2. Readers = {} /\ Writers = {}
  BY DEF Init, Readers, Writers
<1>3. CountersExact
  BY <1>2, FS_EmptySet DEF Init, CountersExact
<1> QED
  BY <1>1, <1>3 DEF IInv

(* What each action does to the two sets of holders. *)
LEMMA HoldersUnchanged ==
  ASSUME TypeOK, NEW t \in Threads, NEW p \in {"idle", "wantRead", "wantWrite"},
         ~ Holds(t), pc' = [pc EXCEPT ![t] = p]
  PROVE  Readers' = Readers /\ Writers' = Writers
  BY DEF TypeOK, Holds, Readers, Writers

LEMMA ReaderEnters ==
  ASSUME TypeOK, NEW t \in Threads, ~ Holds(t), pc' = [pc EXCEPT ![t] = "reading"]
  PROVE  Readers' = Readers \cup {t} /\ Writers' = Writers /\ t \notin Readers
  BY DEF TypeOK, Holds, Readers, Writers

LEMMA ReaderLeaves ==
  ASSUME TypeOK, NEW t \in Threads, pc[t] = "reading", pc' = [pc EXCEPT ![t] = "idle"]
  PROVE  Readers' = Readers \ {t} /\ Writers' = Writers /\ t \in Readers
  BY DEF TypeOK, Readers, Writers

LEMMA WriterEnters ==
  ASSUME TypeOK, NEW t \in Threads, ~ Holds(t), pc' = [pc EXCEPT ![t] = "writing"]
  PROVE  Readers' = Readers /\ Writers' = Writers \cup {t}
  BY DEF TypeOK, Holds, Readers, Writers

LEMMA WriterLeaves ==
  ASSUME TypeOK, NEW t \in Threads, pc[t] = "writing", pc' = [pc EXCEPT ![t] = "idle"]
  PROVE  Readers' = Readers /\ Writers' = Writers \ {t} /\ t \in Writers
  BY DEF TypeOK, Readers, Writers

LEMMA NextIInv == IInv /\ [Next]_vars => IInv'
<1> SUFFICES ASSUME IInv, [Next]_vars PROVE IInv'
  OBVIOUS
<1> USE DEF IInv
<1>1. ASSUME NEW t \in Threads, Call(t) PROVE IInv'
  <2>1. PICK want \in {"wantRead", "wantWrite"} : pc' = [pc EXCEPT ![t] = want]
    BY <1>1 DEF Call
  <2>2. UNCHANGED <<asleep, readerCount, writerUsed>> /\ ~ Holds(t)
    BY <1>1 DEF Call, Holds
  <2>3. Readers' = Readers /\ Writers' = Writers
    BY <2>1, <2>2, HoldersUnchanged
  <2>4. TypeOK' /\ MutualExclusion'
    BY <2>1, <2>2 DEF TypeOK, Places, MutualExclusion, Holds
  <2>5. CountersExact'
    BY <2>2, <2>3 DEF CountersExact
  <2>6. t \notin asleep
    BY <1>1 DEF Call, NoLostWakeup
  <2>7. NoLostWakeup'
    BY <2>1, <2>2, <2>6 DEF NoLostWakeup, TypeOK, ReadMustWait, WriteMustWait
  <2> QED
    BY <2>4, <2>5, <2>7
<1>2. ASSUME NEW t \in Threads, Wait(t) PROVE IInv'
  <2>1. UNCHANGED <<pc, readerCount, writerUsed>> /\ asleep' = asleep \cup {t}
    BY <1>2 DEF Wait
  <2>2. TypeOK' /\ MutualExclusion' /\ CountersExact'
    BY <2>1 DEF TypeOK, MutualExclusion, Holds, CountersExact, Readers, Writers
  <2>3. NoLostWakeup'
    BY <1>2, <2>1 DEF Wait, NoLostWakeup, ReadMustWait, WriteMustWait
  <2> QED
    BY <2>2, <2>3
<1>3. ASSUME NEW t \in Threads, GetReadLock(t) PROVE IInv'
  <2>1. /\ pc[t] = "wantRead" /\ t \notin asleep /\ ~ writerUsed
        /\ readerCount' = readerCount + 1
        /\ pc' = [pc EXCEPT ![t] = "reading"]
        /\ UNCHANGED <<asleep, writerUsed>>
    BY <1>3 DEF GetReadLock, ReadMustWait
  <2>2. Readers' = Readers \cup {t} /\ Writers' = Writers /\ t \notin Readers
    BY <2>1, ReaderEnters DEF Holds
  <2>3. Cardinality(Readers') = Cardinality(Readers) + 1
    BY <2>2, ReadersFinite, FS_AddElement
  <2>4. TypeOK'
    BY <2>1 DEF TypeOK, Places
  <2>5. Writers = {}
    BY <2>1 DEF CountersExact
  <2>6. MutualExclusion'
    BY <2>1, <2>5 DEF MutualExclusion, Holds, Writers, TypeOK
  <2>7. CountersExact'
    BY <2>1, <2>2, <2>3 DEF CountersExact
  <2>8. NoLostWakeup'
    BY <2>1 DEF NoLostWakeup, ReadMustWait, WriteMustWait, TypeOK
  <2> QED
    BY <2>4, <2>6, <2>7, <2>8
<1>4. ASSUME NEW t \in Threads, GetWriteLock(t) PROVE IInv'
  <2>1. /\ pc[t] = "wantWrite" /\ t \notin asleep /\ readerCount = 0 /\ ~ writerUsed
        /\ writerUsed' = TRUE
        /\ pc' = [pc EXCEPT ![t] = "writing"]
        /\ UNCHANGED <<asleep, readerCount>>
    BY <1>4 DEF GetWriteLock, WriteMustWait
  <2>2. Readers' = Readers /\ Writers' = Writers \cup {t}
    BY <2>1, WriterEnters DEF Holds
  <2>3. Readers = {} /\ Writers = {}
    BY <2>1, NoReaders DEF CountersExact
  <2>4. TypeOK'
    BY <2>1 DEF TypeOK, Places
  <2>5. MutualExclusion'
    BY <2>1, <2>3 DEF MutualExclusion, Holds, Readers, Writers, TypeOK
  <2>6. CountersExact'
    BY <2>1, <2>2 DEF CountersExact
  <2>7. NoLostWakeup'
    BY <2>1 DEF NoLostWakeup, ReadMustWait, WriteMustWait, TypeOK
  <2> QED
    BY <2>4, <2>5, <2>6, <2>7
<1>5. ASSUME NEW t \in Threads, UnlockReader(t) PROVE IInv'
  <2>1. /\ pc[t] = "reading"
        /\ readerCount' = readerCount - 1
        /\ asleep' = IF readerCount' = 0 THEN {} ELSE asleep
        /\ pc' = [pc EXCEPT ![t] = "idle"]
        /\ UNCHANGED writerUsed
    BY <1>5 DEF UnlockReader
  <2>2. Readers' = Readers \ {t} /\ Writers' = Writers /\ t \in Readers
    BY <2>1, ReaderLeaves
  <2>3. Cardinality(Readers') = Cardinality(Readers) - 1
    BY <2>2, ReadersFinite, FS_RemoveElement
  <2>4. Cardinality(Readers) # 0
    BY <2>2, NoReaders
  <2>5. readerCount' \in Nat
    BY <2>1, <2>4, ReadersFinite DEF CountersExact, TypeOK
  <2>6. TypeOK'
    BY <2>1, <2>5 DEF TypeOK, Places
  <2>7. MutualExclusion'
    BY <2>1 DEF MutualExclusion, Holds, TypeOK
  <2>8. CountersExact'
    BY <2>1, <2>2, <2>3 DEF CountersExact
  <2>9. ASSUME NEW u \in asleep' PROVE \/ pc'[u] = "wantRead"  /\ ReadMustWait'
                                       \/ pc'[u] = "wantWrite" /\ WriteMustWait'
    <3>1. readerCount' # 0 /\ u \in asleep
      BY <2>1, <2>9
    <3>2. t # u
      BY <3>1, <2>1 DEF NoLostWakeup
    <3>3. pc'[u] = pc[u]
      BY <3>2, <2>1 DEF TypeOK
    <3> QED
      BY <3>1, <3>3, <2>1 DEF NoLostWakeup, ReadMustWait, WriteMustWait
  <2>10. NoLostWakeup'
    BY <2>9 DEF NoLostWakeup
  <2> QED
    BY <2>6, <2>7, <2>8, <2>10
<1>6. ASSUME NEW t \in Threads, UnlockWriter(t) PROVE IInv'
  <2>1. /\ pc[t] = "writing"
        /\ writerUsed' = FALSE
        /\ asleep' = {}
        /\ pc' = [pc EXCEPT ![t] = "idle"]
        /\ UNCHANGED readerCount
    BY <1>6 DEF UnlockWriter
  <2>2. Readers' = Readers /\ Writers' = Writers \ {t}
    BY <2>1, WriterLeaves
  <2>3. Writers \subseteq {t}
    BY <2>1 DEF MutualExclusion, Holds, Writers
  <2>4. TypeOK' /\ MutualExclusion' /\ NoLostWakeup'
    BY <2>1 DEF TypeOK, Places, MutualExclusion, Holds, NoLostWakeup
  <2>5. CountersExact'
    BY <2>1, <2>2, <2>3 DEF CountersExact
  <2> QED
    BY <2>4, <2>5
<1>7. ASSUME NEW t \in Threads, SpuriousWakeup(t) PROVE IInv'
  BY <1>7 DEF SpuriousWakeup, TypeOK, MutualExclusion, Holds, CountersExact, Readers,
              Writers, NoLostWakeup, ReadMustWait, WriteMustWait
<1>8. CASE UNCHANGED vars
  BY <1>8 DEF vars, TypeOK, MutualExclusion, Holds, CountersExact, Readers,
              Writers, NoLostWakeup, ReadMustWait, WriteMustWait
<1> QED
  BY <1>1, <1>2, <1>3, <1>4, <1>5, <1>6, <1>7, <1>8 DEF Next

(* The invariant of the lock of RWLock.h. *)
THEOREM LockInvariant == Spec => []IInv
  BY InitIInv, NextIInv, PTL DEF Spec

(* Every variable keeps its type. *)
THEOREM LockTypeOK == Spec => []TypeOK
  BY LockInvariant, PTL DEF IInv

(* A writer is never inside getWriteLock/unlockWriter beside another       *)
(* thread.                                                                 *)
THEOREM LockMutualExclusion == Spec => []MutualExclusion
  BY LockInvariant, PTL DEF IInv

(* readerCount and writerUsed always say who is inside. *)
THEOREM LockCountersExact == Spec => []CountersExact
  BY LockInvariant, PTL DEF IInv

(* A thread blocked in cv.wait still has to wait. *)
THEOREM LockNoLostWakeup == Spec => []NoLostWakeup
  BY LockInvariant, PTL DEF IInv

-----------------------------------------------------------------------------
LEMMA InitAtomic == Init => Atomic!Init
  BY DEF Init, Atomic!Init, Readers, Writers

LEMMA NextAtomic == IInv /\ [Next]_vars => [Atomic!Next]_(Atomic!vars)
<1> SUFFICES ASSUME IInv, [Next]_vars PROVE Atomic!Next \/ UNCHANGED Atomic!vars
  OBVIOUS
<1> USE DEF IInv
<1>1. ASSUME NEW t \in Threads, Call(t) PROVE UNCHANGED Atomic!vars
  BY <1>1, HoldersUnchanged DEF Call, Holds, Atomic!vars
<1>2. ASSUME NEW t \in Threads, Wait(t) \/ SpuriousWakeup(t) PROVE UNCHANGED Atomic!vars
  BY <1>2 DEF Wait, SpuriousWakeup, Atomic!vars, Readers, Writers
<1>3. ASSUME NEW t \in Threads, GetReadLock(t) PROVE Atomic!AcquireRead(t)
  <2>1. Writers = {}
    BY <1>3 DEF GetReadLock, ReadMustWait, CountersExact
  <2> QED
    BY <1>3, <2>1, ReaderEnters DEF GetReadLock, Holds, Atomic!AcquireRead
<1>4. ASSUME NEW t \in Threads, GetWriteLock(t) PROVE Atomic!AcquireWrite(t)
  <2>1. Readers = {} /\ Writers = {}
    BY <1>4, NoReaders DEF GetWriteLock, WriteMustWait, CountersExact
  <2> QED
    BY <1>4, <2>1, WriterEnters DEF GetWriteLock, Holds, Atomic!AcquireWrite
<1>5. ASSUME NEW t \in Threads, UnlockReader(t) PROVE Atomic!ReleaseRead(t)
  BY <1>5, ReaderLeaves DEF UnlockReader, Atomic!ReleaseRead
<1>6. ASSUME NEW t \in Threads, UnlockWriter(t) PROVE Atomic!ReleaseWrite(t)
  BY <1>6, WriterLeaves DEF UnlockWriter, Atomic!ReleaseWrite
<1>7. CASE UNCHANGED vars
  BY <1>7 DEF vars, Atomic!vars, Readers, Writers
<1> QED
  BY <1>1, <1>2, <1>3, <1>4, <1>5, <1>6, <1>7 DEF Next, Atomic!Next

(* RWLock.h implements the atomic reader-writer lock that the other        *)
(* modules take their locking from.                                        *)
THEOREM LockIsAtomic == Spec => AtomicSpec
<1>1. Atomic!Init /\ [][Atomic!Next]_(Atomic!vars) => AtomicSpec
  BY DEF AtomicSpec, Atomic!Spec
<1> QED
  BY <1>1, InitAtomic, NextAtomic, LockInvariant, PTL DEF Spec
=============================================================================
