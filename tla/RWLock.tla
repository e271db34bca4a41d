------------------------------- MODULE RWLock -------------------------------
(***************************************************************************)
(* The reader-writer lock of src/include/RWLock.h: a mutex m, a condition  *)
(* variable cv, a count of readers and a flag for the writer.  Every       *)
(* method holds m from its first line to its last, or until cv.wait gives  *)
(* m up, so the code between two such points is one step here.  A thread   *)
(* that cv.wait has put to sleep is in asleep; notify_all empties that     *)
(* set, and a spurious wakeup, which the standard allows, may take one     *)
(* thread out of it at any time.  A woken thread tests its condition again.*)
(***************************************************************************)
EXTENDS Naturals, FiniteSets

CONSTANT Threads

ASSUME ThreadsFinite == IsFiniteSet(Threads)

VARIABLES pc,           \* where each thread is in its use of the lock
          asleep,       \* threads blocked in cv.wait
          readerCount,
          writerUsed

vars == <<pc, asleep, readerCount, writerUsed>>

Places == {"idle", "wantRead", "wantWrite", "reading", "writing"}
Wants(t) == pc[t] \in {"wantRead", "wantWrite"}
Holds(t) == pc[t] \in {"reading", "writing"}

Readers == {t \in Threads : pc[t] = "reading"}
Writers == {t \in Threads : pc[t] = "writing"}

Init ==
    /\ pc = [t \in Threads |-> "idle"]
    /\ asleep = {}
    /\ readerCount = 0
    /\ writerUsed = FALSE

-----------------------------------------------------------------------------
(* A caller decides to take the lock. *)
Call(t) ==
    /\ pc[t] = "idle"
    /\ \E want \in {"wantRead", "wantWrite"} : pc' = [pc EXCEPT ![t] = want]
    /\ UNCHANGED <<asleep, readerCount, writerUsed>>

(* The test of a waiting loop fails, and cv.wait releases m and sleeps. *)
ReadMustWait  == writerUsed
WriteMustWait_for_writer_only == writerUsed
WriteMustWait == readerCount # 0 \/ writerUsed

Wait(t) ==
    /\ t \notin asleep
    /\ \/ pc[t] = "wantRead"  /\ ReadMustWait
       \/ pc[t] = "wantWrite" /\ WriteMustWait
    /\ asleep' = asleep \cup {t}
    /\ UNCHANGED <<pc, readerCount, writerUsed>>

GetReadLock(t) ==
    /\ pc[t] = "wantRead" /\ t \notin asleep
    /\ ~ ReadMustWait
    /\ readerCount' = readerCount + 1
    /\ pc' = [pc EXCEPT ![t] = "reading"]
    /\ UNCHANGED <<asleep, writerUsed>>

GetWriteLock(t) ==
    /\ pc[t] = "wantWrite" /\ t \notin asleep
    /\ ~ WriteMustWait
    /\ writerUsed' = TRUE
    /\ pc' = [pc EXCEPT ![t] = "writing"]
    /\ UNCHANGED <<asleep, readerCount>>

(* Slips in the unlock methods that the properties must catch: no          *)
(* notification, a second decrement, a flag kept while others wait.        *)
UnlockReader_without_notify(t) ==
    /\ pc[t] = "reading"
    /\ readerCount' = readerCount - 1
    /\ pc' = [pc EXCEPT ![t] = "idle"]
    /\ UNCHANGED <<asleep, writerUsed>>

UnlockReader_counting_twice(t) ==
    /\ pc[t] = "reading"
    /\ readerCount' = readerCount - 2
    /\ asleep' = {}
    /\ pc' = [pc EXCEPT ![t] = "idle"]
    /\ UNCHANGED writerUsed

(* notify_all only when the last reader leaves. *)
UnlockReader(t) ==
    /\ pc[t] = "reading"
    /\ readerCount' = readerCount - 1
    /\ asleep' = IF readerCount' = 0 THEN {} ELSE asleep
    /\ pc' = [pc EXCEPT ![t] = "idle"]
    /\ UNCHANGED writerUsed

UnlockWriter(t) ==
    /\ pc[t] = "writing"
    /\ writerUsed' = FALSE
    /\ asleep' = {}
    /\ pc' = [pc EXCEPT ![t] = "idle"]
    /\ UNCHANGED readerCount

SpuriousWakeup(t) ==
    /\ t \in asleep
    /\ asleep' = asleep \ {t}
    /\ UNCHANGED <<pc, readerCount, writerUsed>>

Next == \E t \in Threads :
    \/ Call(t) \/ Wait(t)
    \/ GetReadLock(t) \/ GetWriteLock(t)
    \/ UnlockReader(t) \/ UnlockWriter(t)
    \/ SpuriousWakeup(t)

Spec == Init /\ [][Next]_vars

(***************************************************************************)
(* A runnable thread eventually runs: one that may test its condition      *)
(* tests it, and a holder leaves its section.  Nobody is obliged to call,  *)
(* and no spurious wakeup is counted on.                                   *)
(***************************************************************************)
Fairness == \A t \in Threads :
    /\ WF_vars(Wait(t)) /\ WF_vars(GetReadLock(t)) /\ WF_vars(GetWriteLock(t))
    /\ WF_vars(UnlockReader(t)) /\ WF_vars(UnlockWriter(t))

FairSpec == Spec /\ Fairness

-----------------------------------------------------------------------------
TypeOK ==
    /\ pc \in [Threads -> Places]
    /\ asleep \subseteq Threads
    /\ readerCount \in Nat
    /\ writerUsed \in BOOLEAN

(* A writer is alone: getWriteLock and getReadLock (lines 9-26) never let  *)
(* a second thread in beside it.                                           *)
MutualExclusion ==
    \A t, u \in Threads : pc[t] = "writing" /\ t # u => ~ Holds(u)

(* readerCount and writerUsed say exactly who is inside: no lost           *)
(* decrement, no flag left set by a thread that has gone.                  *)
CountersExact ==
    /\ readerCount = Cardinality(Readers)
    /\ writerUsed <=> Writers # {}

(* Nobody sleeps through its wakeup: a thread in cv.wait still has the     *)
(* condition it waits for unmet, although unlockReader (line 31) notifies  *)
(* only when the last reader leaves.                                       *)
NoLostWakeup ==
    \A t \in asleep :
        \/ pc[t] = "wantRead"  /\ ReadMustWait
        \/ pc[t] = "wantWrite" /\ WriteMustWait

(* A waiter is served once the other threads stop taking the lock (the     *)
(* lock is unfair: a stream of readers may overtake a writer for ever).    *)
ServedWhenOthersStop ==
    \A t \in Threads :
        <>[](\A u \in Threads \ {t} : pc[u] = "idle")
            => (Wants(t) ~> Holds(t))

(* Mutex, condition variable, count and flag together are the atomic lock. *)
Atomic == INSTANCE AtomicRWLock WITH readers <- Readers, writers <- Writers
AtomicSpec == Atomic!Spec
=============================================================================
