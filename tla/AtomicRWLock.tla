---------------------------- MODULE AtomicRWLock ----------------------------
(***************************************************************************)
(* What a reader-writer lock promises: any number of readers, or one       *)
(* writer, hold it, and taking or leaving it is one indivisible step.      *)
(* The modules that use the lock of src/include/RWLock.h assume no more    *)
(* than this, and RWLock shows that the mutex and the condition variable   *)
(* of the code provide it.                                                 *)
(***************************************************************************)
CONSTANT Threads

VARIABLES readers,   \* the threads that hold the lock for reading
          writers    \* the threads that hold the lock for writing

vars == <<readers, writers>>

Init == readers = {} /\ writers = {}

AcquireRead(t) ==
    /\ t \notin readers
    /\ writers = {}
    /\ readers' = readers \cup {t}
    /\ UNCHANGED writers

AcquireWrite(t) ==
    /\ readers = {} /\ writers = {}
    /\ writers' = {t}
    /\ UNCHANGED readers

ReleaseRead(t) ==
    /\ t \in readers
    /\ readers' = readers \ {t}
    /\ UNCHANGED writers

ReleaseWrite(t) ==
    /\ t \in writers
    /\ writers' = writers \ {t}
    /\ UNCHANGED readers

Next == \E t \in Threads : \/ AcquireRead(t) \/ AcquireWrite(t)
                           \/ ReleaseRead(t) \/ ReleaseWrite(t)

Spec == Init /\ [][Next]_vars
=============================================================================
