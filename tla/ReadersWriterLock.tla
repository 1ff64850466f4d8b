-------------------------- MODULE ReadersWriterLock --------------------------
(***************************************************************************)
(* What the users of clientDescriptorsMutex expect of it: any number of    *)
(* readers, or one writer, and never both.                                 *)
(***************************************************************************)
CONSTANT Threads

VARIABLES readers,   \* threads that hold shared access
          writers    \* threads that hold exclusive access

lockVars == <<readers, writers>>

LockInit == readers = {} /\ writers = {}

AcquireShared(t) ==
    /\ t \notin readers
    /\ writers = {}
    /\ readers' = readers \cup {t}
    /\ UNCHANGED writers

ReleaseShared(t) ==
    /\ t \in readers
    /\ readers' = readers \ {t}
    /\ UNCHANGED writers

AcquireExclusive(t) ==
    /\ readers = {}
    /\ writers = {}
    /\ writers' = {t}
    /\ UNCHANGED readers

ReleaseExclusive(t) ==
    /\ writers = {t}
    /\ writers' = {}
    /\ UNCHANGED readers

LockNext == \E t \in Threads :
    \/ AcquireShared(t)
    \/ ReleaseShared(t)
    \/ AcquireExclusive(t)
    \/ ReleaseExclusive(t)

LockSpec == LockInit /\ [][LockNext]_lockVars

=============================================================================
