------------------------------- MODULE RWLock -------------------------------
(***************************************************************************)
(* The read-write lock of RWLock.h by which ThreadPool guards its list:    *)
(* four counters under _mutex and two condition variables.  What a thread  *)
(* does between two waits is one step, since it holds _mutex meanwhile.    *)
(* A woken thread has to get _mutex again before it looks at the counters, *)
(* and other threads may come in between.                                  *)
(***************************************************************************)
EXTENDS Naturals, FiniteSets

CONSTANT Threads

ASSUME ThreadsAssumption == IsFiniteSet(Threads)

VARIABLES
  reader,   \* _reader: threads that wait to read
  writer,   \* _writer: threads that wait to write
  reading,  \* _reading: threads that read
  writing,  \* _writing
  at        \* thread -> where it is

lockVars == <<reader, writer, reading, writing, at>>

\* Asleep in wait(), or woken and about to get _mutex again.
WaitsToWrite == { t \in Threads : at[t] \in {"writeAsleep", "writeAwake"} }
WaitsToRead  == { t \in Threads : at[t] \in {"readAsleep", "readAwake"} }

At(place) == { t \in Threads : at[t] = place }

LockTypeOK ==
  /\ reader \in Nat /\ writer \in Nat /\ reading \in Nat /\ writing \in BOOLEAN
  /\ at \in [Threads -> {"out", "writeAsleep", "writeAwake", "readAsleep", "readAwake",
                         "reads", "writes"}]
-----------------------------------------------------------------------------
\* Mutant: only another writer keeps a writer out.
WriterStaysOutOfWriters == writing

WriterStaysOut == writing \/ reading > 0

\* Mutant: readers do not give way to writers that wait.
ReaderStaysOutOfWriters == writing

ReaderStaysOut == writer > 0 \/ writing

\* writeLock, up to a wait or its end.
WriteLock(t) ==
  /\ at[t] = "out"
  /\ IF WriterStaysOut
     THEN at' = [at EXCEPT ![t] = "writeAsleep"] /\ writer' = writer + 1 /\ UNCHANGED writing
     ELSE at' = [at EXCEPT ![t] = "writes"] /\ writing' = TRUE /\ UNCHANGED writer
  /\ UNCHANGED <<reader, reading>>

\* ... and from the wait on.
WriteLockAgain(t) ==
  /\ at[t] = "writeAwake"
  /\ IF WriterStaysOut
     THEN at' = [at EXCEPT ![t] = "writeAsleep"] /\ UNCHANGED <<writer, writing>>
     ELSE at' = [at EXCEPT ![t] = "writes"] /\ writing' = TRUE /\ writer' = writer - 1
  /\ UNCHANGED <<reader, reading>>

ReadLock(t) ==
  /\ at[t] = "out"
  /\ IF ReaderStaysOut
     THEN at' = [at EXCEPT ![t] = "readAsleep"] /\ reader' = reader + 1 /\ UNCHANGED reading
     ELSE at' = [at EXCEPT ![t] = "reads"] /\ reading' = reading + 1 /\ UNCHANGED reader
  /\ UNCHANGED <<writer, writing>>

ReadLockAgain(t) ==
  /\ at[t] = "readAwake"
  /\ IF ReaderStaysOut
     THEN at' = [at EXCEPT ![t] = "readAsleep"] /\ UNCHANGED <<reader, reading>>
     ELSE at' = [at EXCEPT ![t] = "reads"] /\ reading' = reading + 1 /\ reader' = reader - 1
  /\ UNCHANGED <<writer, writing>>

\* notify_one of _writeCondition, on the way out of t: it wakes nobody if
\* nobody sleeps.
OutWakingWriter(t) ==
  IF At("writeAsleep") = {}
  THEN at' = [at EXCEPT ![t] = "out"]
  ELSE \E w \in At("writeAsleep") : at' = [at EXCEPT ![t] = "out", ![w] = "writeAwake"]

\* Mutant: only one of the readers is woken.
OutWakingReader(t) ==
  IF At("readAsleep") = {}
  THEN at' = [at EXCEPT ![t] = "out"]
  ELSE \E r \in At("readAsleep") : at' = [at EXCEPT ![t] = "out", ![r] = "readAwake"]

\* notify_all of _readCondition.
OutWakingReaders(t) ==
  at' = [u \in Threads |-> IF u = t THEN "out"
                           ELSE IF at[u] = "readAsleep" THEN "readAwake" ELSE at[u]]

Out(t) == at' = [at EXCEPT ![t] = "out"]

WriteUnlock(t) ==
  /\ at[t] = "writes"
  /\ writing' = FALSE
  /\ \/ writer > 0 /\ OutWakingWriter(t)
     \/ writer = 0 /\ reader > 0 /\ OutWakingReaders(t)
     \/ writer = 0 /\ reader = 0 /\ Out(t)
  /\ UNCHANGED <<reader, writer, reading>>

ReadUnlock(t) ==
  /\ at[t] = "reads"
  /\ reading' = reading - 1
  /\ IF writer > 0 /\ reading' = 0 THEN OutWakingWriter(t) ELSE Out(t)
  /\ UNCHANGED <<reader, writer, writing>>

\* A condition variable may let a thread go on without any notification.
WakesByItself(t) ==
  /\ \/ at[t] = "writeAsleep" /\ at' = [at EXCEPT ![t] = "writeAwake"]
     \/ at[t] = "readAsleep" /\ at' = [at EXCEPT ![t] = "readAwake"]
  /\ UNCHANGED <<reader, writer, reading, writing>>
-----------------------------------------------------------------------------
LockInit ==
  /\ reader = 0 /\ writer = 0 /\ reading = 0 /\ writing = FALSE
  /\ at = [t \in Threads |-> "out"]

\* What a thread does once it is in a call of the lock, or holds it.
Continues(t) == WriteLockAgain(t) \/ ReadLockAgain(t) \/ WriteUnlock(t) \/ ReadUnlock(t)

LockNext == \E t \in Threads : WriteLock(t) \/ ReadLock(t) \/ Continues(t) \/ WakesByItself(t)

LockSpec == LockInit /\ [][LockNext]_lockVars

\* Threads run, and no critical section lasts for ever.
FairLockSpec == LockSpec /\ \A t \in Threads : WF_lockVars(Continues(t))
-----------------------------------------------------------------------------
\* RWLock.h:6: one thread writes at a time, and nobody reads meanwhile.
Exclusion ==
  \A t \in At("writes"), u \in At("writes") \cup At("reads") : t = u

\* No wake-up is lost in the window between a notification and the moment the
\* woken thread gets _mutex: a writer sleeps only while somebody holds the lock
\* or an awake writer is on its way, a reader only while writers write or wait.
NoWakeUpIsLost ==
  /\ At("writeAsleep") # {} => At("writes") \cup At("reads") \cup At("writeAwake") # {}
  /\ At("readAsleep") # {} => At("writes") \cup WaitsToWrite # {}

\* RWLock.h:6: writers first.  Readers that keep coming do not keep the writers
\* out (a writer that keeps coming may keep another one out).
SomeWriterWrites == (WaitsToWrite # {}) ~> (At("writes") # {})
=============================================================================
