----------------------------- MODULE UtilProofs -----------------------------
(***************************************************************************)
(* Theorems about RWLock, for every finite set of threads, and about       *)
(* MessageQueue, for every set of senders and delays and every bound.  The *)
(* two modules share nothing: their theorems stand here one after another. *)
(***************************************************************************)
EXTENDS RWLock, MessageQueue, FiniteSetTheorems, SequenceTheorems, TLAPS

-----------------------------------------------------------------------------
(***************************************************************************)
(* The read-write lock.                                                    *)
(***************************************************************************)

\* The counters count: they say the same as the places of the threads.
CountersCount ==
  /\ writer = Cardinality(WaitsToWrite)
  /\ reader = Cardinality(WaitsToRead)
  /\ reading = Cardinality(At("reads"))
  /\ writing <=> At("writes") # {}

\* The inductive invariant.  Exclusion and NoWakeUpIsLost speak of threads, the
\* guards of counters, so that neither is inductive without CountersCount.
LockInv ==
  /\ LockTypeOK
  /\ CountersCount
  /\ Exclusion
  /\ NoWakeUpIsLost

\* A set of threads that gains or loses one, and its counter.
LEMMA GainOne ==
  ASSUME NEW S \in SUBSET Threads, NEW t \in Threads \ S
  PROVE  Cardinality(S \cup {t}) = Cardinality(S) + 1
  BY FS_AddElement, FS_Subset, ThreadsAssumption

LEMMA LoseOne ==
  ASSUME NEW S \in SUBSET Threads, NEW t \in S
  PROVE  Cardinality(S \ {t}) = Cardinality(S) - 1
  BY FS_RemoveElement, FS_Subset, ThreadsAssumption

\* What the guards say of the threads.
LEMMA CountersTell ==
  ASSUME LockInv
  PROVE  /\ writer \in Nat /\ reader \in Nat /\ reading \in Nat /\ writing \in BOOLEAN
         /\ writer > 0 <=> WaitsToWrite # {}
         /\ reader > 0 <=> WaitsToRead # {}
         /\ reading > 0 <=> At("reads") # {}
         /\ writing <=> At("writes") # {}
<1>1. /\ WaitsToWrite \in SUBSET Threads /\ WaitsToRead \in SUBSET Threads
      /\ At("reads") \in SUBSET Threads
  BY DEF WaitsToWrite, WaitsToRead, At
<1>2. IsFiniteSet(WaitsToWrite) /\ IsFiniteSet(WaitsToRead) /\ IsFiniteSet(At("reads"))
  BY <1>1, FS_Subset, ThreadsAssumption
<1>3. /\ Cardinality(WaitsToWrite) = 0 <=> WaitsToWrite = {}
      /\ Cardinality(WaitsToRead) = 0 <=> WaitsToRead = {}
      /\ Cardinality(At("reads")) = 0 <=> At("reads") = {}
  BY <1>2, FS_EmptySet
<1>4. QED
  BY <1>3 DEF LockInv, LockTypeOK, CountersCount

LEMMA LockInitEstablishesInv == LockInit => LockInv
<1>1. SUFFICES ASSUME LockInit PROVE LockInv
  OBVIOUS
<1>2. /\ WaitsToWrite = {} /\ WaitsToRead = {} /\ At("reads") = {} /\ At("writes") = {}
      /\ At("writeAsleep") = {} /\ At("readAsleep") = {}
  BY <1>1 DEF LockInit, WaitsToWrite, WaitsToRead, At
<1>3. LockTypeOK
  BY <1>1 DEF LockInit, LockTypeOK
<1>4. QED
  BY <1>1, <1>2, <1>3, FS_EmptySet
  DEF LockInit, LockInv, CountersCount, Exclusion, NoWakeUpIsLost
-----------------------------------------------------------------------------
LEMMA WriteLockPreservesInv ==
  ASSUME LockInv, NEW t \in Threads, WriteLock(t)
  PROVE  LockInv'
<1>1. LockTypeOK /\ at[t] = "out" /\ CountersCount /\ Exclusion /\ NoWakeUpIsLost
  BY DEF LockInv, WriteLock
<1>2. CASE WriterStaysOut
  <2>1. /\ WaitsToWrite' = WaitsToWrite \cup {t} /\ WaitsToRead' = WaitsToRead
        /\ At("reads")' = At("reads") /\ At("writes")' = At("writes")
        /\ At("writeAsleep")' = At("writeAsleep") \cup {t}
        /\ At("readAsleep")' = At("readAsleep")
    BY <1>1, <1>2 DEF WriteLock, LockTypeOK, WaitsToWrite, WaitsToRead, At
  <2>2. t \in Threads \ WaitsToWrite /\ WaitsToWrite \in SUBSET Threads
    BY <1>1 DEF WaitsToWrite
  <2>3. LockTypeOK'
    BY <1>1, <1>2 DEF WriteLock, LockTypeOK
  <2>4. CountersCount'
    BY <1>1, <1>2, <2>1, <2>2, GainOne DEF WriteLock, CountersCount
  <2>5. Exclusion' /\ NoWakeUpIsLost'
    BY <1>1, <1>2, <2>1, CountersTell DEF WriterStaysOut, Exclusion, NoWakeUpIsLost
  <2>6. QED
    BY <2>3, <2>4, <2>5 DEF LockInv
<1>3. CASE ~WriterStaysOut
  <2>1. /\ WaitsToWrite' = WaitsToWrite /\ WaitsToRead' = WaitsToRead
        /\ At("reads")' = At("reads") /\ At("writes")' = At("writes") \cup {t}
        /\ At("writeAsleep")' = At("writeAsleep") /\ At("readAsleep")' = At("readAsleep")
    BY <1>1, <1>3 DEF WriteLock, LockTypeOK, WaitsToWrite, WaitsToRead, At
  <2>2. At("reads") = {} /\ At("writes") = {}
    BY <1>3, CountersTell DEF WriterStaysOut
  <2>3. LockTypeOK'
    BY <1>1, <1>3 DEF WriteLock, LockTypeOK
  <2>4. CountersCount'
    BY <1>1, <1>3, <2>1 DEF WriteLock, CountersCount
  <2>5. Exclusion' /\ NoWakeUpIsLost'
    BY <1>1, <2>1, <2>2 DEF Exclusion, NoWakeUpIsLost
  <2>6. QED
    BY <2>3, <2>4, <2>5 DEF LockInv
<1>4. QED
  BY <1>2, <1>3

LEMMA WriteLockAgainPreservesInv ==
  ASSUME LockInv, NEW t \in Threads, WriteLockAgain(t)
  PROVE  LockInv'
<1>1. LockTypeOK /\ at[t] = "writeAwake" /\ CountersCount /\ Exclusion /\ NoWakeUpIsLost
  BY DEF LockInv, WriteLockAgain
<1>2. t \in WaitsToWrite /\ WaitsToWrite \in SUBSET Threads
  BY <1>1 DEF WaitsToWrite
<1>3. CASE WriterStaysOut
  <2>1. /\ WaitsToWrite' = WaitsToWrite /\ WaitsToRead' = WaitsToRead
        /\ At("reads")' = At("reads") /\ At("writes")' = At("writes")
        /\ At("readAsleep")' = At("readAsleep")
    BY <1>1, <1>3 DEF WriteLockAgain, LockTypeOK, WaitsToWrite, WaitsToRead, At
  <2>2. LockTypeOK' /\ CountersCount'
    BY <1>1, <1>3, <2>1 DEF WriteLockAgain, LockTypeOK, CountersCount
  <2>3. Exclusion' /\ NoWakeUpIsLost'
    BY <1>1, <1>3, <2>1, CountersTell DEF WriterStaysOut, Exclusion, NoWakeUpIsLost
  <2>4. QED
    BY <2>2, <2>3 DEF LockInv
<1>4. CASE ~WriterStaysOut
  <2>1. /\ WaitsToWrite' = WaitsToWrite \ {t} /\ WaitsToRead' = WaitsToRead
        /\ At("reads")' = At("reads") /\ At("writes")' = At("writes") \cup {t}
        /\ At("writeAsleep")' = At("writeAsleep") /\ At("readAsleep")' = At("readAsleep")
    BY <1>1, <1>4 DEF WriteLockAgain, LockTypeOK, WaitsToWrite, WaitsToRead, At
  <2>2. At("reads") = {} /\ At("writes") = {}
    BY <1>4, CountersTell DEF WriterStaysOut
  <2>3. writer > 0
    BY <1>2, CountersTell
  <2>4. LockTypeOK'
    BY <1>1, <1>4, <2>3 DEF WriteLockAgain, LockTypeOK
  <2>5. CountersCount'
    BY <1>1, <1>2, <1>4, <2>1, LoseOne DEF WriteLockAgain, CountersCount
  <2>6. Exclusion' /\ NoWakeUpIsLost'
    BY <1>1, <2>1, <2>2 DEF Exclusion, NoWakeUpIsLost
  <2>7. QED
    BY <2>4, <2>5, <2>6 DEF LockInv
<1>5. QED
  BY <1>3, <1>4
-----------------------------------------------------------------------------
LEMMA ReadLockPreservesInv ==
  ASSUME LockInv, NEW t \in Threads, ReadLock(t)
  PROVE  LockInv'
<1>1. LockTypeOK /\ at[t] = "out" /\ CountersCount /\ Exclusion /\ NoWakeUpIsLost
  BY DEF LockInv, ReadLock
<1>2. CASE ReaderStaysOut
  <2>1. /\ WaitsToWrite' = WaitsToWrite /\ WaitsToRead' = WaitsToRead \cup {t}
        /\ At("reads")' = At("reads") /\ At("writes")' = At("writes")
        /\ At("writeAsleep")' = At("writeAsleep") /\ At("writeAwake")' = At("writeAwake")
    BY <1>1, <1>2 DEF ReadLock, LockTypeOK, WaitsToWrite, WaitsToRead, At
  <2>2. t \in Threads \ WaitsToRead /\ WaitsToRead \in SUBSET Threads
    BY <1>1 DEF WaitsToRead
  <2>3. LockTypeOK'
    BY <1>1, <1>2 DEF ReadLock, LockTypeOK
  <2>4. CountersCount'
    BY <1>1, <1>2, <2>1, <2>2, GainOne DEF ReadLock, CountersCount
  <2>5. Exclusion' /\ NoWakeUpIsLost'
    BY <1>1, <1>2, <2>1, CountersTell DEF ReaderStaysOut, Exclusion, NoWakeUpIsLost
  <2>6. QED
    BY <2>3, <2>4, <2>5 DEF LockInv
<1>3. CASE ~ReaderStaysOut
  <2>1. /\ WaitsToWrite' = WaitsToWrite /\ WaitsToRead' = WaitsToRead
        /\ At("reads")' = At("reads") \cup {t} /\ At("writes")' = At("writes")
        /\ At("writeAsleep")' = At("writeAsleep") /\ At("readAsleep")' = At("readAsleep")
        /\ At("writeAwake")' = At("writeAwake")
    BY <1>1, <1>3 DEF ReadLock, LockTypeOK, WaitsToWrite, WaitsToRead, At
  <2>2. At("writes") = {} /\ t \in Threads \ At("reads") /\ At("reads") \in SUBSET Threads
    BY <1>1, <1>3, CountersTell DEF ReaderStaysOut, At
  <2>3. LockTypeOK'
    BY <1>1, <1>3 DEF ReadLock, LockTypeOK
  <2>4. CountersCount'
    BY <1>1, <1>3, <2>1, <2>2, GainOne DEF ReadLock, CountersCount
  <2>5. Exclusion' /\ NoWakeUpIsLost'
    BY <1>1, <2>1, <2>2 DEF Exclusion, NoWakeUpIsLost
  <2>6. QED
    BY <2>3, <2>4, <2>5 DEF LockInv
<1>4. QED
  BY <1>2, <1>3

LEMMA ReadLockAgainPreservesInv ==
  ASSUME LockInv, NEW t \in Threads, ReadLockAgain(t)
  PROVE  LockInv'
<1>1. LockTypeOK /\ at[t] = "readAwake" /\ CountersCount /\ Exclusion /\ NoWakeUpIsLost
  BY DEF LockInv, ReadLockAgain
<1>2. t \in WaitsToRead /\ WaitsToRead \in SUBSET Threads
  BY <1>1 DEF WaitsToRead
<1>3. CASE ReaderStaysOut
  <2>1. /\ WaitsToWrite' = WaitsToWrite /\ WaitsToRead' = WaitsToRead
        /\ At("reads")' = At("reads") /\ At("writes")' = At("writes")
        /\ At("writeAsleep")' = At("writeAsleep") /\ At("writeAwake")' = At("writeAwake")
    BY <1>1, <1>3 DEF ReadLockAgain, LockTypeOK, WaitsToWrite, WaitsToRead, At
  <2>2. LockTypeOK' /\ CountersCount'
    BY <1>1, <1>3, <2>1 DEF ReadLockAgain, LockTypeOK, CountersCount
  <2>3. Exclusion' /\ NoWakeUpIsLost'
    BY <1>1, <1>3, <2>1, CountersTell DEF ReaderStaysOut, Exclusion, NoWakeUpIsLost
  <2>4. QED
    BY <2>2, <2>3 DEF LockInv
<1>4. CASE ~ReaderStaysOut
  <2>1. /\ WaitsToWrite' = WaitsToWrite /\ WaitsToRead' = WaitsToRead \ {t}
        /\ At("reads")' = At("reads") \cup {t} /\ At("writes")' = At("writes")
        /\ At("writeAsleep")' = At("writeAsleep") /\ At("readAsleep")' = At("readAsleep")
        /\ At("writeAwake")' = At("writeAwake")
    BY <1>1, <1>4 DEF ReadLockAgain, LockTypeOK, WaitsToWrite, WaitsToRead, At
  <2>2. At("writes") = {} /\ t \in Threads \ At("reads") /\ At("reads") \in SUBSET Threads
    BY <1>1, <1>4, CountersTell DEF ReaderStaysOut, At
  <2>3. reader > 0
    BY <1>2, CountersTell
  <2>4. LockTypeOK'
    BY <1>1, <1>4, <2>3 DEF ReadLockAgain, LockTypeOK
  <2>5. CountersCount'
    BY <1>1, <1>2, <1>4, <2>1, <2>2, GainOne, LoseOne DEF ReadLockAgain, CountersCount
  <2>6. Exclusion' /\ NoWakeUpIsLost'
    BY <1>1, <2>1, <2>2 DEF Exclusion, NoWakeUpIsLost
  <2>7. QED
    BY <2>4, <2>5, <2>6 DEF LockInv
<1>5. QED
  BY <1>3, <1>4
-----------------------------------------------------------------------------
\* A thread leaves and takes a sleeping writer's sleep with it.
LEMMA OutWakingWriterMoves ==
  ASSUME LockTypeOK, NEW t \in Threads, at[t] \in {"reads", "writes"}, OutWakingWriter(t)
  PROVE  /\ at' \in [Threads -> {"out", "writeAsleep", "writeAwake", "readAsleep",
                                 "readAwake", "reads", "writes"}]
         /\ WaitsToWrite' = WaitsToWrite /\ WaitsToRead' = WaitsToRead
         /\ At("reads")' = At("reads") \ {t} /\ At("writes")' = At("writes") \ {t}
         /\ At("readAsleep")' = At("readAsleep")
         /\ At("writeAsleep") # {} => At("writeAwake")' # {}
         /\ At("writeAsleep") = {} => At("writeAsleep")' = {}
<1>1. CASE At("writeAsleep") = {}
  BY <1>1 DEF OutWakingWriter, LockTypeOK, WaitsToWrite, WaitsToRead, At
<1>2. CASE At("writeAsleep") # {}
  <2>1. PICK w \in At("writeAsleep") : at' = [at EXCEPT ![t] = "out", ![w] = "writeAwake"]
    BY <1>2 DEF OutWakingWriter
  <2>2. w \in Threads /\ at[w] = "writeAsleep" /\ w # t
    BY <2>1 DEF At
  <2>3. /\ at' \in [Threads -> {"out", "writeAsleep", "writeAwake", "readAsleep",
                                "readAwake", "reads", "writes"}]
        /\ \A u \in Threads : at'[u] = IF u = t THEN "out"
                                       ELSE IF u = w THEN "writeAwake" ELSE at[u]
    BY <2>1, <2>2 DEF LockTypeOK
  <2>4. /\ WaitsToWrite' = WaitsToWrite /\ WaitsToRead' = WaitsToRead
        /\ At("reads")' = At("reads") \ {t} /\ At("writes")' = At("writes") \ {t}
        /\ At("readAsleep")' = At("readAsleep") /\ w \in At("writeAwake")'
    BY <2>2, <2>3 DEF WaitsToWrite, WaitsToRead, At
  <2>5. QED
    BY <1>2, <2>3, <2>4
<1>3. QED
  BY <1>1, <1>2

LEMMA WriteUnlockPreservesInv ==
  ASSUME LockInv, NEW t \in Threads, WriteUnlock(t)
  PROVE  LockInv'
<1>1. LockTypeOK /\ at[t] = "writes" /\ CountersCount /\ Exclusion /\ NoWakeUpIsLost
  BY DEF LockInv, WriteUnlock
<1>2. At("writes") = {t} /\ At("reads") = {}
  BY <1>1 DEF Exclusion, At
<1>3. CASE writer > 0 /\ OutWakingWriter(t)
  <2>1. /\ WaitsToWrite' = WaitsToWrite /\ WaitsToRead' = WaitsToRead
        /\ At("reads")' = {} /\ At("writes")' = {}
        /\ At("readAsleep")' = At("readAsleep")
        /\ At("writeAsleep") # {} => At("writeAwake")' # {}
        /\ At("writeAsleep") = {} => At("writeAsleep")' = {}
    BY <1>1, <1>2, <1>3, OutWakingWriterMoves
  <2>2. LockTypeOK'
    BY <1>1, <1>3, OutWakingWriterMoves DEF WriteUnlock, LockTypeOK
  <2>3. CountersCount'
    BY <1>1, <1>2, <2>1 DEF WriteUnlock, CountersCount
  <2>4. WaitsToWrite # {}
    BY <1>3, CountersTell
  <2>5. Exclusion' /\ NoWakeUpIsLost'
    BY <2>1, <2>4 DEF Exclusion, NoWakeUpIsLost
  <2>6. QED
    BY <2>2, <2>3, <2>5 DEF LockInv
<1>4. CASE writer = 0 /\ reader > 0 /\ OutWakingReaders(t)
  <2>1. /\ WaitsToWrite' = WaitsToWrite /\ WaitsToRead' = WaitsToRead
        /\ At("reads")' = {} /\ At("writes")' = {}
        /\ At("readAsleep")' = {} /\ At("writeAsleep")' = At("writeAsleep")
    BY <1>1, <1>2, <1>4 DEF OutWakingReaders, LockTypeOK, WaitsToWrite, WaitsToRead, At
  <2>2. LockTypeOK'
    BY <1>1, <1>4 DEF WriteUnlock, OutWakingReaders, LockTypeOK
  <2>3. CountersCount'
    BY <1>1, <1>2, <2>1 DEF WriteUnlock, CountersCount
  <2>4. At("writeAsleep") = {}
    BY <1>4, CountersTell DEF WaitsToWrite, At
  <2>5. Exclusion' /\ NoWakeUpIsLost'
    BY <2>1, <2>4 DEF Exclusion, NoWakeUpIsLost
  <2>6. QED
    BY <2>2, <2>3, <2>5 DEF LockInv
<1>5. CASE writer = 0 /\ reader = 0 /\ Out(t)
  <2>1. /\ WaitsToWrite' = WaitsToWrite /\ WaitsToRead' = WaitsToRead
        /\ At("reads")' = {} /\ At("writes")' = {}
        /\ At("readAsleep")' = At("readAsleep") /\ At("writeAsleep")' = At("writeAsleep")
    BY <1>1, <1>2, <1>5 DEF Out, LockTypeOK, WaitsToWrite, WaitsToRead, At
  <2>2. LockTypeOK'
    BY <1>1, <1>5 DEF WriteUnlock, Out, LockTypeOK
  <2>3. CountersCount'
    BY <1>1, <1>2, <2>1 DEF WriteUnlock, CountersCount
  <2>4. At("writeAsleep") = {} /\ At("readAsleep") = {}
    BY <1>5, CountersTell DEF WaitsToWrite, WaitsToRead, At
  <2>5. Exclusion' /\ NoWakeUpIsLost'
    BY <2>1, <2>4 DEF Exclusion, NoWakeUpIsLost
  <2>6. QED
    BY <2>2, <2>3, <2>5 DEF LockInv
<1>6. QED
  BY <1>3, <1>4, <1>5 DEF WriteUnlock

LEMMA ReadUnlockPreservesInv ==
  ASSUME LockInv, NEW t \in Threads, ReadUnlock(t)
  PROVE  LockInv'
<1>1. LockTypeOK /\ at[t] = "reads" /\ CountersCount /\ Exclusion /\ NoWakeUpIsLost
  BY DEF LockInv, ReadUnlock
<1>2. t \in At("reads") /\ At("reads") \in SUBSET Threads /\ At("writes") = {}
  BY <1>1 DEF Exclusion, At
<1>3. reading \in Nat /\ reading > 0 /\ writer \in Nat
  BY <1>2, CountersTell
<1>4. reading' = Cardinality(At("reads") \ {t})
  BY <1>1, <1>2, LoseOne DEF ReadUnlock, CountersCount
<1>5. CASE writer > 0 /\ reading' = 0
  <2>1. OutWakingWriter(t)
    BY <1>5 DEF ReadUnlock
  <2>2. /\ WaitsToWrite' = WaitsToWrite /\ WaitsToRead' = WaitsToRead
        /\ At("reads")' = At("reads") \ {t} /\ At("writes")' = {}
        /\ At("readAsleep")' = At("readAsleep")
        /\ At("writeAsleep") # {} => At("writeAwake")' # {}
        /\ At("writeAsleep") = {} => At("writeAsleep")' = {}
    BY <1>1, <1>2, <2>1, OutWakingWriterMoves
  <2>3. LockTypeOK'
    BY <1>1, <1>3, <2>1, OutWakingWriterMoves DEF ReadUnlock, LockTypeOK
  <2>4. CountersCount'
    BY <1>1, <1>2, <1>4, <2>2 DEF ReadUnlock, CountersCount
  <2>5. Exclusion' /\ NoWakeUpIsLost'
    BY <1>1, <1>2, <2>2 DEF Exclusion, NoWakeUpIsLost
  <2>6. QED
    BY <2>3, <2>4, <2>5 DEF LockInv
<1>6. CASE ~(writer > 0 /\ reading' = 0)
  <2>1. Out(t)
    BY <1>6 DEF ReadUnlock
  <2>2. /\ WaitsToWrite' = WaitsToWrite /\ WaitsToRead' = WaitsToRead
        /\ At("reads")' = At("reads") \ {t} /\ At("writes")' = {}
        /\ At("readAsleep")' = At("readAsleep") /\ At("writeAsleep")' = At("writeAsleep")
    BY <1>1, <1>2, <2>1 DEF Out, LockTypeOK, WaitsToWrite, WaitsToRead, At
  <2>3. LockTypeOK'
    BY <1>1, <1>3, <2>1 DEF ReadUnlock, Out, LockTypeOK
  <2>4. CountersCount'
    BY <1>1, <1>2, <1>4, <2>2 DEF ReadUnlock, CountersCount
  <2>5. At("writeAsleep") = {} \/ At("reads") \ {t} # {}
    <3>1. CASE writer = 0
      BY <3>1, CountersTell DEF WaitsToWrite, At
    <3>2. CASE writer > 0
      BY <1>4, <1>6, <3>2, FS_EmptySet
    <3>3. QED
      BY <1>3, <3>1, <3>2
  <2>6. Exclusion' /\ NoWakeUpIsLost'
    BY <1>1, <1>2, <2>2, <2>5 DEF Exclusion, NoWakeUpIsLost
  <2>7. QED
    BY <2>3, <2>4, <2>6 DEF LockInv
<1>7. QED
  BY <1>5, <1>6

LEMMA WakesByItselfPreservesInv ==
  ASSUME LockInv, NEW t \in Threads, WakesByItself(t)
  PROVE  LockInv'
<1>1. LockTypeOK /\ CountersCount /\ Exclusion /\ NoWakeUpIsLost
  BY DEF LockInv
<1>2. /\ WaitsToWrite' = WaitsToWrite /\ WaitsToRead' = WaitsToRead
      /\ At("reads")' = At("reads") /\ At("writes")' = At("writes")
      /\ At("writeAwake") \subseteq At("writeAwake")'
      /\ At("writeAsleep")' \subseteq At("writeAsleep")
      /\ At("readAsleep")' \subseteq At("readAsleep")
  BY <1>1 DEF WakesByItself, LockTypeOK, WaitsToWrite, WaitsToRead, At
<1>3. LockTypeOK' /\ CountersCount'
  BY <1>1, <1>2 DEF WakesByItself, LockTypeOK, CountersCount
<1>4. Exclusion' /\ NoWakeUpIsLost'
  BY <1>1, <1>2 DEF Exclusion, NoWakeUpIsLost
<1>5. QED
  BY <1>3, <1>4 DEF LockInv
-----------------------------------------------------------------------------
LEMMA LockNextPreservesInv == LockInv /\ [LockNext]_lockVars => LockInv'
<1>1. SUFFICES ASSUME LockInv, [LockNext]_lockVars PROVE LockInv'
  OBVIOUS
<1>2. CASE UNCHANGED lockVars
  BY <1>1, <1>2
  DEF lockVars, LockInv, LockTypeOK, CountersCount, Exclusion, NoWakeUpIsLost, WaitsToWrite,
      WaitsToRead, At
<1>3. CASE LockNext
  BY <1>1, <1>3, WriteLockPreservesInv, WriteLockAgainPreservesInv, ReadLockPreservesInv,
     ReadLockAgainPreservesInv, WriteUnlockPreservesInv, ReadUnlockPreservesInv,
     WakesByItselfPreservesInv
  DEF LockNext, Continues
<1>4. QED
  BY <1>1, <1>2, <1>3

LEMMA LockInvAlways == LockSpec => []LockInv
  BY LockInitEstablishesInv, LockNextPreservesInv, PTL DEF LockSpec

\* The counters of the lock agree with what the threads do, whoever waits, is
\* woken or comes in between.
THEOREM CountersAreRight == LockSpec => []CountersCount
  BY LockInvAlways, PTL DEF LockInv

\* writeLock and readLock keep writers alone.
THEOREM WritersAreAlone == LockSpec => []Exclusion
  BY LockInvAlways, PTL DEF LockInv

\* writeUnlock and readUnlock wake enough threads: nobody sleeps at a lock that
\* is free with no writer on the way to it.
THEOREM WakeUpsSuffice == LockSpec => []NoWakeUpIsLost
  BY LockInvAlways, PTL DEF LockInv

-----------------------------------------------------------------------------
(***************************************************************************)
(* The message queue, its looper and its handlers.                         *)
(***************************************************************************)

\* The list is in the order of the due times.
Sorted == \A i, j \in 1..Len(messages) : i < j => messages[i].when <= messages[j].when

\* No message, in the list or on its way, is due later than its delay from now.
DueInTime ==
  /\ \A i \in 1..Len(messages) : messages[i].when <= now + messages[i].delay
  /\ \A s \in Senders : post[s] # NoPost => post[s].when <= now + post[s].delay

\* The message on its way comes after those of its sender in the list: in
\* number, and in due time if they were posted with the same delay.
PostIsLast ==
  /\ \A i \in 1..Len(messages) : messages[i].n <= sent[messages[i].from]
  /\ \A s \in Senders : post[s] # NoPost => post[s].n = sent[s]
  /\ \A i \in 1..Len(messages) :
       LET p == post[messages[i].from]
       IN  p # NoPost => /\ messages[i].n < p.n
                         /\ messages[i].delay = p.delay => messages[i].when <= p.when

\* What was handled was posted before the message on its way.
HandledBefore ==
  \A s \in Senders, d \in Delays :
    /\ handled[<<s, d>>] <= sent[s]
    /\ post[s] # NoPost => handled[<<s, d>>] < post[s].n

OrderInv == TypeOK /\ Sorted /\ DueInTime /\ PostIsLast /\ HandledBefore /\ QueueKeepsSendOrder

\* quit leaves only what is due, and the thread ends on an empty list.
EndInv ==
  /\ TypeOK
  /\ quitting => \A i \in 1..Len(messages) : Due(messages[i])
  /\ looper = "ended" => quitting /\ messages = <<>>
-----------------------------------------------------------------------------
LEMMA MessageFields ==
  ASSUME NEW m \in Message
  PROVE  m.from \in Senders /\ m.n \in Nat /\ m.delay \in Delays /\ m.delay \in Nat /\ m.when \in Nat
<1>1. m.from \in Senders /\ m.n \in 1..MaxPosts /\ m.delay \in Delays /\ m.when \in 0..MaxTime
  BY DEF Message
<1>2. m.delay \in Nat
  BY <1>1, QueueAssumption
<1>3. m.n \in Nat /\ m.when \in Nat
  BY <1>1
<1>4. QED
  BY <1>1, <1>2, <1>3

\* What Insert returns, for a message in a place of the list.
LEMMA InsertIsASequence ==
  ASSUME messages \in Seq(Message), NEW m \in Message, NEW i \in 1 .. Len(messages) + 1,
         messages' = Insert(i, m)
  PROVE  /\ messages' \in Seq(Message)
         /\ Len(messages') = Len(messages) + 1
         /\ \A j \in 1..Len(messages') :
              messages'[j] = IF j < i THEN messages[j] ELSE IF j = i THEN m ELSE messages[j - 1]
<1> DEFINE e(j) == IF j < i THEN messages[j] ELSE IF j = i THEN m ELSE messages[j - 1]
           n == Len(messages) + 1
<1>1. n \in Nat /\ Len(messages) \in Nat
  BY LenProperties
<1>2. messages' = [j \in 1..n |-> e(j)]
  BY DEF Insert
<1>3. \A j \in 1..n : e(j) \in Message
  <2>1. ASSUME NEW j \in 1..n PROVE e(j) \in Message
    <3>1. CASE j < i
      BY <3>1, <1>1, ElementOfSeq
    <3>2. CASE j = i
      BY <3>2
    <3>3. CASE j > i
      <4>1. j - 1 \in 1..Len(messages)
        BY <3>3, <1>1
      <4>2. messages[j - 1] \in Message
        BY <4>1, ElementOfSeq
      <4>3. QED
        BY <4>2, <3>3
    <3>4. QED
      BY <3>1, <3>2, <3>3, <1>1
  <2>2. QED
    BY <2>1
<1> HIDE DEF e, n
<1>4. messages' \in [1..n -> Message]
  BY <1>2, <1>3
<1>5. messages' \in Seq(Message) /\ Len(messages') = n
  BY <1>1, <1>4
<1>6. \A j \in 1..n : messages'[j] = e(j)
  BY <1>2
<1>7. QED
  BY <1>5, <1>6 DEF e, n
-----------------------------------------------------------------------------
LEMMA InitEstablishesOrder == Init => OrderInv
<1>1. SUFFICES ASSUME Init PROVE OrderInv
  OBVIOUS
<1>2. messages = <<>> /\ Len(messages) = 0 /\ messages \in Seq(Message)
  BY <1>1 DEF Init
<1>3. TypeOK
  <2>1. post \in [Senders -> Message \cup {NoPost}]
    BY <1>1 DEF Init
  <2>2. \A s \in Senders : post[s] = NoPost
    BY <1>1 DEF Init
  <2>3. sent \in [Senders -> 0..MaxPosts] /\ handled \in [Senders \X Delays -> 0..MaxPosts]
    BY <1>1, QueueAssumption DEF Init
  <2>4. now \in 0..MaxTime /\ timer \in -1..MaxTime
    BY <1>1, QueueAssumption DEF Init
  <2>5. QED
    BY <1>1, <1>2, <2>1, <2>2, <2>3, <2>4 DEF Init, TypeOK
<1>4. Sorted /\ DueInTime /\ PostIsLast /\ QueueKeepsSendOrder
  BY <1>1, <1>2 DEF Init, Sorted, DueInTime, PostIsLast, QueueKeepsSendOrder
<1>5. HandledBefore
  BY <1>1 DEF Init, HandledBefore
<1>6. QED
  BY <1>3, <1>4, <1>5 DEF OrderInv

LEMMA TypesArePreserved == TypeOK /\ [Next]_queueVars => TypeOK'
<1>1. SUFFICES ASSUME TypeOK, [Next]_queueVars PROVE TypeOK'
  OBVIOUS
<1> USE DEF TypeOK
<1>2. Len(messages) \in Nat
  BY <1>1, LenProperties
<1>3. messages # <<>> => Head(messages) \in Message /\ Tail(messages) \in Seq(Message)
  BY <1>1, HeadTailProperties
<1>4. CASE Tick
  BY <1>1, <1>4, QueueAssumption DEF Tick, looperVars, senderVars
<1>5. ASSUME NEW s \in Senders, NEW d \in Delays, Stamp(s, d) PROVE TypeOK'
  <2>1. sent[s] + 1 \in 1..MaxPosts /\ now + d \in 0..MaxTime
    BY <1>1, <1>5, QueueAssumption DEF Stamp
  <2>2. [from |-> s, n |-> sent[s] + 1, delay |-> d, when |-> now + d] \in Message
    BY <2>1 DEF Message
  <2>3. QED
    BY <1>1, <1>5, <2>1, <2>2, QueueAssumption DEF Stamp, looperVars
<1>6. ASSUME NEW s \in Senders, Enqueue(s) PROVE TypeOK'
  <2>1. post[s] \in Message
    BY <1>1, <1>6 DEF Enqueue
  <2>2. messages' \in Seq(Message)
    <3>1. CASE UNCHANGED messages
      BY <3>1, <1>1
    <3>2. ASSUME NEW i \in 1 .. Len(messages) + 1, messages' = Insert(i, post[s])
          PROVE  messages' \in Seq(Message)
      BY <1>1, <2>1, <3>2, InsertIsASequence
    <3>3. QED
      BY <3>1, <3>2, <1>6 DEF Enqueue
  <2>3. looper' \in {"checks", "polls", "sleeps", "handles", "ended"} /\ timer' \in -1..MaxTime
    BY <1>1, <1>6, QueueAssumption DEF Enqueue, NativeWake, looperVars
  <2>4. QED
    BY <1>1, <1>6, <2>2, <2>3 DEF Enqueue
<1>7. CASE Deliver
  <2>1. Head(messages) \in Message /\ Tail(messages) \in Seq(Message)
    BY <1>3, <1>7 DEF Deliver
  <2>2. handled' \in [Senders \X Delays -> 0..MaxPosts]
    BY <1>1, <1>7, <2>1, QueueAssumption DEF Deliver, Message
  <2>3. QED
    BY <1>1, <1>7, <2>1, <2>2 DEF Deliver, senderVars
<1>8. CASE End
  BY <1>1, <1>8 DEF End, senderVars
<1>9. CASE DecideToSleep
  <2>1. messages # <<>> => Head(messages).when - now \in 1..MaxTime
    BY <1>1, <1>3, <1>9, QueueAssumption DEF DecideToSleep, NothingDue, Due, Message
  <2>2. QED
    BY <1>1, <1>9, <2>1, QueueAssumption DEF DecideToSleep, senderVars
<1>10. CASE Sleep
  BY <1>1, <1>10, QueueAssumption DEF Sleep, EndOfSleep, senderVars
<1>11. CASE Handled
  BY <1>1, <1>11 DEF Handled, senderVars
<1>12. CASE WakeUp
  BY <1>1, <1>12, QueueAssumption DEF WakeUp, senderVars
<1>13. ASSUME NEW safe \in BOOLEAN, Quit(safe) PROVE TypeOK'
  <2>1. messages' \in Seq(Message)
    <3>1. CASE messages' = <<>>
      BY <3>1
    <3>2. ASSUME NEW k \in 0..Len(messages), messages' = SubSeq(messages, 1, k)
          PROVE  messages' \in Seq(Message)
      <4>1. \A i \in 1..k : messages[i] \in Message
        BY <1>1, <1>2, ElementOfSeq
      <4>2. QED
        BY <3>2, <4>1, <1>2, SubSeqProperties
    <3>3. QED
      BY <1>13, <3>1, <3>2 DEF Quit
  <2>2. looper' \in {"checks", "polls", "sleeps", "handles", "ended"} /\ timer' \in -1..MaxTime
    BY <1>1, <1>13, QueueAssumption DEF Quit, NativeWake, looperVars
  <2>3. QED
    BY <1>1, <1>13, <2>1, <2>2 DEF Quit, senderVars
<1>14. CASE UNCHANGED queueVars
  BY <1>1, <1>14 DEF queueVars, looperVars, senderVars
<1>15. QED
  BY <1>1, <1>4, <1>5, <1>6, <1>7, <1>8, <1>9, <1>10, <1>11, <1>12, <1>13, <1>14 DEF Next, Looper

\* A step that changes nothing the order is about.
LEMMA SameListKeepsOrder ==
  ASSUME OrderInv, TypeOK', UNCHANGED <<now, messages, post, sent, handled>>
  PROVE  OrderInv'
<1>1. Sorted' /\ DueInTime'
  BY DEF OrderInv, Sorted, DueInTime
<1>2. PostIsLast' /\ HandledBefore' /\ QueueKeepsSendOrder'
  BY DEF OrderInv, PostIsLast, HandledBefore, QueueKeepsSendOrder, SameSource
<1>3. QED
  BY <1>1, <1>2 DEF OrderInv

LEMMA TickKeepsOrder == OrderInv /\ TypeOK' /\ Tick => OrderInv'
<1>1. SUFFICES ASSUME OrderInv, TypeOK', Tick PROVE OrderInv'
  OBVIOUS
<1>2. /\ now' = now + 1 /\ now \in Int /\ Len(messages) \in Nat
      /\ UNCHANGED <<messages, post, sent, handled>>
  BY <1>1, LenProperties DEF OrderInv, TypeOK, Tick, senderVars
<1>3. DueInTime'
  <2>1. ASSUME NEW i \in 1..Len(messages) PROVE messages[i].when <= now' + messages[i].delay
    <3>1. messages[i] \in Message
      BY <1>1, ElementOfSeq DEF OrderInv, TypeOK
    <3>2. messages[i].when \in Int /\ messages[i].delay \in Int
      BY <3>1, MessageFields
    <3>3. messages[i].when <= now + messages[i].delay
      BY <1>1 DEF OrderInv, DueInTime
    <3>4. QED
      BY <1>2, <3>2, <3>3
  <2>2. ASSUME NEW s \in Senders, post[s] # NoPost PROVE post[s].when <= now' + post[s].delay
    <3>1. post[s] \in Message
      BY <1>1, <2>2 DEF OrderInv, TypeOK
    <3>2. post[s].when \in Int /\ post[s].delay \in Int
      BY <3>1, MessageFields
    <3>3. post[s].when <= now + post[s].delay
      BY <1>1, <2>2 DEF OrderInv, DueInTime
    <3>4. QED
      BY <1>2, <3>2, <3>3
  <2>3. QED
    BY <1>2, <2>1, <2>2 DEF DueInTime
<1>4. Sorted' /\ PostIsLast' /\ HandledBefore' /\ QueueKeepsSendOrder'
  BY <1>1, <1>2 DEF OrderInv, Sorted, PostIsLast, HandledBefore, QueueKeepsSendOrder, SameSource
<1>5. QED
  BY <1>1, <1>3, <1>4 DEF OrderInv

LEMMA StampKeepsOrder ==
  ASSUME OrderInv, TypeOK', NEW s \in Senders, NEW d \in Delays, Stamp(s, d)
  PROVE  OrderInv'
<1> DEFINE p == [from |-> s, n |-> sent[s] + 1, delay |-> d, when |-> now + d]
<1>1. /\ UNCHANGED <<now, messages, handled>>
      /\ \A u \in Senders : post'[u] = IF u = s THEN p ELSE post[u]
      /\ \A u \in Senders : sent'[u] = IF u = s THEN sent[s] + 1 ELSE sent[u]
  BY DEF OrderInv, TypeOK, Stamp
<1>2. Len(messages) \in Nat /\ \A u \in Senders : sent[u] \in Nat
  BY LenProperties DEF OrderInv, TypeOK
<1>3. \A i \in 1..Len(messages) : messages[i] \in Message
  BY ElementOfSeq DEF OrderInv, TypeOK
<1>4. Sorted' /\ QueueKeepsSendOrder'
  BY <1>1 DEF OrderInv, Sorted, QueueKeepsSendOrder, SameSource
<1>5. DueInTime'
  <2>1. p.when <= now + p.delay
    BY QueueAssumption DEF OrderInv, TypeOK
  <2>2. QED
    BY <1>1, <2>1 DEF OrderInv, DueInTime
<1>6. PostIsLast'
  <2>1. \A i \in 1..Len(messages) : messages[i].n <= sent'[messages[i].from]
    <3>1. ASSUME NEW i \in 1..Len(messages) PROVE messages[i].n <= sent'[messages[i].from]
      <4>1. messages[i].from \in Senders /\ messages[i].n \in Nat
        BY <1>3 DEF Message
      <4>2. messages[i].n <= sent[messages[i].from]
        BY DEF OrderInv, PostIsLast
      <4>3. QED
        BY <1>1, <1>2, <4>1, <4>2
    <3>2. QED
      BY <3>1
  <2>2. \A u \in Senders : post'[u] # NoPost => post'[u].n = sent'[u]
    BY <1>1 DEF OrderInv, PostIsLast
  <2>3. ASSUME NEW i \in 1..Len(messages), post'[messages[i].from] # NoPost
        PROVE  /\ messages[i].n < post'[messages[i].from].n
               /\ messages[i].delay = post'[messages[i].from].delay
                    => messages[i].when <= post'[messages[i].from].when
    <3>1. messages[i].from \in Senders /\ messages[i].n \in Nat
      BY <1>3 DEF Message
    <3>2. CASE messages[i].from = s
      <4>1. messages[i].n <= sent[s] /\ messages[i].when <= now + messages[i].delay
        BY <3>2 DEF OrderInv, PostIsLast, DueInTime
      <4>2. post'[messages[i].from] = p
        BY <1>1, <3>2
      <4>3. messages[i].n < p.n /\ (messages[i].delay = p.delay => messages[i].when <= p.when)
        BY <1>2, <3>1, <4>1
      <4>4. QED
        BY <4>2, <4>3
    <3>3. CASE messages[i].from # s
      BY <1>1, <2>3, <3>1, <3>3 DEF OrderInv, PostIsLast
    <3>4. QED
      BY <3>2, <3>3
  <2>4. QED
    BY <1>1, <2>1, <2>2, <2>3 DEF PostIsLast
<1>7. HandledBefore'
  <2>1. ASSUME NEW u \in Senders, NEW c \in Delays
        PROVE  /\ handled[<<u, c>>] <= sent'[u]
               /\ post'[u] # NoPost => handled[<<u, c>>] < post'[u].n
    <3>1. handled[<<u, c>>] <= sent[u] /\ handled[<<u, c>>] \in Nat
      BY QueueAssumption DEF OrderInv, HandledBefore, TypeOK
    <3>2. CASE u = s
      BY <1>1, <1>2, <3>1, <3>2
    <3>3. CASE u # s
      BY <1>1, <3>1, <3>3 DEF OrderInv, HandledBefore
    <3>4. QED
      BY <3>2, <3>3
  <2>2. QED
    BY <1>1, <2>1 DEF HandledBefore
<1>8. QED
  BY <1>4, <1>5, <1>6, <1>7 DEF OrderInv

LEMMA EnqueueKeepsOrder ==
  ASSUME OrderInv, TypeOK', NEW s \in Senders, Enqueue(s)
  PROVE  OrderInv'
<1> DEFINE p == post[s]
<1>1. /\ UNCHANGED <<now, sent, handled>> /\ p # NoPost
      /\ \A u \in Senders : post'[u] = IF u = s THEN NoPost ELSE post[u]
  BY DEF OrderInv, TypeOK, Enqueue
<1>2. /\ Len(messages) \in Nat /\ messages \in Seq(Message)
      /\ \A i \in 1..Len(messages) : messages[i] \in Message
  BY LenProperties, ElementOfSeq DEF OrderInv, TypeOK
<1>3. p \in Message /\ p.from = s
  BY <1>1 DEF OrderInv, TypeOK
<1>4. HandledBefore'
  BY <1>1 DEF OrderInv, HandledBefore
<1>5. CASE UNCHANGED messages
  <2>1. Sorted' /\ DueInTime' /\ QueueKeepsSendOrder'
    BY <1>1, <1>5 DEF OrderInv, Sorted, DueInTime, QueueKeepsSendOrder, SameSource
  <2>2. PostIsLast'
    <3>1. \A i \in 1..Len(messages) : messages[i].from \in Senders
      BY <1>2, MessageFields
    <3>2. QED
      BY <1>1, <1>5, <3>1 DEF OrderInv, PostIsLast
  <2>3. QED
    BY <1>4, <2>1, <2>2 DEF OrderInv
<1>6. ASSUME NEW i \in 1 .. Len(messages) + 1, IsPlace(i, p), messages' = Insert(i, p)
      PROVE  OrderInv'
  <2> DEFINE old(j) == IF j < i THEN j ELSE j - 1
  <2>1. /\ messages' \in Seq(Message) /\ Len(messages') = Len(messages) + 1
        /\ \A j \in 1..Len(messages') :
             messages'[j] = IF j < i THEN messages[j] ELSE IF j = i THEN p ELSE messages[j - 1]
    BY <1>2, <1>3, <1>6, InsertIsASequence
  <2>2. \A j \in 1..Len(messages') :
          \/ j = i /\ messages'[j] = p
          \/ j # i /\ old(j) \in 1..Len(messages) /\ messages'[j] = messages[old(j)]
    BY <1>2, <2>1
  <2>3. \A j \in 1..Len(messages) :
          /\ j < i => messages[j].when <= p.when
          /\ i <= j => p.when < messages[j].when
    <3>1. ASSUME NEW j \in 1..Len(messages), j < i PROVE messages[j].when <= p.when
      BY <1>2, <1>6, <3>1 DEF IsPlace
    <3>2. ASSUME NEW j \in 1..Len(messages), i <= j PROVE p.when < messages[j].when
      <4>1. i \in 1..Len(messages) /\ p.when < messages[i].when
        BY <1>2, <1>6, <3>2 DEF IsPlace
      <4>2. i = j \/ messages[i].when <= messages[j].when
        BY <1>2, <3>2, <4>1 DEF OrderInv, Sorted
      <4>3. messages[i].when \in Nat /\ messages[j].when \in Nat /\ p.when \in Nat
        BY <1>2, <1>3, <4>1, MessageFields
      <4>4. QED
        BY <4>1, <4>2, <4>3
    <3>3. QED
      BY <3>1, <3>2
  <2>4. \A j \in 1..Len(messages) :
          messages[j].from = s => /\ messages[j].n < p.n
                                  /\ messages[j].delay = p.delay => j < i
    <3>1. ASSUME NEW j \in 1..Len(messages), messages[j].from = s
          PROVE  messages[j].n < p.n /\ (messages[j].delay = p.delay => messages[j].when <= p.when)
      BY <1>1, <3>1 DEF OrderInv, PostIsLast
    <3>2. ASSUME NEW j \in 1..Len(messages), messages[j].from = s, messages[j].delay = p.delay
          PROVE  j < i
      <4>1. messages[j].when <= p.when
        BY <3>1, <3>2
      <4>2. messages[j].when \in Nat /\ p.when \in Nat
        BY <1>2, <1>3, MessageFields
      <4>3. ~(i <= j)
        BY <1>2, <2>3, <4>1, <4>2
      <4>4. QED
        BY <1>2, <4>3
    <3>3. QED
      BY <3>1, <3>2
  <2>5. Sorted'
    <3>1. ASSUME NEW j \in 1..Len(messages'), NEW k \in 1..Len(messages'), j < k
          PROVE  messages'[j].when <= messages'[k].when
      <4>1. CASE j = i
        <5>1. k # i /\ old(k) \in 1..Len(messages) /\ messages'[k] = messages[old(k)] /\ i <= old(k)
          BY <1>2, <2>1, <2>2, <3>1, <4>1
        <5>2. p.when < messages[old(k)].when
          BY <1>2, <2>3, <5>1
        <5>3. p.when \in Nat /\ messages[old(k)].when \in Nat
          BY <1>2, <1>3, <5>1, MessageFields
        <5>4. messages'[j] = p
          BY <2>2, <4>1
        <5>5. QED
          BY <5>1, <5>2, <5>3, <5>4
      <4>2. CASE k = i
        <5>1. j \in 1..Len(messages) /\ messages'[j] = messages[j] /\ messages'[k] = p /\ j < i
          BY <1>2, <2>1, <3>1, <4>2
        <5>2. QED
          BY <1>2, <2>3, <5>1
      <4>3. CASE j # i /\ k # i
        <5>1. old(j) < old(k)
          BY <1>2, <2>1, <3>1, <4>3
        <5>2. QED
          BY <2>2, <4>3, <5>1 DEF OrderInv, Sorted
      <4>4. QED
        BY <4>1, <4>2, <4>3
    <3>2. QED
      BY <3>1 DEF Sorted
  <2>6. DueInTime'
    BY <1>1, <2>2 DEF OrderInv, DueInTime
  <2>7. PostIsLast'
    <3>1. \A j \in 1..Len(messages') : messages'[j].n <= sent'[messages'[j].from]
      <4>1. p.n <= sent[p.from]
        <5>1. p.n = sent[p.from] /\ p.n \in Nat
          BY <1>1, <1>3, MessageFields DEF OrderInv, PostIsLast
        <5>2. QED
          BY <5>1
      <4>2. QED
        BY <1>1, <2>2, <4>1 DEF OrderInv, PostIsLast
    <3>2. \A u \in Senders : post'[u] # NoPost => post'[u].n = sent'[u]
      BY <1>1 DEF OrderInv, PostIsLast
    <3>3. ASSUME NEW j \in 1..Len(messages'), post'[messages'[j].from] # NoPost
          PROVE  /\ messages'[j].n < post'[messages'[j].from].n
                 /\ messages'[j].delay = post'[messages'[j].from].delay
                      => messages'[j].when <= post'[messages'[j].from].when
      <4>1. messages'[j].from \in Senders
        BY <2>1, ElementOfSeq, MessageFields
      <4>2. messages'[j].from # s
        BY <1>1, <3>3, <4>1
      <4>3. j # i
        BY <1>3, <2>2, <4>2
      <4>4. QED
        <5>1. old(j) \in 1..Len(messages) /\ messages'[j] = messages[old(j)]
          BY <2>2, <4>3
        <5>2. post'[messages'[j].from] = post[messages[old(j)].from]
          BY <1>1, <4>1, <4>2, <5>1
        <5>3. QED
          BY <3>3, <5>1, <5>2 DEF OrderInv, PostIsLast
    <3>4. QED
      BY <3>1, <3>2, <3>3 DEF PostIsLast
  <2>8. QueueKeepsSendOrder'
    <3>1. ASSUME NEW j \in 1..Len(messages'), NEW k \in 1..Len(messages'), j < k,
                 SameSource(messages'[j], messages'[k])
          PROVE  messages'[j].n < messages'[k].n
      <4>1. CASE j = i
        <5>1. k # i /\ old(k) \in 1..Len(messages) /\ messages'[k] = messages[old(k)] /\ i <= old(k)
          BY <1>2, <2>1, <2>2, <3>1, <4>1
        <5>2. messages[old(k)].from = s /\ messages[old(k)].delay = p.delay
          BY <1>3, <2>2, <3>1, <4>1, <5>1 DEF SameSource
        <5>3. QED
          BY <2>4, <5>1, <5>2
      <4>2. CASE k = i
        <5>1. j # i /\ old(j) \in 1..Len(messages) /\ messages'[j] = messages[old(j)]
          BY <2>2, <3>1, <4>2
        <5>2. messages[old(j)].from = s
          BY <1>3, <2>2, <3>1, <4>2, <5>1 DEF SameSource
        <5>3. QED
          BY <2>2, <2>4, <4>2, <5>1, <5>2
      <4>3. CASE j # i /\ k # i
        <5>1. old(j) < old(k)
          BY <1>2, <2>1, <3>1, <4>3
        <5>2. QED
          BY <2>2, <3>1, <4>3, <5>1 DEF OrderInv, QueueKeepsSendOrder, SameSource
      <4>4. QED
        BY <4>1, <4>2, <4>3
    <3>2. \A j \in 1..Len(messages') :
            handled'[<<messages'[j].from, messages'[j].delay>>] < messages'[j].n
      <4>1. handled[<<p.from, p.delay>>] < p.n
        <5>1. p.delay \in Delays
          BY <1>3, MessageFields
        <5>2. QED
          BY <1>1, <1>3, <5>1 DEF OrderInv, HandledBefore
      <4>2. QED
        BY <1>1, <2>2, <4>1 DEF OrderInv, QueueKeepsSendOrder
    <3>3. QED
      BY <3>1, <3>2 DEF QueueKeepsSendOrder, SameSource
  <2>9. QED
    BY <1>4, <2>5, <2>6, <2>7, <2>8 DEF OrderInv
<1>7. QED
  BY <1>5, <1>6 DEF Enqueue

\* A step after which the list is a part of what it was, moved up by c.
LEMMA PartKeepsOrder ==
  ASSUME OrderInv, TypeOK', UNCHANGED <<now, post, sent>>, HandledBefore',
         NEW c \in {0, 1},
         \A i \in 1..Len(messages') : i + c \in 1..Len(messages) /\ messages'[i] = messages[i + c],
         \A i \in 1..Len(messages') :
           handled'[<<messages'[i].from, messages'[i].delay>>] < messages'[i].n
  PROVE  OrderInv'
<1>1. Len(messages') \in Nat
  BY LenProperties DEF TypeOK
<1>2. Sorted'
  <2>1. ASSUME NEW i \in 1..Len(messages'), NEW j \in 1..Len(messages'), i < j
        PROVE  messages'[i].when <= messages'[j].when
    <3>1. /\ i + c \in 1..Len(messages) /\ messages'[i] = messages[i + c]
          /\ j + c \in 1..Len(messages) /\ messages'[j] = messages[j + c]
      OBVIOUS
    <3>2. i + c < j + c
      BY <1>1, <2>1
    <3>3. messages[i + c].when <= messages[j + c].when
      BY <3>1, <3>2 DEF OrderInv, Sorted
    <3>4. QED
      BY <3>1, <3>3
  <2>2. QED
    BY <2>1 DEF Sorted
<1>3. DueInTime' /\ PostIsLast'
  BY DEF OrderInv, DueInTime, PostIsLast
<1>4. QueueKeepsSendOrder'
  <2>1. ASSUME NEW i \in 1..Len(messages'), NEW j \in 1..Len(messages'), i < j,
               SameSource(messages'[i], messages'[j])
        PROVE  messages'[i].n < messages'[j].n
    <3>1. /\ i + c \in 1..Len(messages) /\ messages'[i] = messages[i + c]
          /\ j + c \in 1..Len(messages) /\ messages'[j] = messages[j + c] /\ i + c < j + c
      BY <1>1, <2>1
    <3>2. QED
      BY <2>1, <3>1 DEF OrderInv, QueueKeepsSendOrder
  <2>2. QED
    BY <2>1 DEF QueueKeepsSendOrder, SameSource
<1>5. QED
  BY <1>2, <1>3, <1>4 DEF OrderInv

LEMMA DeliverKeepsOrder == OrderInv /\ TypeOK' /\ Deliver => OrderInv'
<1>1. SUFFICES ASSUME OrderInv, TypeOK', Deliver PROVE OrderInv'
  OBVIOUS
<1> DEFINE h == messages[1]
<1>2. /\ UNCHANGED <<now, post, sent>>
      /\ messages \in Seq(Message) /\ Len(messages) \in Nat \ {0} /\ Head(messages) = h
      /\ messages' = Tail(messages) /\ Len(messages') = Len(messages) - 1
      /\ \A i \in 1..Len(messages') : messages'[i] = messages[i + 1]
  BY <1>1, EmptySeq, HeadTailProperties DEF OrderInv, TypeOK, Deliver, senderVars
<1>3. h \in Message
  BY <1>2, ElementOfSeq
<1>4. \A s \in Senders, d \in Delays :
        handled'[<<s, d>>] = IF s = h.from /\ d = h.delay THEN h.n ELSE handled[<<s, d>>]
  BY <1>1, <1>2 DEF Deliver, OrderInv, TypeOK
<1>5. \A i \in 1..Len(messages') : i + 1 \in 1..Len(messages) /\ messages'[i] = messages[i + 1]
  BY <1>2
<1>6. HandledBefore'
  <2>1. h.n <= sent[h.from] /\ (post[h.from] # NoPost => h.n < post[h.from].n)
    BY <1>1, <1>2 DEF OrderInv, PostIsLast
  <2>2. QED
    BY <1>1, <1>2, <1>4, <2>1 DEF OrderInv, HandledBefore
<1>7. ASSUME NEW i \in 1..Len(messages')
      PROVE  handled'[<<messages'[i].from, messages'[i].delay>>] < messages'[i].n
  <2> DEFINE m == messages[i + 1]
  <2>1. m \in Message /\ m.from \in Senders /\ m.delay \in Delays
    BY <1>2, <1>5, ElementOfSeq, MessageFields
  <2>2. CASE m.from = h.from /\ m.delay = h.delay
    <3>1. 1 \in 1..Len(messages) /\ i + 1 \in 1..Len(messages) /\ 1 < i + 1
      BY <1>2, <1>5
    <3>2. h.n < m.n
      BY <1>1, <2>2, <3>1 DEF OrderInv, QueueKeepsSendOrder, SameSource
    <3>3. QED
      BY <1>4, <1>5, <2>1, <2>2, <3>2
  <2>3. CASE ~(m.from = h.from /\ m.delay = h.delay)
    BY <1>1, <1>4, <1>5, <2>1, <2>3 DEF OrderInv, QueueKeepsSendOrder
  <2>4. QED
    BY <2>2, <2>3
<1>8. QED
  BY <1>1, <1>2, <1>5, <1>6, <1>7, PartKeepsOrder

LEMMA QuitKeepsOrder ==
  ASSUME OrderInv, TypeOK', NEW safe \in BOOLEAN, Quit(safe)
  PROVE  OrderInv'
<1>1. UNCHANGED <<now, post, sent, handled>> /\ messages \in Seq(Message) /\ Len(messages) \in Nat
  BY LenProperties DEF Quit, senderVars, OrderInv, TypeOK
<1>2. HandledBefore'
  BY <1>1 DEF OrderInv, HandledBefore
<1>3. \A i \in 1..Len(messages') : i + 0 \in 1..Len(messages) /\ messages'[i] = messages[i + 0]
  <2>1. CASE messages' = <<>>
    BY <2>1, EmptySeq
  <2>2. ASSUME NEW k \in 0..Len(messages), messages' = SubSeq(messages, 1, k)
        PROVE  \A i \in 1..Len(messages') : i + 0 \in 1..Len(messages) /\ messages'[i] = messages[i + 0]
    <3>1. \A i \in 1..k : messages[i] \in Message
      BY <1>1, ElementOfSeq
    <3>2. Len(messages') = k /\ \A i \in 1..k : messages'[i] = messages[i]
      BY <1>1, <2>2, <3>1, SubSeqProperties
    <3>3. QED
      BY <1>1, <3>2
  <2>3. QED
    BY <2>1, <2>2 DEF Quit
<1>4. \A i \in 1..Len(messages') :
        handled'[<<messages'[i].from, messages'[i].delay>>] < messages'[i].n
  BY <1>1, <1>3 DEF OrderInv, QueueKeepsSendOrder
<1>5. QED
  BY <1>1, <1>2, <1>3, <1>4, PartKeepsOrder

LEMMA NextKeepsOrder == OrderInv /\ [Next]_queueVars => OrderInv'
<1>1. SUFFICES ASSUME OrderInv, [Next]_queueVars PROVE OrderInv'
  OBVIOUS
<1>2. TypeOK'
  BY <1>1, TypesArePreserved DEF OrderInv
<1>3. CASE Tick
  BY <1>1, <1>2, <1>3, TickKeepsOrder
<1>4. ASSUME NEW s \in Senders, NEW d \in Delays, Stamp(s, d) PROVE OrderInv'
  BY <1>1, <1>2, <1>4, StampKeepsOrder
<1>5. ASSUME NEW s \in Senders, Enqueue(s) PROVE OrderInv'
  BY <1>1, <1>2, <1>5, EnqueueKeepsOrder
<1>6. CASE Deliver
  BY <1>1, <1>2, <1>6, DeliverKeepsOrder
<1>7. CASE End \/ DecideToSleep \/ Sleep \/ Handled \/ WakeUp \/ UNCHANGED queueVars
  <2>1. UNCHANGED <<now, messages, post, sent, handled>>
    BY <1>7 DEF End, DecideToSleep, Sleep, Handled, WakeUp, queueVars, senderVars
  <2>2. QED
    BY <1>1, <1>2, <2>1, SameListKeepsOrder
<1>8. ASSUME NEW safe \in BOOLEAN, Quit(safe) PROVE OrderInv'
  BY <1>1, <1>2, <1>8, QuitKeepsOrder
<1>9. QED
  BY <1>1, <1>3, <1>4, <1>5, <1>6, <1>7, <1>8 DEF Next, Looper

\* However the posts of several threads, the deliveries, the sleeps and a quit
\* interleave, what a thread posts with one delay is handled in its order.
THEOREM SendOrderIsKept == Spec => []QueueKeepsSendOrder
<1>1. Init => OrderInv
  BY InitEstablishesOrder
<1>2. OrderInv /\ [Next]_queueVars => OrderInv'
  BY NextKeepsOrder
<1>3. OrderInv => QueueKeepsSendOrder
  BY DEF OrderInv
<1>4. QED
  BY <1>1, <1>2, <1>3, PTL DEF Spec
-----------------------------------------------------------------------------
LEMMA NextKeepsTheEnd == EndInv /\ [Next]_queueVars => EndInv'
<1>1. SUFFICES ASSUME EndInv, [Next]_queueVars PROVE EndInv'
  OBVIOUS
<1>2. TypeOK'
  BY <1>1, TypesArePreserved DEF EndInv
<1>3. messages \in Seq(Message) /\ Len(messages) \in Nat /\ now \in Nat
  BY <1>1, LenProperties DEF EndInv, TypeOK
<1>4. CASE Tick
  <2>1. UNCHANGED <<messages, quitting, looper>> /\ now' = now + 1
    BY <1>4 DEF Tick, looperVars
  <2>2. ASSUME quitting, NEW i \in 1..Len(messages) PROVE messages[i].when <= now'
    <3>1. messages[i].when <= now
      BY <1>1, <2>2 DEF EndInv, Due
    <3>2. messages[i].when \in Nat
      BY <1>3, ElementOfSeq, MessageFields
    <3>3. QED
      BY <1>3, <2>1, <3>1, <3>2
  <2>3. QED
    BY <1>1, <1>2, <2>1, <2>2 DEF EndInv, Due
<1>5. ASSUME NEW s \in Senders, NEW d \in Delays, Stamp(s, d) PROVE EndInv'
  BY <1>1, <1>2, <1>5 DEF Stamp, EndInv, Due, looperVars
<1>6. ASSUME NEW s \in Senders, Enqueue(s) PROVE EndInv'
  <2>1. CASE quitting
    BY <1>1, <1>2, <1>6, <2>1 DEF Enqueue, EndInv, Due, looperVars
  <2>2. CASE ~quitting
    <3>1. looper # "ended" /\ looper' # "ended" /\ ~quitting'
      BY <1>1, <1>6, <2>2 DEF Enqueue, EndInv, NativeWake, looperVars
    <3>2. QED
      BY <1>2, <3>1 DEF EndInv
  <2>3. QED
    BY <2>1, <2>2
<1>7. CASE Deliver
  <2>1. /\ messages # <<>> /\ messages' = Tail(messages)
        /\ looper' = "handles" /\ UNCHANGED <<now, quitting>>
    BY <1>7 DEF Deliver
  <2>2. Len(messages') = Len(messages) - 1 /\ \A i \in 1..Len(messages') : messages'[i] = messages[i + 1]
    BY <1>3, <2>1, HeadTailProperties
  <2>3. QED
    BY <1>1, <1>2, <1>3, <2>1, <2>2 DEF EndInv, Due
<1>8. CASE End
  <2>1. messages = <<>>
    <3>1. SUFFICES ASSUME messages # <<>> PROVE FALSE
      OBVIOUS
    <3>2. 1 \in 1..Len(messages) /\ Head(messages) = messages[1]
      BY <1>3, <3>1, EmptySeq
    <3>3. Due(messages[1])
      BY <1>1, <1>8, <3>2 DEF End, EndInv
    <3>4. QED
      BY <1>8, <3>1, <3>2, <3>3 DEF End, NothingDue
  <2>2. QED
    BY <1>1, <1>2, <1>8, <2>1 DEF End, EndInv, Due
<1>9. CASE DecideToSleep \/ Sleep \/ Handled \/ WakeUp
  <2>1. UNCHANGED <<now, messages, quitting>> /\ looper' # "ended"
    BY <1>9 DEF DecideToSleep, Sleep, Handled, WakeUp
  <2>2. QED
    BY <1>1, <1>2, <2>1 DEF EndInv, Due
<1>10. ASSUME NEW safe \in BOOLEAN, Quit(safe) PROVE EndInv'
  <2>1. ~quitting /\ quitting' /\ looper # "ended" /\ looper' # "ended" /\ UNCHANGED now
    BY <1>1, <1>10 DEF Quit, EndInv, NativeWake, looperVars
  <2>2. \A i \in 1..Len(messages') : messages'[i].when <= now
    <3>1. CASE messages' = <<>>
      BY <3>1, EmptySeq
    <3>2. ASSUME NEW k \in 0..Len(messages), DuePrefix(k), messages' = SubSeq(messages, 1, k)
          PROVE  \A i \in 1..Len(messages') : messages'[i].when <= now
      <4>1. \A i \in 1..k : messages[i] \in Message
        BY <1>3, ElementOfSeq
      <4>2. Len(messages') = k /\ \A i \in 1..k : messages'[i] = messages[i]
        BY <1>3, <3>2, <4>1, SubSeqProperties
      <4>3. QED
        BY <3>2, <4>2 DEF DuePrefix, Due
    <3>3. QED
      BY <1>10, <3>1, <3>2 DEF Quit
  <2>3. QED
    BY <1>2, <2>1, <2>2 DEF EndInv, Due
<1>11. CASE UNCHANGED queueVars
  BY <1>1, <1>2, <1>11 DEF EndInv, Due, queueVars, looperVars
<1>12. QED
  BY <1>1, <1>4, <1>5, <1>6, <1>7, <1>8, <1>9, <1>10, <1>11 DEF Next, Looper

\* Whatever quit has left in the list, and whenever posts race with it, the
\* thread ends on an empty list.
THEOREM EndsWithNothingLeft == Spec => []NothingIsLeftBehind
<1>1. Init => EndInv
  BY InitEstablishesOrder DEF Init, OrderInv, EndInv
<1>2. EndInv /\ [Next]_queueVars => EndInv'
  BY NextKeepsTheEnd
<1>3. EndInv => NothingIsLeftBehind
  BY DEF EndInv, NothingIsLeftBehind
<1>4. QED
  BY <1>1, <1>2, <1>3, PTL DEF Spec
=============================================================================
