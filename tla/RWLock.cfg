SPECIFICATION FairLockSpec
CONSTANT Threads = {t1, t2, t3, t4}
INVARIANTS
  Exclusion
  NoWakeUpIsLost
PROPERTY SomeWriterWrites
