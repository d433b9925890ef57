\* Safety, refinement and liveness of the lock (liveness rules out symmetry).
SPECIFICATION FairSpec
CONSTANTS
  Threads = {t1, t2, t3}
  MaxReaders = 3
INVARIANTS Exclusion NoPanic IInv
PROPERTIES ImplementsDoor LatchedWriterEnters SomeCallReturns
