CONSTANTS
  Worker = {w1, w2}
  Upload = {u1, u2}
  MaxDocs = 3
  MaxRetries = 1
  MaxCrashes = 1
  NoWorker = NoWorker
  Faults <- AllFaults
SPECIFICATION Spec
SYMMETRY Symmetry
INVARIANTS IInv ExclusiveClaim
PROPERTIES RawRemovedOnlyWhenSafe Lifecycle
