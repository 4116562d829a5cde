CONSTANTS
  Worker = {w1, w2}
  Upload = {u1, u2}
  MaxDocs = 2
  MaxRetries = 1
  MaxCrashes = 1
  NoWorker = NoWorker
  Faults <- MildFaults
SPECIFICATION FairSpec
INVARIANTS ProcessingIsOwned
PROPERTIES UploadsSelfHeal
