CONSTANTS
  Worker = {w1, w2}
  Upload = {u1, u2}
  MaxDocs = 2
  MaxRetries = 0
  MaxCrashes = 1
  NoWorker = NoWorker
  Faults = {}
SPECIFICATION FairSpec
PROPERTIES LandedUploadIsSettled
