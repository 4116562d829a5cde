CONSTANTS
  Key = {a, b, c}
  Caller = {p, q}
  NoKey = NoKey
  MaxEntries = 2
  MaxAttempts = 2
  Window = 2
  Sweep = 2
  Rate = 2
  Minute = 2
  Hour = 3
  Delay = 1
  Limit = 2
  Span = 2
  MaxTime = 5
  MaxCalls = 5
  Line <- Lines
  MaxLines = 5
  MaxChunk = 6
  Overlap = 2
  HardSplit = 8
  Ids = {1, 2, 3, 4}
  None = None
  Scores = {0, 1}
  TopK = 3
  K = 1
  ScanLimit = 3
  DefaultSize = 2
  MaxSize = 3
  Word = 8
  Asked <- AskedFor
  MaxChanges = 1
SPECIFICATION Spec
SYMMETRY Symmetry
CHECK_DEADLOCK FALSE
INVARIANTS NothingIsLost Chunked LimitersHold RefusalsAreEarned SearchHolds
