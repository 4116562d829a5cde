CONSTANTS
  MaxDocs = 2
  NLegacy = 1
  MaxTexts = 3
  MaxChunks = 2
  MaxPieces = 2
  Blank = {2}
  BatchSize = 1
  Model = {m1}
  NoModel = NoModel
  Off = Off
  MaxSettings = 2
  MaxFails = 1
  MaxRestarts = 1
SPECIFICATION FairSpec
CHECK_DEADLOCK FALSE
INVARIANTS IndexInv VectorOfItsChunk OneVersionPerDoc NewDocsNeverDiverge
PROPERTIES EveryChunkEmbedded
