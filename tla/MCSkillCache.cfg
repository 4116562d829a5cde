CONSTANTS
  Request = {r1, r2}
  Updater = {r1, r2}
  Skill <- SkillName
  Version <- VersionName
  Source = {"main", "tag"}
  Offers <- OffersOf
  Fallback <- FallbackOf
  File <- FileName
  Path <- PathName
  Glob <- GlobOf
  Covered <- CoveredFiles
  Alien <- AlienPackages
  MaxEvents = 2
  None = None
SPECIFICATION Spec
SYMMETRY Symmetry
CHECK_DEADLOCK FALSE
INVARIANTS QuietCacheIsCurrent
PROPERTIES ServedIsCurrent OnlyStaleCopiesRelist
