SPECIFICATION FairSpec
CONSTANTS
  Readers = {r1, r2, both}
  Writers = {w, both}
  MaxReaders = 2
INVARIANTS MutualExclusion RefusalMeansWriter
PROPERTIES ImplementsRwLock WriterNotStarved
