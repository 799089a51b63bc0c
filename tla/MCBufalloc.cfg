CONSTANTS
  Threads = {t1, t2}
  Handles = {h1, h2, h3}
  Chunks = {c1, c2, c3}
  Sizes = {1, 3}
  Align = 2
  Strategy = "WASTEFUL"
  EvalOrders = {"next_first"}
  Additional = 5
  Multiple = 4
  SizeMod = 64
  IntHalf = 64
  HeapGap = 1
  MaxRegions = 2
  None = None
SPECIFICATION Spec
SYMMETRY Symmetry
INVARIANTS
  TypeOK
  SentinelIsLast
  ChunksInOrder
  RecordsConserved
  BuffersBacked
  BuffersDisjoint
  NoLeak
  NoFailure
  Coalesced
  RegionReclaimed
  LockGivenBack
