SPECIFICATION NSpec
CONSTANTS
  Tokens = {0, 1, 2}
  Eos = 0
  NGram = 3
  PerGram = 1
  Hash <- McHash
  Modes = {"disk", "ram"}
  Caps = {0, 1, 3}
  MaxBatch = 3
  MaxSeq = 5
INVARIANTS RowsExact GatherExact RowCacheSound
