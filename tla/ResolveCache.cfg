SPECIFICATION CacheSpec
CONSTANTS
  Names = {a, b}
  Readers = {r1, r2}
  PerShard = 1
  MaxWrites = 1
  MaxReads = 3
  Losses = 1
SYMMETRY Symmetry
INVARIANT VouchedIsFresh
CHECK_DEADLOCK FALSE
