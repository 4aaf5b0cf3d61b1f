SPECIFICATION ChunkSpec
CONSTANTS
  None = None
  Accounts = {a1, a2, a3, a4}
  Reservations = {r1, r2}
  Codes = {c1}
  Batches = {b1}
  Pools = {p1}
  BatchOf <- MCBatchOf
  PoolOf <- MCPoolOf
  MaxPerCode = 1
  MaxAfterSale = 2
  TTL = 1
  Outcomes = {"forbidden"}
  Chunks = {k1, k2}
  Kinds = {"after_sale"}
  StockTokens = {"usable"}
  SkipModes = {FALSE}
  DeepCheck = FALSE
  Interference = {"probe"}
SYMMETRY Symmetric

PROPERTIES ReplacesWhatItSaw
CHECK_DEADLOCK FALSE
