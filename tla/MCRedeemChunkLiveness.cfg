SPECIFICATION FairChunkSpec
CONSTANTS
  None = None
  Accounts = {a1, a2}
  Reservations = {r1, r2}
  Codes = {c1}
  Batches = {b1}
  Pools = {p1}
  BatchOf <- MCBatchOf
  PoolOf <- MCPoolOf
  MaxPerCode = 1
  MaxAfterSale = 0
  TTL = 1
  Outcomes = {"forbidden"}
  Chunks = {k1, k2}
  Kinds = {"redeem"}
  StockTokens = {"usable"}
  SkipModes = {FALSE}
  DeepCheck = FALSE
  Interference = {"delete"}


PROPERTIES ChunksEnd ReservationsEnd
CHECK_DEADLOCK FALSE
