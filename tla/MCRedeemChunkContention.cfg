SPECIFICATION MCSpec
CONSTANTS
  None = None
  Accounts = {a1, a2}
  Reservations = {r1, r2}
  Codes = {c1}
  Batches = {b1}
  Pools = {p1}
  BatchOf <- MCBatchOf
  PoolOf <- MCPoolOf
  MaxPerCode = 1
  MaxAfterSale = 1
  TTL = 1
  Outcomes = {"forbidden"}
  Chunks = {k1, k2}
  Kinds = {"redeem", "after_sale"}
  StockTokens = {"usable", "stale"}
  SkipModes = {FALSE, TRUE}
  DeepCheck = TRUE
  Interference = {"import", "delete", "batches", "codes", "refresh"}
SYMMETRY Symmetric
INVARIANTS ChunkTypeOK HoldsOnlyItsSelection
PROPERTIES TakesOnlyWhatItHolds LiveHoldsRespected
CHECK_DEADLOCK FALSE
