SPECIFICATION MCSpec
CONSTANTS
  None = None
  a1 = a1
  a2 = a2
  a3 = a3
  r1 = r1
  c1 = c1
  c2 = c2
  b1 = b1
  p1 = p1
  Accounts = {a1, a2, a3}
  Reservations = {r1}
  Codes = {c1, c2}
  Batches = {b1}
  Pools = {p1}
  BatchOf <- MCBatchOf
  PoolOf <- MCPoolOf
  Outcomes = {"available", "forbidden"}
  MaxPerCode = 2
  MaxAfterSale = 1
  TTL = 1
CONSTRAINT InUse
SYMMETRY Symmetric
INVARIANTS SettleTypeOK RowChecksPass
PROPERTIES SettlesAtomically
