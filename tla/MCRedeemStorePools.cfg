SPECIFICATION Spec
CONSTANTS
  None = None
  a1 = a1
  a2 = a2
  r1 = r1
  c1 = c1
  c2 = c2
  b1 = b1
  b2 = b2
  p1 = p1
  p2 = p2
  Accounts <- MCAccounts
  Reservations = {r1}
  Codes = {c1, c2}
  Batches = {b1, b2}
  Pools = {p1, p2}
  BatchOf <- MCBatchOf
  PoolOf <- MCPoolOf
  Outcomes = {"forbidden"}
  MaxPerCode = 2
  MaxAfterSale = 0
  TTL = 1
SYMMETRY Symmetric
INVARIANTS TypeOK CountsAgree WholeDeliveries
PROPERTIES DeliveriesUsable ImplementsLedger
