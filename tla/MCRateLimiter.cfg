SPECIFICATION LimiterSpec
CONSTANTS
  None = None
  Clients = {c1, c2}
  Requests = {q1}
  Windows = {1, 2}
  Limits = {1, 2}
  Lists = {{}}
INVARIANTS LimiterTypeOK BurstBounded
PROPERTIES PromiseKept
SYMMETRY Symmetric
