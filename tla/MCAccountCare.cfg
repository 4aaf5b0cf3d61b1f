SPECIFICATION CareSpec
CONSTANTS
  None = None
  a1 = a1
  a2 = a2
  t1 = t1
  t2 = t2
  Accounts = {a1, a2}
  Tasks <- MCTasks
  Redemptions = {d1}
  Standings = {"good", "limited", "blocked", "banned"}
  Starts <- MCStarts
  MaxEdition = 2
SYMMETRY Symmetric
INVARIANTS CareTypeOK SnapshotFollows RevivedWithCause
PROPERTIES LoginKept CondemnedWithCause
CHECK_DEADLOCK FALSE
