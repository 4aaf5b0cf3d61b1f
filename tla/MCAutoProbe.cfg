SPECIFICATION FairAutoSpec
CONSTANTS
  None = None
  Worker = Worker
  Manuals = {m1}
  Admins = {x1}
  Accounts = {1, 2}
  Intervals = {1}
  MaxAge = 1
  Mosts = {1}
  MaxFaults = 1
INVARIANTS AutoTypeOK OneRun
PROPERTIES WorkerSpaced StaysOff FrontProbed
