SPECIFICATION FairJobSpec
CONSTANTS
  j1 = j1
  j2 = j2
  j3 = j3
  j4 = j4
  A = A
  B = B
  Jobs = {j1, j2, j3, j4}
  Clients = {A, B}
  ClientOf <- MCClientOf
  MaxActive = 2
  MaxActivePerClient = 1
  MaxQueued = 3
  MaxQueuedPerClient = 2
  MaxCompleted = 1
  Retention = 1
  ChunkSize = 2
  MaxCodes <- MCMaxCodes
  MaxNetwork <- MCMaxNetwork
INVARIANTS JobTypeOK LimitsHold TasksHaveEntries
PROPERTIES PrunesOldestOnly ProgressForward ClientsServed RunsComplete
