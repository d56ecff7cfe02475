SPECIFICATION NearbySpec
CONSTANTS
  Sessions = 1
  Chunks = 2
  MaxRetries = 1
  MaxApprovals = 1
  Strays = {}
INVARIANTS
  FailedKeepsTheOldFile
