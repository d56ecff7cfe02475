SPECIFICATION StorageSpec
CONSTANTS
  Protocols = {"globalStats"}
  MaxSaves = 3
  Missing = Missing
  Partial = Partial
  Blocks = 1
  MaxSeq = 1
  Chapters = 2
  ChapterPages = 2
  MaxPending = 2
  SaveEvery = 2
  Sessions = 1
  Chunks = 2
  MaxRetries = 1
  MaxApprovals = 0
  Strays = {"Done"}
PROPERTIES
  BackupStandsIn
