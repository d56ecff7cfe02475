SPECIFICATION StorageSpec
CONSTANTS
  Protocols = {"store", "bookStats", "globalStats", "statsBackup", "libraryIndex", "section"}
  MaxSaves = 4
  Missing = Missing
  Partial = Partial
  Blocks = 3
  MaxSeq = 5
  Chapters = 2
  ChapterPages = 2
  MaxPending = 2
  SaveEvery = 2
  Sessions = 1
  Chunks = 2
  MaxRetries = 1
  MaxApprovals = 0
  Strays = {"Done"}
INVARIANTS
  StorageTypesOK
  NeverTorn
  NoSaveIsLost
  AlwaysBoots
  SwitchTakesEffect
  TurnsFollowLastPress
  RestShowsThePage
  PlaceIsKept
  InstalledIsWhole
  NameKeepsAFile
  SentMeansInstalled
PROPERTIES
  ReadsDoNotGoBack
  ImplementsDurableCell
