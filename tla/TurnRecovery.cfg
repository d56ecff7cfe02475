SPECIFICATION TurnsSpec
CONSTANTS
  Chapters = 2
  ChapterPages = 2
  MaxPending = 2
  SaveEvery = 2
INVARIANTS
  RestIsCrisp
