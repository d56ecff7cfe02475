SPECIFICATION TasksSpec
CONSTANTS
  Screens = {"reader", "home", "pairing", "usb"}
  HomeStart = TRUE
  RetryLimit = 2
  RefusalsBeforeRestart = 2
  Depth = 2
  Words = {"hund", "katze"}
INVARIANTS
  TaskTypesOK
  BuildRunsAlone
  PaintsApart
  RadioOffOnUsb
  OneRestartPerRadioUp
  WorkerOwnsItsLookup
  AnswersThisLookup
PROPERTIES
  SettleEnds
  HoldEnds
  ChangeGoesThrough
  LookupsEnd
