SPECIFICATION FairSpec
CONSTANTS
  Activities = {h, d}
  Homes = {h}
  Readers = {}
  Overlays = {}
  LightPanels = {}
  SleepScreens = {}
  Exclusives = {}
  Alerts = {}
  AlertRaisers = {}
  FileTransfers = {}
  Pickers = {}
  GlobalPushes = {d}
  LockedWriters = {d}
  NoActivity = NoActivity
  NightMode = FALSE
PROPERTIES
  WaitReturns
  ChangeHappens
  RequestIsPainted
  RestoredIsRepainted
