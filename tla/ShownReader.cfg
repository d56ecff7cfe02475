SPECIFICATION Spec
CONSTANTS
  Activities = {h, r}
  Homes = {h}
  Readers = {r}
  Overlays = {}
  LightPanels = {}
  SleepScreens = {}
  Exclusives = {}
  Alerts = {}
  AlertRaisers = {}
  FileTransfers = {}
  Pickers = {}
  GlobalPushes = {}
  LockedWriters = {r}
  NoActivity = NoActivity
  NightMode = FALSE
INVARIANTS
  ShownReaderIsPainted
