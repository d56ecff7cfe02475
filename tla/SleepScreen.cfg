SPECIFICATION Spec
CONSTANTS
  Activities = {h, r, s}
  Homes = {h}
  Readers = {r}
  Overlays = {}
  LightPanels = {}
  SleepScreens = {s}
  Exclusives = {}
  Alerts = {}
  AlertRaisers = {}
  FileTransfers = {}
  Pickers = {}
  GlobalPushes = {}
  LockedWriters = {r}
  NoActivity = NoActivity
  NightMode = FALSE
INVARIANTS
  SleepScreenUp
