SPECIFICATION Spec
CONSTANTS
  Activities = {h, r, p, d, s}
  Homes = {h}
  Readers = {r}
  Overlays = {p}
  LightPanels = {p}
  SleepScreens = {s}
  Exclusives = {}
  Alerts = {}
  AlertRaisers = {}
  FileTransfers = {}
  Pickers = {}
  GlobalPushes = {}
  LockedWriters = {r}
  NoActivity = NoActivity
  NightMode = TRUE
INVARIANTS
  FreshBackdrop
