SPECIFICATION Spec
CONSTANTS
  Activities = {h, r, f, d, u, a, s}
  Homes = {h}
  Readers = {r}
  Overlays = {}
  LightPanels = {}
  SleepScreens = {s}
  Exclusives = {u}
  Alerts = {a}
  AlertRaisers = {r}
  FileTransfers = {f}
  Pickers = {d}
  GlobalPushes = {}
  LockedWriters = {r}
  NoActivity = NoActivity
  NightMode = FALSE
INVARIANTS
  CardOwnerStaysAlone
