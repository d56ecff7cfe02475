SPECIFICATION Spec
CONSTANTS
  Activities = {h, r, o, d}
  Homes = {h}
  Readers = {r}
  Overlays = {o}
  LightPanels = {}
  SleepScreens = {}
  Exclusives = {}
  Alerts = {}
  AlertRaisers = {}
  FileTransfers = {}
  Pickers = {}
  GlobalPushes = {d}
  LockedWriters = {d}
  NoActivity = NoActivity
  NightMode = FALSE
INVARIANTS
  TypeOK
  NoUseAfterFree
  PendingIsOpenable
  OneOwner
  LifecyclePaired
  NoSelfDeadlock
  WakeupOnTheWay
  WaitShowsNewState
PROPERTIES
  ResultReachesItsHandler
  ImplementsNavStack
