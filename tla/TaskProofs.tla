----------------------------- MODULE TaskProofs -----------------------------
(***************************************************************************)
(* Theorems about the tasks beside the main loop and the render task.      *)
(*                                                                         *)
(* The page turner's radio, for every choice of screens, of the profile    *)
(* and of the limits: who may take the heap beside whom, that the USB host *)
(* finds the radio off, and how often the device restarts.                 *)
(*                                                                         *)
(* The dictionary's worker, for every number of screens and every set of   *)
(* words: it never writes to a controller that does not wait for it, and   *)
(* what a controller acts on answers its own word.                         *)
(***************************************************************************)
EXTENDS MCTasks, TLAPS

-----------------------------------------------------------------------------
(* The invariant's parts *)

\* Once a page has the lock and no start was left to wait for, none gets past
\* the lock until the page is done.
PagesApart ==
  renderPc \notin {"idle", "settle"} /\ front = "reader" /\ ~overdue => ~TakesHeap

\* The radio is off before the screen changes to one that is no book, and from
\* then on nothing on the way to a start has the USB screen in front.
OffForUsb ==
  /\ front = "usb" \/ (mainPc = "swap" /\ pending # "reader") => radio = "down" /\ ~InFlight
  /\ mainPc \in {"start", "claimed", "switchOn", "sync"} => front # "usb"
  /\ mainPc = "swap" => ~InFlight

\* A restart is only wanted while none has been spent since the radio was up.
SpentOnce ==
  /\ wanted \in BOOLEAN /\ spent \in BOOLEAN /\ restarts \in {0, 1}
  /\ wanted => ~spent
  /\ ~spent => restarts = 0

BleInv == BuildRunsAlone /\ PagesApart /\ OffForUsb /\ SpentOnce

\* What a stop does to the radio, at once or in the background.
LEMMA Ending ==
  ASSUME NEW r, NEW q \in EndsAt(r)
  PROVE  r = "down" => q = "down"
BY DEF EndsAt

LEMMA SuspendKeepsDown == Suspend /\ radio = "down" => radio' = "down"
BY Ending DEF Suspend

LEMMA BleInitInv == Init => BleInv
<1>. USE DEF Init
<1>1. Init => BuildRunsAlone /\ PagesApart
  BY DEF BuildRunsAlone, PagesApart
<1>2. Init => OffForUsb
  BY DEF OffForUsb, InFlight
<1>3. Init => SpentOnce
  BY DEF SpentOnce
<1>. QED
  BY <1>1, <1>2, <1>3 DEF BleInv

-----------------------------------------------------------------------------
(* Steps that leave the memo of the restart alone, and those that do not.   *)

\* The memo after an attempt that says nothing of the heap, and after a refusal.
LEMMA Refused ==
  ASSUME SpentOnce, Inconclusive \/ InPieces
  PROVE  SpentOnce'
<1>1. UNCHANGED <<spent, restarts>>
  BY DEF Inconclusive, InPieces
<1>2. wanted' = FALSE \/ wanted' = (wanted \/ (inRow' = RefusalsBeforeRestart /\ ~spent))
  BY DEF Inconclusive, InPieces
<1>3. wanted' \in BOOLEAN
  BY <1>2, Zenon
<1>4. wanted' => wanted \/ ~spent
  BY <1>2, Zenon
<1>5. wanted' => ~spent'
  BY <1>1, <1>4, Zenon DEF SpentOnce
<1>6. spent' \in BOOLEAN /\ restarts' \in {0, 1} /\ (~spent' => restarts' = 0)
  BY <1>1, Zenon DEF SpentOnce
<1>. QED
  BY <1>3, <1>5, <1>6, Zenon DEF SpentOnce

\* Restarting, its own refusals and a radio that is up: all that moves the memo.
LEMMA SpentStep == SpentOnce /\ [Next]_vars => SpentOnce'
<1> SUFFICES ASSUME SpentOnce, [Next]_vars PROVE SpentOnce'
  OBVIOUS
<1>. USE DEF SpentOnce
<1>0. CASE UNCHANGED heapVars
  BY <1>0 DEF heapVars
<1>1. CASE RestartIntoBook
  <2>1. restarts' = restarts + 1 /\ wanted /\ wanted' = FALSE /\ spent' = TRUE
    BY <1>1 DEF RestartIntoBook, Spends
  <2>2. restarts = 0
    BY <2>1, Zenon
  <2>3. restarts' \in {0, 1}
    BY <2>1, <2>2
  <2>. QED
    BY <2>1, <2>3
<1>2. CASE CheckHeap
  BY <1>2, <1>0, Refused DEF CheckHeap
<1>3. CASE PortBegin
  BY <1>3, <1>0, Refused DEF PortBegin
<1>4. CASE CheckStarted
  BY <1>4, Refused DEF CheckStarted
<1>5. ASSUME Tick \/ ClaimStart \/ SpawnStart \/ FinishTick \/ ActivityLoop \/ SwitchOn
               \/ ChangeScreen \/ SwapScreens \/ Inputs \/ StopDone
      PROVE  UNCHANGED heapVars
  BY <1>5 DEF Tick, ClaimStart, SpawnStart, FinishTick, ActivityLoop, SwitchOn, ChangeScreen,
     SwapScreens, Inputs, AskScreen, Toggle, StopDone
<1>6. ASSUME BeginOwned \/ ReleaseCaches \/ FinishAttempt
      PROVE  UNCHANGED heapVars
  BY <1>6 DEF BeginOwned, ReleaseCaches, FinishAttempt
<1>7. ASSUME RenderSteps \/ TimeOuts
      PROVE  UNCHANGED heapVars
  BY <1>7 DEF RenderSteps, TimeOuts, BeginRender, Settled, SettleLate, Settle, LoadPage, AskRoom,
     HoldForBuild, CancelForBuild, StopForBuild, ReleasedForBuild, WaitForRoom, BuildChapter,
     Paint, StillUp, RefuseBuild, RenderUnchanged
<1>8. CASE UNCHANGED vars
  BY <1>8, <1>0 DEF vars
<1>. QED
  BY <1>0, <1>1, <1>2, <1>3, <1>4, <1>5, <1>6, <1>7, <1>8 DEF Next, MainLoop, StartTask

-----------------------------------------------------------------------------
(* Who takes the heap beside whom.                                          *)

\* A start gets past the lock only while nobody renders.
LEMMA HeapStep ==
  ASSUME [Next]_vars
  PROVE  /\ TakesHeap' => TakesHeap \/ (renderPc = "idle" /\ UNCHANGED <<renderPc, radio>>)
         /\ front' # front => renderPc' = "idle"
<1>. USE DEF TakesHeap
<1>1. CASE MainLoop
  BY <1>1 DEF MainLoop, Tick, ClaimStart, SpawnStart, FinishTick, RestartIntoBook, ActivityLoop,
     SwitchOn, ChangeScreen, SwapScreens, sceneVars, LockFree
<1>2. CASE Inputs
  BY <1>2 DEF Inputs, AskScreen, Toggle
<1>3. CASE StartTask
  BY <1>3 DEF StartTask, BeginOwned, ReleaseCaches, CheckHeap, PortBegin, CheckStarted,
     FinishAttempt, StartUnchanged, sceneVars, TakesCaches, LockFree
<1>4. CASE StopDone
  BY <1>4 DEF StopDone, sceneVars
<1>5. CASE RenderSteps \/ TimeOuts
  BY <1>5 DEF RenderSteps, TimeOuts, BeginRender, Settled, SettleLate, Settle, LoadPage, AskRoom,
     HoldForBuild, CancelForBuild, StopForBuild, ReleasedForBuild, WaitForRoom, BuildChapter,
     Paint, StillUp, RefuseBuild, RenderUnchanged
<1>6. CASE UNCHANGED vars
  BY <1>6 DEF vars, sceneVars
<1>. QED
  BY <1>1, <1>2, <1>3, <1>4, <1>5, <1>6 DEF Next

\* The radio comes up only by a start that has the heap.
LEMMA RadioStep ==
  ASSUME [Next]_vars, radio = "down"
  PROVE  radio' = "down" \/ TakesHeap
<1>1. CASE MainLoop
  BY <1>1, SuspendKeepsDown DEF MainLoop, Tick, ClaimStart, SpawnStart, FinishTick,
     RestartIntoBook, ActivityLoop, SwitchOn, ChangeScreen, SwapScreens
<1>2. CASE Inputs
  BY <1>2, SuspendKeepsDown DEF Inputs, AskScreen, Toggle
<1>3. CASE StartTask
  BY <1>3 DEF StartTask, BeginOwned, ReleaseCaches, CheckHeap, PortBegin, CheckStarted,
     FinishAttempt, TakesHeap
<1>4. CASE StopDone
  BY <1>4 DEF StopDone
<1>5. CASE RenderSteps \/ TimeOuts
  BY <1>5, Ending DEF RenderSteps, TimeOuts, BeginRender, Settled, SettleLate, Settle, LoadPage,
     AskRoom,
     HoldForBuild, CancelForBuild, StopForBuild, ReleasedForBuild, WaitForRoom, BuildChapter,
     Paint, StillUp, RefuseBuild
<1>6. CASE UNCHANGED vars
  BY <1>6 DEF vars
<1>. QED
  BY <1>1, <1>2, <1>3, <1>4, <1>5, <1>6 DEF Next

\* A build begins only when the gate has looked at the radio and at the start.
LEMMA BuildBegins ==
  ASSUME [Next]_vars, renderPc' = "build"
  PROVE  renderPc = "build" \/ (radio' = "down" /\ ~InFlight')
<1>1. CASE MainLoop
  BY <1>1 DEF MainLoop, Tick, ClaimStart, SpawnStart, FinishTick, RestartIntoBook, ActivityLoop,
     SwitchOn, ChangeScreen, SwapScreens
<1>2. CASE Inputs
  BY <1>2 DEF Inputs, AskScreen, Toggle
<1>3. CASE StartTask
  BY <1>3 DEF StartTask, BeginOwned, ReleaseCaches, CheckHeap, PortBegin, CheckStarted,
     FinishAttempt, StartUnchanged
<1>4. CASE StopDone
  BY <1>4 DEF StopDone
<1>5. CASE RenderSteps \/ TimeOuts
  BY <1>5 DEF RenderSteps, TimeOuts, BeginRender, Settled, SettleLate, Settle, LoadPage, AskRoom,
     HoldForBuild, CancelForBuild, StopForBuild, ReleasedForBuild, WaitForRoom, BuildChapter,
     Paint, StillUp, RefuseBuild, RenderUnchanged, BuildMayRun, InFlight
<1>6. CASE UNCHANGED vars
  BY <1>6 DEF vars
<1>. QED
  BY <1>1, <1>2, <1>3, <1>4, <1>5, <1>6 DEF Next

LEMMA BuildStep == BuildRunsAlone /\ [Next]_vars => BuildRunsAlone'
<1> SUFFICES ASSUME BuildRunsAlone, [Next]_vars, renderPc' = "build"
             PROVE  radio' = "down" /\ ~TakesHeap'
  BY DEF BuildRunsAlone
<1>1. CASE renderPc = "build"
  BY <1>1, HeapStep, RadioStep DEF BuildRunsAlone
<1>2. CASE radio' = "down" /\ ~InFlight'
  BY <1>2 DEF InFlight, TakesHeap
<1>. QED
  BY <1>1, <1>2, BuildBegins

-----------------------------------------------------------------------------

\* A page of a book begins with no start in flight, or after waiting for one.
LEMMA PageBegins ==
  ASSUME [Next]_vars, renderPc' \notin {"idle", "settle"}, front' = "reader", ~overdue'
  PROVE  /\ front = "reader" 
         /\ (renderPc \notin {"idle", "settle"} /\ ~overdue) \/ ~InFlight'
<1>1. CASE MainLoop
  BY <1>1 DEF MainLoop, Tick, ClaimStart, SpawnStart, FinishTick, RestartIntoBook, ActivityLoop,
     SwitchOn, ChangeScreen, SwapScreens, sceneVars, buildVars, LockFree
<1>2. CASE Inputs
  BY <1>2 DEF Inputs, AskScreen, Toggle, buildVars
<1>3. CASE StartTask
  BY <1>3 DEF StartTask, BeginOwned, ReleaseCaches, CheckHeap, PortBegin, CheckStarted,
     FinishAttempt, StartUnchanged, sceneVars, buildVars
<1>4. CASE StopDone
  BY <1>4 DEF StopDone, sceneVars, buildVars
<1>5. CASE Settled \/ SettleLate
  BY <1>5 DEF Settled, SettleLate, Settle, RenderUnchanged, InFlight
<1>6. CASE BeginRender \/ Paint
  BY <1>6 DEF BeginRender, Paint, RenderUnchanged, InFlight, LockFree
<1>7. CASE LoadPage \/ AskRoom \/ WaitForRoom \/ RefuseBuild \/ BuildChapter
  BY <1>7 DEF LoadPage, AskRoom, WaitForRoom, RefuseBuild, BuildChapter, RenderUnchanged
<1>8. CASE HoldForBuild \/ CancelForBuild \/ StopForBuild \/ ReleasedForBuild \/ StillUp
  BY <1>8 DEF HoldForBuild, CancelForBuild, StopForBuild, ReleasedForBuild, StillUp,
     RenderUnchanged
<1>9. CASE UNCHANGED vars
  BY <1>9 DEF vars, sceneVars, buildVars
<1>. QED
  BY <1>1, <1>2, <1>3, <1>4, <1>5, <1>6, <1>7, <1>8, <1>9 DEF Next, RenderSteps, TimeOuts

LEMMA PagesStep == PagesApart /\ [Next]_vars => PagesApart'
<1> SUFFICES ASSUME PagesApart, [Next]_vars,
                    renderPc' \notin {"idle", "settle"}, front' = "reader", ~overdue'
             PROVE  ~TakesHeap'
  BY DEF PagesApart
<1>1. CASE ~InFlight'
  BY <1>1 DEF InFlight, TakesHeap
<1>2. CASE renderPc \notin {"idle", "settle"} /\ ~overdue
  BY <1>2, HeapStep, PageBegins DEF PagesApart
<1>. QED
  BY <1>1, <1>2, PageBegins

-----------------------------------------------------------------------------
(* The USB screen.                                                          *)

LEMMA UsbStep == OffForUsb /\ [Next]_vars => OffForUsb'
<1> SUFFICES ASSUME OffForUsb, [Next]_vars PROVE OffForUsb'
  OBVIOUS
<1>. USE DEF OffForUsb, InFlight
<1>1. CASE Tick
  BY <1>1, SuspendKeepsDown DEF Tick, MustBeOff
<1>2. CASE ClaimStart
  BY <1>2 DEF ClaimStart, sceneVars
<1>3. CASE SpawnStart
  BY <1>3 DEF SpawnStart, sceneVars
<1>4. CASE FinishTick
  BY <1>4, SuspendKeepsDown DEF FinishTick, sceneVars
<1>5. CASE RestartIntoBook
  BY <1>5 DEF RestartIntoBook
<1>6. CASE ActivityLoop
  BY <1>6 DEF ActivityLoop
<1>7. CASE SwitchOn
  BY <1>7 DEF SwitchOn, sceneVars
<1>8. CASE ChangeScreen
  BY <1>8, SuspendKeepsDown DEF ChangeScreen, Kept, Suspended
<1>9. CASE SwapScreens
  BY <1>9 DEF SwapScreens
<1>10. CASE Inputs
  BY <1>10, SuspendKeepsDown DEF Inputs, AskScreen, Toggle
<1>11. CASE StartTask
  BY <1>11 DEF StartTask, BeginOwned, ReleaseCaches, CheckHeap, PortBegin, CheckStarted,
     FinishAttempt, StartUnchanged, sceneVars
<1>12. CASE StopDone
  BY <1>12 DEF StopDone, sceneVars
<1>13. CASE RenderSteps \/ TimeOuts
  BY <1>13, Ending DEF RenderSteps, TimeOuts, BeginRender, Settled, SettleLate, Settle, LoadPage,
     AskRoom, HoldForBuild, CancelForBuild, StopForBuild, ReleasedForBuild, WaitForRoom,
     BuildChapter, Paint, StillUp, RefuseBuild, RenderUnchanged
<1>14. CASE UNCHANGED vars
  BY <1>14 DEF vars, sceneVars
<1>. QED
  BY <1>1, <1>2, <1>3, <1>4, <1>5, <1>6, <1>7, <1>8, <1>9, <1>10, <1>11, <1>12, <1>13, <1>14
     DEF Next, MainLoop

-----------------------------------------------------------------------------
(* The theorems *)

LEMMA BleInvStep == BleInv /\ [Next]_vars => BleInv'
BY BuildStep, PagesStep, UsbStep, SpentStep DEF BleInv

LEMMA BleInvHolds == Spec => []BleInv
BY BleInitInv, BleInvStep, PTL DEF Spec

\* The gate lets a chapter be built only where no radio is up and no start is
\* past the render lock, and none gets past it before the build is done.
THEOREM BuildAlone == Spec => []BuildRunsAlone
BY BleInvHolds, PTL DEF BleInv

\* A page waits for the start it meets, and a start for the page it meets.
THEOREM PagesPaintApart == Spec => []PaintsApart
<1>1. BleInv => PaintsApart
  BY DEF BleInv, PagesApart, PaintsApart
<1>. QED
  BY <1>1, BleInvHolds, PTL

\* beforeScreenChange() has the radio off, and no start on its way, before the
\* host gets the card.
THEOREM UsbFindsRadioOff == Spec => []RadioOffOnUsb
<1>1. BleInv => RadioOffOnUsb
  BY DEF BleInv, OffForUsb, RadioOffOnUsb
<1>. QED
  BY <1>1, BleInvHolds, PTL

\* The memo in RTC memory keeps the device from restarting again and again.
THEOREM RestartsOnce == Spec => []OneRestartPerRadioUp
<1>1. BleInv => OneRestartPerRadioUp
  BY DEF BleInv, SpentOnce, OneRestartPerRadioUp
<1>. QED
  BY <1>1, BleInvHolds, PTL

-----------------------------------------------------------------------------
(* The radio's types.  A screen can only come to the front that was asked for. *)

ScreensOK ==
  /\ front \in Screens /\ pending \in Screens \cup {"none"}
  /\ mainPc = "swap" => pending # "none"

FlagsOK ==
  /\ shown \in BOOLEAN /\ newVisit \in BOOLEAN /\ redraw \in BOOLEAN /\ lastReader \in BOOLEAN
  /\ enabled \in BOOLEAN /\ attempted \in BOOLEAN /\ cancelled \in BOOLEAN /\ deferred \in BOOLEAN
  /\ idleStopped \in BOOLEAN /\ rearm \in BOOLEAN /\ held \in BOOLEAN /\ released \in BOOLEAN
  /\ fromHome \in BOOLEAN /\ cpuHeld \in BOOLEAN /\ wanted \in BOOLEAN /\ spent \in BOOLEAN
  /\ overdue \in BOOLEAN

PlacesOK ==
  /\ mainPc \in {"loop", "start", "claimed", "tail", "activity", "screen", "switchOn", "sync",
                  "swap"}
  /\ startPc \in {"none", "claimed", "begin", "caches", "heap", "up", "check", "won", "lost"}
  /\ renderPc \in {"idle", "settle", "page", "gate", "gateSettle", "gateHold", "cancel", "stop",
                   "stopping", "unhold", "room", "build", "paint"}
  /\ radio \in {"down", "up", "stopping", "stopped"}

CountsOK == retries \in 0..RetryLimit /\ inRow \in 0..RefusalsBeforeRestart /\ restarts \in Nat

BleTypeInv == ScreensOK /\ FlagsOK /\ PlacesOK /\ CountsOK

\* A stop leaves the stack in one of its states.
LEMMA EndsWell == ASSUME NEW r \in {"down", "up", "stopping", "stopped"}
                  PROVE  EndsAt(r) \subseteq {"down", "up", "stopping", "stopped"}
BY DEF EndsAt

\* So does all of suspend(0), and it leaves its flags flags.
LEMMA SuspendTypes ==
  ASSUME Suspend, cpuHeld \in BOOLEAN, radio \in {"down", "up", "stopping", "stopped"}
  PROVE  /\ cancelled' \in BOOLEAN /\ cpuHeld' \in BOOLEAN
         /\ radio' \in {"down", "up", "stopping", "stopped"}
<1>1. cancelled' \in BOOLEAN
  BY DEF Suspend
<1>2. cpuHeld' = cpuHeld \/ cpuHeld' = (radio' # "down")
  BY DEF Suspend
<1>3. radio' \in {"down", "up", "stopping", "stopped"}
  BY EndsWell DEF Suspend
<1>. QED
  BY <1>1, <1>2, <1>3, Zenon

\* The device boots with all of it in order.
LEMMA BleTypeInitInv == Init => BleTypeInv
<1>. USE ScreensAssumption, LimitsAssumption DEF Init
<1>1. Init => ScreensOK /\ PlacesOK /\ CountsOK
  BY DEF ScreensOK, PlacesOK, CountsOK
<1>2. Init => FlagsOK
  BY Zenon DEF FlagsOK
<1>. QED
  BY <1>1, <1>2 DEF BleTypeInv

\* Only SwapScreens and the restart bring a screen to the front.
LEMMA ScreensStep == ScreensOK /\ [Next]_vars => ScreensOK'
<1> SUFFICES ASSUME ScreensOK, [Next]_vars PROVE ScreensOK'
  OBVIOUS
<1>. USE ScreensAssumption DEF ScreensOK
<1>1. CASE Tick \/ ClaimStart \/ SpawnStart \/ FinishTick
  <2>1. UNCHANGED <<front, pending>> /\ mainPc' # "swap"
    BY <1>1 DEF Tick, ClaimStart, SpawnStart, FinishTick, sceneVars
  <2>. QED
    BY <2>1
<1>2. CASE RestartIntoBook \/ ActivityLoop \/ SwitchOn
  BY <1>2 DEF RestartIntoBook, ActivityLoop, SwitchOn, sceneVars
<1>3. CASE ChangeScreen \/ SwapScreens
  BY <1>3 DEF ChangeScreen, SwapScreens
<1>4. CASE Inputs
  BY <1>4 DEF Inputs, AskScreen, Toggle
<1>5. CASE StartTask
  BY <1>5 DEF StartTask, BeginOwned, ReleaseCaches, CheckHeap, PortBegin, CheckStarted,
     FinishAttempt, StartUnchanged, sceneVars
<1>6. CASE StopDone
  BY <1>6 DEF StopDone, sceneVars
<1>7. CASE RenderSteps \/ TimeOuts
  BY <1>7 DEF RenderSteps, TimeOuts, BeginRender, Settled, SettleLate, Settle, LoadPage, AskRoom,
     HoldForBuild, CancelForBuild, StopForBuild, ReleasedForBuild, WaitForRoom, BuildChapter,
     Paint, StillUp, RefuseBuild, RenderUnchanged
<1>8. CASE UNCHANGED vars
  BY <1>8 DEF vars, sceneVars
<1>. QED
  BY <1>1, <1>2, <1>3, <1>4, <1>5, <1>6, <1>7, <1>8 DEF Next, MainLoop

\* Every task stands at one of its places, the stack in one of its states.
LEMMA PlacesStep == PlacesOK /\ FlagsOK /\ [Next]_vars => PlacesOK'
<1> SUFFICES ASSUME PlacesOK, FlagsOK, [Next]_vars PROVE PlacesOK'
  OBVIOUS
<1>0. cpuHeld \in BOOLEAN
  BY DEF FlagsOK
<1>. USE <1>0 DEF PlacesOK
<1>1. CASE Tick
  <2>1. radio' = radio \/ Suspend
    BY <1>1 DEF Tick
  <2>2. mainPc' \in {"tail", "start"} /\ UNCHANGED <<startPc, renderPc>>
    BY <1>1 DEF Tick
  <2>. QED
    BY <2>1, <2>2, SuspendTypes
<1>2. CASE ClaimStart \/ SpawnStart \/ SwitchOn \/ ActivityLoop
  BY <1>2 DEF ClaimStart, SpawnStart, SwitchOn, ActivityLoop
<1>3. CASE FinishTick
  BY <1>3, SuspendTypes DEF FinishTick
<1>4. CASE RestartIntoBook \/ SwapScreens
  BY <1>4 DEF RestartIntoBook, SwapScreens
<1>5. CASE ChangeScreen
  BY <1>5, SuspendTypes DEF ChangeScreen
<1>6. CASE Inputs
  BY <1>6, SuspendTypes DEF Inputs, AskScreen, Toggle
<1>7. CASE StartTask
  BY <1>7, EndsWell DEF StartTask, BeginOwned, ReleaseCaches, CheckHeap, PortBegin, CheckStarted,
     FinishAttempt, StartUnchanged
<1>8. CASE StopDone
  BY <1>8 DEF StopDone
<1>9. CASE RenderSteps \/ TimeOuts
  BY <1>9, EndsWell DEF RenderSteps, TimeOuts, BeginRender, Settled, SettleLate, Settle, LoadPage,
     AskRoom,
     HoldForBuild, CancelForBuild, StopForBuild, ReleasedForBuild, WaitForRoom, BuildChapter,
     Paint, StillUp, RefuseBuild, RenderUnchanged
<1>10. CASE UNCHANGED vars
  BY <1>10 DEF vars
<1>. QED
  BY <1>1, <1>2, <1>3, <1>4, <1>5, <1>6, <1>7, <1>8, <1>9, <1>10 DEF Next, MainLoop

\* A retry and a refusal count only below their limits.
LEMMA CountsStep == CountsOK /\ [Next]_vars => CountsOK'
<1> SUFFICES ASSUME CountsOK, [Next]_vars PROVE CountsOK'
  OBVIOUS
<1>. USE LimitsAssumption DEF CountsOK
<1>0. ASSUME UNCHANGED <<visitVars, heapVars>> PROVE CountsOK'
  BY <1>0 DEF visitVars, heapVars
<1>1. CASE Tick
  <2>1. \E n \in {0, retries} : retries' \in {0, n} \/ (RetriesLeft(n) /\ retries' = n + 1)
    BY <1>1 DEF Tick
  <2>2. UNCHANGED heapVars
    BY <1>1 DEF Tick
  <2>3. retries' \in 0..RetryLimit
    BY <2>1 DEF RetriesLeft
  <2>. QED
    BY <2>2, <2>3 DEF heapVars
<1>2. CASE RestartIntoBook
  BY <1>2 DEF RestartIntoBook
<1>3. ASSUME ClaimStart \/ SpawnStart \/ FinishTick \/ ActivityLoop \/ SwitchOn \/ ChangeScreen
               \/ SwapScreens \/ Inputs \/ StopDone
      PROVE  UNCHANGED <<visitVars, heapVars>>
  BY <1>3 DEF ClaimStart, SpawnStart, FinishTick, ActivityLoop, SwitchOn, ChangeScreen,
     SwapScreens, Inputs, AskScreen, Toggle, StopDone
<1>4. CASE StartTask
  <2>1. UNCHANGED visitVars
    BY <1>4 DEF StartTask, BeginOwned, ReleaseCaches, CheckHeap, PortBegin, CheckStarted,
       FinishAttempt, StartUnchanged
  <2>2. inRow' \in 0..RefusalsBeforeRestart /\ restarts' \in Nat
    BY <1>4 DEF StartTask, BeginOwned, ReleaseCaches, CheckHeap, PortBegin, CheckStarted,
       FinishAttempt, Inconclusive, InPieces, heapVars
  <2>. QED
    BY <2>1, <2>2 DEF visitVars
<1>5. ASSUME RenderSteps \/ TimeOuts
      PROVE  UNCHANGED <<visitVars, heapVars>>
  BY <1>5 DEF RenderSteps, TimeOuts, BeginRender, Settled, SettleLate, Settle, LoadPage, AskRoom,
     HoldForBuild, CancelForBuild, StopForBuild, ReleasedForBuild, WaitForRoom, BuildChapter,
     Paint, StillUp, RefuseBuild, RenderUnchanged
<1>6. CASE UNCHANGED vars
  BY <1>6, <1>0 DEF vars
<1>. QED
  BY <1>0, <1>1, <1>2, <1>3, <1>4, <1>5, <1>6 DEF Next, MainLoop

\* The flags stay flags, step by step.
LEMMA FlagsStep == FlagsOK /\ [Next]_vars => FlagsOK'
<1> SUFFICES ASSUME FlagsOK, [Next]_vars PROVE FlagsOK'
  OBVIOUS
<1>. USE DEF FlagsOK
<1>1. CASE Tick
  <2>1. UNCHANGED <<shown, redraw, enabled, released, wanted, spent, overdue>>
    BY <1>1 DEF Tick, sceneVars, heapVars
  <2>2. /\ newVisit' \in BOOLEAN /\ lastReader' \in BOOLEAN /\ attempted' \in BOOLEAN
        /\ deferred' \in BOOLEAN /\ idleStopped' \in BOOLEAN /\ rearm' \in BOOLEAN
        /\ held' \in BOOLEAN /\ fromHome' \in BOOLEAN
    BY <1>1, Zenon DEF Tick
  <2>3. cancelled' \in BOOLEAN /\ cpuHeld' \in BOOLEAN
    BY <1>1, Zenon DEF Tick, Suspend
  <2>. QED
    BY <2>1, <2>2, <2>3
<1>2. CASE ClaimStart
  <2>1. UNCHANGED <<shown, newVisit, redraw, lastReader, enabled, attempted, cancelled, rearm,
                    held, released, fromHome, cpuHeld, wanted, spent, overdue>>
    BY <1>2 DEF ClaimStart, sceneVars, visitVars, buildVars, heapVars
  <2>2. idleStopped' \in BOOLEAN
    BY <1>2, Zenon DEF ClaimStart
  <2>3. deferred' \in BOOLEAN
    BY <1>2, Zenon DEF ClaimStart, InFlight
  <2>. QED
    BY <2>1, <2>2, <2>3
<1>3. CASE SpawnStart
  <2>1. UNCHANGED <<shown, newVisit, redraw, lastReader, enabled, attempted, idleStopped, rearm,
                    held, released, fromHome, wanted, spent, overdue>>
    BY <1>3 DEF SpawnStart, sceneVars, visitVars, buildVars, heapVars
  <2>2. deferred' \in BOOLEAN
    BY <1>3, Zenon DEF SpawnStart, Running
  <2>3. cpuHeld' \in BOOLEAN /\ cancelled' \in BOOLEAN
    BY <1>3, Zenon DEF SpawnStart
  <2>. QED
    BY <2>1, <2>2, <2>3
<1>4. CASE FinishTick
  <2>1. UNCHANGED <<shown, newVisit, redraw, lastReader, enabled, attempted, rearm, held,
                    released, fromHome, wanted, spent, overdue>>
    BY <1>4 DEF FinishTick, sceneVars, visitVars, buildVars, heapVars
  <2>2. idleStopped' \in BOOLEAN /\ deferred' \in BOOLEAN
    BY <1>4, Zenon DEF FinishTick
  <2>3. cancelled' \in BOOLEAN /\ cpuHeld' \in BOOLEAN
    BY <1>4, Zenon DEF FinishTick, Suspend
  <2>. QED
    BY <2>1, <2>2, <2>3
<1>5. CASE RestartIntoBook
  <2>1. UNCHANGED <<enabled>>
    BY <1>5 DEF RestartIntoBook
  <2>2. /\ shown' \in BOOLEAN /\ newVisit' \in BOOLEAN /\ redraw' \in BOOLEAN
        /\ lastReader' \in BOOLEAN /\ attempted' \in BOOLEAN /\ cancelled' \in BOOLEAN
        /\ deferred' \in BOOLEAN /\ idleStopped' \in BOOLEAN /\ rearm' \in BOOLEAN
        /\ held' \in BOOLEAN /\ released' \in BOOLEAN /\ overdue' \in BOOLEAN
        /\ fromHome' \in BOOLEAN /\ cpuHeld' \in BOOLEAN /\ wanted' \in BOOLEAN
        /\ spent' \in BOOLEAN
    BY <1>5, Zenon DEF RestartIntoBook, Spends
  <2>. QED
    BY <2>1, <2>2
<1>6. CASE ActivityLoop
  <2>1. UNCHANGED <<shown, newVisit, lastReader, enabled, attempted, cancelled, deferred,
                    idleStopped, fromHome, cpuHeld, wanted, spent, overdue>>
    BY <1>6 DEF ActivityLoop, visitVars, heapVars
  <2>2. released' \in BOOLEAN /\ held' \in BOOLEAN /\ rearm' \in BOOLEAN
    BY <1>6, Zenon DEF ActivityLoop, PagePainted
  <2>3. redraw' \in BOOLEAN
    BY <1>6, Zenon DEF ActivityLoop
  <2>. QED
    BY <2>1, <2>2, <2>3
<1>7. CASE SwitchOn
  <2>1. UNCHANGED <<shown, newVisit, redraw, lastReader, enabled, attempted, rearm, held,
                    released, wanted, spent, overdue>>
    BY <1>7 DEF SwitchOn, sceneVars, visitVars, buildVars, heapVars
  <2>2. /\ fromHome' \in BOOLEAN /\ idleStopped' \in BOOLEAN /\ deferred' \in BOOLEAN
        /\ cancelled' \in BOOLEAN /\ cpuHeld' \in BOOLEAN
    BY <1>7, Zenon DEF SwitchOn
  <2>. QED
    BY <2>1, <2>2
<1>8. CASE ChangeScreen
  <2>1. UNCHANGED <<shown, redraw, lastReader, enabled, attempted, deferred, idleStopped, rearm,
                    held, released, fromHome, wanted, spent, overdue>>
    BY <1>8 DEF ChangeScreen, visitVars, buildVars, heapVars
  <2>2. newVisit' \in BOOLEAN
    BY <1>8, Zenon DEF ChangeScreen
  <2>3. cancelled' \in BOOLEAN /\ cpuHeld' \in BOOLEAN
    BY <1>8, Zenon DEF ChangeScreen, Suspend
  <2>. QED
    BY <2>1, <2>2, <2>3
<1>9. CASE SwapScreens
  <2>1. UNCHANGED <<newVisit, lastReader, enabled, attempted, cancelled, deferred, idleStopped,
                    fromHome, cpuHeld, wanted, spent, overdue>>
    BY <1>9 DEF SwapScreens, visitVars, heapVars
  <2>2. /\ shown' \in BOOLEAN /\ redraw' \in BOOLEAN /\ released' \in BOOLEAN /\ held' \in BOOLEAN
        /\ rearm' \in BOOLEAN
    BY <1>9, Zenon DEF SwapScreens, PagePainted
  <2>. QED
    BY <2>1, <2>2
<1>10. CASE Toggle
  <2>1. UNCHANGED <<shown, newVisit, redraw, lastReader, attempted, rearm, held, released,
                    fromHome, wanted, spent, overdue>>
    BY <1>10 DEF Toggle, visitVars, buildVars, heapVars
  <2>2. enabled' \in BOOLEAN /\ idleStopped' \in BOOLEAN /\ deferred' \in BOOLEAN
    BY <1>10, Zenon DEF Toggle
  <2>3. cancelled' \in BOOLEAN /\ cpuHeld' \in BOOLEAN
    BY <1>10, Zenon DEF Toggle, Suspend
  <2>. QED
    BY <2>1, <2>2, <2>3
<1>11. CASE AskScreen
  BY <1>11 DEF AskScreen, buildVars, heapVars, visitVars
<1>12. CASE StartTask
  <2>1. UNCHANGED <<shown, newVisit, redraw, lastReader, enabled, attempted, cancelled,
                    idleStopped,
                    rearm, held, released, fromHome, overdue>>
    BY <1>12 DEF StartTask, BeginOwned, ReleaseCaches, CheckHeap, PortBegin, CheckStarted,
       FinishAttempt, StartUnchanged, sceneVars, visitVars, buildVars
  <2>2. CASE FinishAttempt
    <3>1. UNCHANGED <<wanted, spent>>
      BY <2>2 DEF FinishAttempt, heapVars
    <3>2. deferred' \in BOOLEAN /\ cpuHeld' \in BOOLEAN
      BY <2>2, Zenon DEF FinishAttempt, HoldAfterStart
    <3>. QED
      BY <2>1, <3>1, <3>2
  <2>3. CASE ~FinishAttempt
    <3>1. UNCHANGED <<deferred, cpuHeld>>
      BY <1>12, <2>3 DEF StartTask, BeginOwned, ReleaseCaches, CheckHeap, PortBegin, CheckStarted,
         StartUnchanged
    <3>2. \/ wanted' \in {FALSE, wanted} /\ spent' \in {FALSE, spent}
          \/ InPieces
      BY <1>12, <2>3 DEF StartTask, BeginOwned, ReleaseCaches, CheckHeap, PortBegin, CheckStarted,
         Inconclusive, heapVars
    <3>3. wanted' \in BOOLEAN /\ spent' \in BOOLEAN
      BY <3>2, Zenon DEF InPieces
    <3>. QED
      BY <2>1, <3>1, <3>3
  <2>. QED
    BY <2>2, <2>3
<1>13. CASE StopDone
  BY <1>13 DEF StopDone, sceneVars, visitVars, buildVars, heapVars
<1>14. CASE RenderSteps \/ TimeOuts
  <2>1. UNCHANGED <<newVisit, lastReader, enabled, attempted, idleStopped, rearm, fromHome,
                    wanted, spent>>
    BY <1>14 DEF RenderSteps, TimeOuts, BeginRender, Settled, SettleLate, Settle, LoadPage,
       AskRoom,
       HoldForBuild, CancelForBuild, StopForBuild, ReleasedForBuild, WaitForRoom, BuildChapter,
       Paint, StillUp, RefuseBuild, RenderUnchanged, visitVars, heapVars
  <2>2. redraw' \in {FALSE, redraw} /\ shown' \in {TRUE, shown}
    BY <1>14 DEF RenderSteps, TimeOuts, BeginRender, Settled, SettleLate, Settle, LoadPage,
       AskRoom,
       HoldForBuild, CancelForBuild, StopForBuild, ReleasedForBuild, WaitForRoom, BuildChapter,
       Paint, StillUp, RefuseBuild, RenderUnchanged
  <2>3. /\ cancelled' \in {TRUE, cancelled} /\ deferred' \in {FALSE, deferred}
        /\ held' \in {TRUE, held}
    BY <1>14 DEF RenderSteps, TimeOuts, BeginRender, Settled, SettleLate, Settle, LoadPage,
       AskRoom,
       HoldForBuild, CancelForBuild, StopForBuild, ReleasedForBuild, WaitForRoom, BuildChapter,
       Paint, StillUp, RefuseBuild, RenderUnchanged
  <2>4. released' \in BOOLEAN
    <3>1. CASE ReleasedForBuild \/ StillUp
      BY <3>1, Zenon DEF ReleasedForBuild, StillUp, Remembers
    <3>2. CASE ~ReleasedForBuild /\ ~StillUp
      BY <1>14, <3>2 DEF RenderSteps, TimeOuts, BeginRender, Settled, SettleLate, Settle,
         LoadPage,
         AskRoom, HoldForBuild, CancelForBuild, StopForBuild, WaitForRoom, BuildChapter, Paint,
         RefuseBuild
    <3>. QED
      BY <3>1, <3>2
  <2>5. cpuHeld' \in BOOLEAN
    <3>1. CASE StopForBuild
      BY <3>1, Zenon DEF StopForBuild
    <3>2. CASE ~StopForBuild
      BY <1>14, <3>2 DEF RenderSteps, TimeOuts, BeginRender, Settled, SettleLate, Settle,
         LoadPage,
         AskRoom, HoldForBuild, CancelForBuild, ReleasedForBuild, WaitForRoom, BuildChapter,
         Paint, StillUp, RefuseBuild
    <3>. QED
      BY <3>1, <3>2
  <2>6. overdue' \in BOOLEAN
    <3>1. CASE Settled
      BY <3>1, Zenon DEF Settled, Settle
    <3>2. CASE SettleLate
      BY <3>2, Zenon DEF SettleLate, Settle
    <3>3. CASE ~Settled /\ ~SettleLate
      BY <1>14, <3>3 DEF RenderSteps, TimeOuts, BeginRender, LoadPage, AskRoom, HoldForBuild,
         CancelForBuild, StopForBuild, ReleasedForBuild, WaitForRoom, BuildChapter, Paint,
         StillUp, RefuseBuild
    <3>. QED
      BY <3>1, <3>2, <3>3
  <2>7. /\ redraw' \in BOOLEAN /\ shown' \in BOOLEAN /\ cancelled' \in BOOLEAN
        /\ deferred' \in BOOLEAN /\ held' \in BOOLEAN
    BY <2>2, <2>3, Zenon
  <2>. QED
    BY <2>1, <2>4, <2>5, <2>6, <2>7
<1>15. CASE UNCHANGED vars
  BY <1>15 DEF vars, sceneVars, visitVars, buildVars, heapVars
<1>. QED
  BY <1>1, <1>2, <1>3, <1>4, <1>5, <1>6, <1>7, <1>8, <1>9, <1>10, <1>11, <1>12, <1>13, <1>14,
     <1>15
     DEF Next, MainLoop, Inputs

LEMMA BleTypesInvHolds == Spec => []BleTypeInv
<1>1. BleTypeInv /\ [Next]_vars => BleTypeInv'
  BY ScreensStep, FlagsStep, PlacesStep, CountsStep DEF BleTypeInv
<1>. QED
  BY <1>1, BleTypeInitInv, PTL DEF Spec

\* The radio's variables keep their types: no screen comes to the front that was
\* not asked for, and neither count passes its limit.
THEOREM BleTypes == Spec => []BleTypeOK
<1>1. BleTypeInv => BleTypeOK
  BY DEF BleTypeInv, ScreensOK, FlagsOK, PlacesOK, CountsOK, BleTypeOK
<1>. QED
  BY <1>1, BleTypesInvHolds, PTL

-----------------------------------------------------------------------------
(* Nobody waits for one who waits for him.                                  *)

\* The task of a start can take its next step; one that was just claimed is
\* still the main loop's to spawn.
StartCanStep ==
  \/ startPc \in {"begin", "heap", "up", "check", "won", "lost"}
  \/ startPc = "caches" /\ (TakesCaches \/ GivesUp)
  \/ startPc = "claimed" /\ mainPc = "claimed"

\* The render task waits with the lock in its hands only for a start that does
\* not need it, and the main loop runs a start itself only until that is over.
WaitsAreServed ==
  /\ BuildWaiting /\ InFlight => StartCanStep
  /\ mainPc = "sync" => InFlight

\* A claim is the main loop's, from winning attemptInFlight to the new task.
ClaimIsMains ==
  /\ startPc = "claimed" <=> mainPc = "claimed"
  /\ mainPc = "sync" => startPc # "none"

\* Each step keeps the claim with the main loop.
LEMMA ClaimStep == ClaimIsMains /\ [Next]_vars => ClaimIsMains'
<1> SUFFICES ASSUME ClaimIsMains, [Next]_vars PROVE ClaimIsMains'
  OBVIOUS
<1>. USE DEF ClaimIsMains
<1>1. CASE Tick \/ RestartIntoBook \/ FinishTick \/ ActivityLoop \/ ChangeScreen \/ SwapScreens
  BY <1>1 DEF Tick, RestartIntoBook, FinishTick, ActivityLoop, ChangeScreen, SwapScreens
<1>2. CASE ClaimStart \/ SpawnStart \/ SwitchOn
  BY <1>2 DEF ClaimStart, SpawnStart, SwitchOn, InFlight
<1>3. CASE Inputs
  BY <1>3 DEF Inputs, AskScreen, Toggle
<1>4. CASE StartTask
  BY <1>4 DEF StartTask, BeginOwned, ReleaseCaches, CheckHeap, PortBegin, CheckStarted,
     FinishAttempt, StartUnchanged
<1>5. CASE StopDone
  BY <1>5 DEF StopDone
<1>6. CASE RenderSteps \/ TimeOuts
  BY <1>6 DEF RenderSteps, TimeOuts, BeginRender, Settled, SettleLate, Settle, LoadPage, AskRoom,
     HoldForBuild, CancelForBuild, StopForBuild, ReleasedForBuild, WaitForRoom, BuildChapter,
     Paint, StillUp, RefuseBuild, RenderUnchanged
<1>7. CASE UNCHANGED vars
  BY <1>7 DEF vars
<1>. QED
  BY <1>1, <1>2, <1>3, <1>4, <1>5, <1>6, <1>7 DEF Next, MainLoop

\* settleStart() holds RenderLock while it waits, and a start takes that lock: it
\* never waits for a start that waits for it.  This is what lets the wait end
\* before its time limit.
THEOREM NoCircleOfWaits == Spec => []WaitsAreServed
<1>1. Init => ClaimIsMains
  BY DEF Init, ClaimIsMains
<1>2. BleTypeInv /\ ClaimIsMains => WaitsAreServed
  BY DEF BleTypeInv, PlacesOK, ClaimIsMains, WaitsAreServed, StartCanStep, GivesUp, InFlight
<1>. QED
  BY <1>1, <1>2, ClaimStep, BleTypesInvHolds, PTL DEF Spec

-----------------------------------------------------------------------------
(* A radio held back for a chapter build is not forgotten.                  *)

\* While the radio is held back, the render task is still about to answer the
\* build, or the glue remembers to give it back; and it remembers that of a book
\* in front alone, whose loop() and whose leaving do so.
HoldIsOwed ==
  /\ held => released \/ renderPc \in {"cancel", "stop", "stopping", "unhold"}
  /\ released => front = "reader"

\* Only a book's page has anything to do before it is painted.
PagesAreBooks == renderPc \notin {"idle", "paint"} => front = "reader"

LEMMA HoldStep == HoldIsOwed /\ PagesAreBooks /\ [Next]_vars => HoldIsOwed' /\ PagesAreBooks'
<1> SUFFICES ASSUME HoldIsOwed, PagesAreBooks, [Next]_vars PROVE HoldIsOwed' /\ PagesAreBooks'
  OBVIOUS
<1>. USE DEF HoldIsOwed, PagesAreBooks
<1>1. CASE Tick
  <2>1. UNCHANGED <<front, renderPc, released>> /\ (held' => held)
    BY <1>1 DEF Tick
  <2>. QED
    BY <2>1
<1>2. CASE ActivityLoop \/ SwapScreens
  <2>1. renderPc' = renderPc
    BY <1>2 DEF ActivityLoop, SwapScreens
  <2>2. SwapScreens => renderPc = "idle"
    BY DEF SwapScreens, LockFree
  <2>3. ActivityLoop => front' = front
    BY DEF ActivityLoop
  <2>4. CASE PagePainted
    <3>1. (held' => held /\ ~released) /\ ~released'
      BY <2>4, Zenon DEF PagePainted
    <3>. QED
      BY <1>2, <2>1, <2>2, <2>3, <3>1
  <2>5. CASE UNCHANGED <<released, held, rearm>> /\ (SwapScreens => front # "reader")
    BY <1>2, <2>1, <2>2, <2>3, <2>5
  <2>6. ActivityLoop => PagePainted \/ UNCHANGED <<released, held, rearm>>
    BY DEF ActivityLoop
  <2>7. SwapScreens =>
          PagePainted \/ (UNCHANGED <<released, held, rearm>> /\ front # "reader")
    BY DEF SwapScreens
  <2>8. CASE UNCHANGED <<released, held, front>>
    BY <2>1, <2>8
  <2>. QED
    BY <1>2, <2>3, <2>4, <2>5, <2>6, <2>7, <2>8
<1>3. CASE RestartIntoBook
  BY <1>3 DEF RestartIntoBook
<1>4. CASE ClaimStart \/ SpawnStart \/ FinishTick \/ SwitchOn \/ ChangeScreen \/ Inputs
  BY <1>4 DEF ClaimStart, SpawnStart, FinishTick, SwitchOn, ChangeScreen, Inputs, AskScreen,
     Toggle, sceneVars, buildVars
<1>5. CASE StartTask \/ StopDone
  BY <1>5 DEF StartTask, BeginOwned, ReleaseCaches, CheckHeap, PortBegin, CheckStarted,
     FinishAttempt, StopDone, StartUnchanged, sceneVars, buildVars
<1>6. CASE BeginRender \/ Settle(TRUE) \/ Settle(FALSE) \/ LoadPage \/ AskRoom \/ CancelForBuild
             \/ StopForBuild \/ WaitForRoom \/ BuildChapter \/ RefuseBuild
  <2>1. UNCHANGED <<front, held, released>>
    BY <1>6 DEF BeginRender, Settle, LoadPage, AskRoom, CancelForBuild, StopForBuild, WaitForRoom,
       BuildChapter, RefuseBuild, RenderUnchanged
  <2>2. renderPc' \notin {"idle", "paint"} => front = "reader"
    BY <1>6 DEF BeginRender, Settle, LoadPage, AskRoom, CancelForBuild, StopForBuild, WaitForRoom,
       BuildChapter, RefuseBuild
  <2>3. renderPc \in {"cancel", "stop", "stopping", "unhold"} =>
          renderPc' \in {"cancel", "stop", "stopping", "unhold"}
    BY <1>6 DEF BeginRender, LockFree, Settle, LoadPage, AskRoom, CancelForBuild, StopForBuild,
       WaitForRoom, BuildChapter, RefuseBuild
  <2>. QED
    BY <2>1, <2>2, <2>3
<1>7. CASE HoldForBuild
  <2>1. UNCHANGED <<front, released>> /\ renderPc = "gateHold" /\ renderPc' \in {"room", "cancel"}
    BY <1>7 DEF HoldForBuild, RenderUnchanged
  <2>2. renderPc' = "room" => held' = held
    BY <1>7 DEF HoldForBuild
  <2>. QED
    BY <2>1, <2>2
<1>8. CASE ReleasedForBuild \/ StillUp
  <2>1. Remembers("Released") /\ Remembers("StillUp")
    BY DEF Remembers
  <2>2. released' /\ UNCHANGED <<front, held>> /\ renderPc \notin {"idle", "paint"}
    BY <1>8, <2>1 DEF ReleasedForBuild, StillUp, RenderUnchanged
  <2>. QED
    BY <2>2
<1>9. CASE Paint
  BY <1>9 DEF Paint
<1>10. CASE UNCHANGED vars
  BY <1>10 DEF vars, sceneVars, buildVars
<1>. QED
  BY <1>1, <1>2, <1>3, <1>4, <1>5, <1>6, <1>7, <1>8, <1>9, <1>10
     DEF Next, MainLoop, RenderSteps, TimeOuts, Settled, SettleLate

\* Whether the stack stopped in time or not, and whenever a screen changes
\* meanwhile, someone is left to give the radio back: what lets a hold end.
THEOREM HoldIsGivenBack == Spec => []HoldIsOwed
<1>1. Init => HoldIsOwed /\ PagesAreBooks
  BY DEF Init, HoldIsOwed, PagesAreBooks
<1>. QED
  BY <1>1, HoldStep, PTL DEF Spec

-----------------------------------------------------------------------------
(* The dictionary's worker                                                  *)

\* Only the topmost screen looks up: a screen below another one is idle.
OneLooksUp ==
  /\ \A c \in Controllers : c < depth => state[c] = "Idle"
  /\ mainAt # "loop" => depth # Nobody

\* From the exchange on owner_ until the worker has published, the owner's
\* screen waits for an answer that is not there yet.
OwnerWaits ==
  /\ owner <= depth
  /\ workerAt # "sleeps" => job = owner /\ owner # Nobody
  /\ notified => workerAt = "sleeps" /\ owner # Nobody
  /\ mainAt = "notify" => workerAt = "sleeps" /\ ~notified /\ owner = depth
  /\ owner # Nobody /\ workerAt # "releases" => state[owner] = "LookingUp" /\ ~lookupDone[owner]

\* A lookup that is being started waits too, and for a worker that has nobody,
\* or only its own flag, left to clear.
StartIsFresh ==
  mainAt = "start" => /\ state[depth] = "LookingUp" /\ ~lookupDone[depth]
                      /\ owner = Nobody \/ workerAt = "releases"

FoundIsAsked == workerAt = "publishes" => found[job] = word[job]

LookupInv ==
  /\ LookupTypeOK /\ OneLooksUp /\ OwnerWaits /\ StartIsFresh
  /\ FoundIsAsked /\ AnswersThisLookup

LEMMA LookupInitInv == LookupInit => LookupInv
<1>. USE DepthAssumption DEF LookupInit, Controllers, Nobody
<1>1. LookupInit => LookupTypeOK
  BY DEF LookupTypeOK
<1>2. LookupInit => OneLooksUp /\ OwnerWaits /\ StartIsFresh /\ FoundIsAsked
  BY DEF OneLooksUp, OwnerWaits, StartIsFresh, FoundIsAsked
<1>3. LookupInit => AnswersThisLookup
  BY DEF AnswersThisLookup
<1>. QED
  BY <1>1, <1>2, <1>3 DEF LookupInv

\* The type invariant: every step keeps it.
LEMMA LookupTypeStep == LookupTypeOK /\ OneLooksUp /\ LookupNext => LookupTypeOK'
<1> SUFFICES ASSUME LookupTypeOK, OneLooksUp, LookupNext PROVE LookupTypeOK'
  OBVIOUS
<1>. USE DepthAssumption DEF LookupTypeOK, Controllers, Nobody, flagVars, MainUntouched
<1>1. CASE \E w \in Words : StartLookup(w)
  BY <1>1 DEF StartLookup, FreshDone
<1>2. CASE ClaimWorker
  BY <1>2 DEF ClaimWorker
<1>3. CASE NotifyWorker
  BY <1>3 DEF NotifyWorker
<1>4. CASE RequestCancel
  BY <1>4 DEF RequestCancel
<1>5. CASE CollectResult
  BY <1>5 DEF CollectResult, OpenChild
<1>6. CASE AnswerPrompt
  BY <1>6 DEF AnswerPrompt, OpenChild
<1>7. CASE BeginExit
  BY <1>7 DEF BeginExit
<1>8. CASE FinishExit
  BY <1>8 DEF FinishExit, OneLooksUp
<1>9. CASE OpenFirst
  BY <1>9 DEF OpenFirst
<1>10. CASE Wake
  BY <1>10 DEF Wake
<1>11. CASE Prepare
  BY <1>11 DEF Prepare
<1>12. CASE GiveUp
  BY <1>12 DEF GiveUp, Publishes
<1>13. CASE Locate
  BY <1>13 DEF Locate
<1>14. CASE Publish
  BY <1>14 DEF Publish
<1>15. CASE Release
  BY <1>15 DEF Release
<1>. QED
  BY <1>1, <1>2, <1>3, <1>4, <1>5, <1>6, <1>7, <1>8, <1>9, <1>10, <1>11, <1>12, <1>13,
     <1>14, <1>15 DEF LookupNext, Reader, Loop, Worker

\* What relates the two tasks, over a step of the main loop.
LEMMA MainStep ==
  ASSUME LookupInv, Reader \/ Loop
  PROVE  OneLooksUp' /\ OwnerWaits' /\ StartIsFresh' /\ FoundIsAsked' /\ AnswersThisLookup'
<1>. USE DepthAssumption
     DEF LookupInv, LookupTypeOK, OneLooksUp, OwnerWaits, StartIsFresh, FoundIsAsked,
         AnswersThisLookup, Controllers, Nobody, flagVars
<1>1. CASE \E w \in Words : StartLookup(w)
  BY <1>1 DEF StartLookup, FreshDone
<1>2. CASE ClaimWorker
  BY <1>2 DEF ClaimWorker
<1>3. CASE NotifyWorker
  BY <1>3 DEF NotifyWorker
<1>4. CASE RequestCancel
  BY <1>4 DEF RequestCancel
<1>5. CASE CollectResult
  <2>1. CASE OpenChild
    <3>1. depth + 1 \in Controllers /\ depth \in Controllers
      BY <1>5, <2>1 DEF CollectResult, OpenChild
    <3>2. owner = depth => workerAt = "releases"
      BY <1>5, <2>1 DEF CollectResult
    <3>3. /\ state'[depth] = "Idle" /\ state'[depth + 1] = "Idle"
          /\ \A c \in Controllers : c # depth /\ c # depth + 1 => state'[c] = state[c]
          /\ depth' = depth + 1
      BY <2>1, <3>1 DEF OpenChild
    <3>4. UNCHANGED <<word, found, flagVars, owner, notified, mainAt, workerAt,
                      job>> /\ mainAt = "loop"
      BY <1>5 DEF CollectResult
    <3>5. OneLooksUp'
      BY <3>1, <3>3, <3>4
    <3>6. OwnerWaits'
      BY <3>1, <3>2, <3>3, <3>4
    <3>7. StartIsFresh' /\ FoundIsAsked'
      BY <3>4
    <3>8. AnswersThisLookup'
      BY <3>1, <3>3, <3>4
    <3>. QED
      BY <3>5, <3>6, <3>7, <3>8
  <2>2. CASE UNCHANGED depth
    <3>1. PICK s \in {"Idle", "AltFormPrompt", "NotFound", "ReadError"} :
                 state' = [state EXCEPT ![depth] = s]
      BY <1>5, <2>2 DEF CollectResult, OpenChild
    <3>. QED
      BY <1>5, <2>2, <3>1 DEF CollectResult
  <2>. QED
    BY <1>5, <2>1, <2>2 DEF CollectResult
<1>6. CASE AnswerPrompt
  BY <1>6 DEF AnswerPrompt, OpenChild
<1>7. CASE BeginExit
  BY <1>7 DEF BeginExit
<1>8. CASE FinishExit
  BY <1>8 DEF FinishExit, OwnerGone
<1>9. CASE OpenFirst
  BY <1>9 DEF OpenFirst
<1>. QED
  BY <1>1, <1>2, <1>3, <1>4, <1>5, <1>6, <1>7, <1>8, <1>9 DEF Reader, Loop

\* And over a step of the worker.
LEMMA WorkerStep ==
  ASSUME LookupInv, Worker
  PROVE  OneLooksUp' /\ OwnerWaits' /\ StartIsFresh' /\ FoundIsAsked' /\ AnswersThisLookup'
<1>. USE DepthAssumption
     DEF LookupInv, LookupTypeOK, OneLooksUp, OwnerWaits, StartIsFresh, FoundIsAsked,
         AnswersThisLookup, Controllers, Nobody, flagVars, MainUntouched
<1>1. CASE Wake
  BY <1>1 DEF Wake
<1>2. CASE Prepare
  BY <1>2 DEF Prepare
<1>3. CASE GiveUp
  BY <1>3 DEF GiveUp, Publishes
<1>4. CASE Locate
  BY <1>4 DEF Locate
<1>5. CASE Publish
  BY <1>5 DEF Publish
<1>6. CASE Release
  BY <1>6 DEF Release
<1>. QED
  BY <1>1, <1>2, <1>3, <1>4, <1>5, <1>6 DEF Worker

LEMMA LookupInvStep == LookupInv /\ [LookupNext]_lookupVars => LookupInv'
<1> SUFFICES ASSUME LookupInv, [LookupNext]_lookupVars PROVE LookupInv'
  OBVIOUS
<1>1. CASE LookupNext
  BY <1>1, LookupTypeStep, MainStep, WorkerStep DEF LookupInv, LookupNext
<1>2. CASE UNCHANGED lookupVars
  BY <1>2 DEF LookupInv, LookupTypeOK, OneLooksUp, OwnerWaits, StartIsFresh, FoundIsAsked,
     AnswersThisLookup, lookupVars, flagVars
<1>. QED
  BY <1>1, <1>2

\* The variables keep their types, the depth of the screens its bound.
THEOREM LookupTypes == LookupSpec => []LookupTypeOK
<1>1. LookupInv => LookupTypeOK
  BY DEF LookupInv
<1>. QED
  BY <1>1, LookupInitInv, LookupInvStep, PTL DEF LookupSpec

\* waitForOwner(), owner_ and the flags keep the worker's bare pointer good:
\* it works only for a screen that is there and waits for this very answer.
THEOREM WorkerOwns == LookupSpec => []WorkerOwnsItsLookup
<1>1. LookupInv => WorkerOwnsItsLookup
  BY DEF LookupInv, OwnerWaits, WorkerOwnsItsLookup, AtWork
<1>. QED
  BY <1>1, LookupInitInv, LookupInvStep, PTL DEF LookupSpec

\* No answer of an earlier lookup is ever taken for that of a later one.
THEOREM AnswersMatch == LookupSpec => []AnswersThisLookup
<1>1. LookupInv => AnswersThisLookup
  BY DEF LookupInv
<1>. QED
  BY <1>1, LookupInitInv, LookupInvStep, PTL DEF LookupSpec
-----------------------------------------------------------------------------
(* No lookup is left lying.                                                 *)

\* Whoever is owner_ has the worker's notification on its way or the worker at
\* work, so waitForOwner() does not wait in vain; and a lookup without an answer
\* is its owner, unless its start is about to decide that.
WorkIsOnItsWay ==
  /\ owner # Nobody => mainAt = "notify" \/ notified \/ workerAt # "sleeps"
  /\ \A c \in Controllers :
       state[c] = "LookingUp" /\ ~lookupDone[c] => c = depth /\ (mainAt = "start" \/ owner = c)

\* What the worker lets go of has its answer, unless it is already asked for again.
AnswersBeforeRelease ==
  workerAt = "releases" /\ owner # Nobody /\ mainAt # "start" /\ state[owner] = "LookingUp" =>
    lookupDone[owner]

\* Over a step of the main loop.
LEMMA MainServes ==
  ASSUME LookupInv, WorkIsOnItsWay, AnswersBeforeRelease, Reader \/ Loop
  PROVE  WorkIsOnItsWay' /\ AnswersBeforeRelease'
<1>. USE DepthAssumption
     DEF LookupInv, LookupTypeOK, OneLooksUp, OwnerWaits, StartIsFresh, WorkIsOnItsWay,
         AnswersBeforeRelease, Controllers, Nobody, flagVars
<1>1. CASE \E w \in Words : StartLookup(w)
  BY <1>1 DEF StartLookup, FreshDone
<1>2. CASE ClaimWorker
  BY <1>2 DEF ClaimWorker
<1>3. CASE NotifyWorker
  BY <1>3 DEF NotifyWorker
<1>4. CASE RequestCancel
  BY <1>4 DEF RequestCancel
<1>5. CASE CollectResult
  BY <1>5 DEF CollectResult, OpenChild
<1>6. CASE AnswerPrompt
  BY <1>6 DEF AnswerPrompt, OpenChild
<1>7. CASE BeginExit
  BY <1>7 DEF BeginExit
<1>8. CASE FinishExit
  BY <1>8 DEF FinishExit, OwnerGone
<1>9. CASE OpenFirst
  BY <1>9 DEF OpenFirst
<1>. QED
  BY <1>1, <1>2, <1>3, <1>4, <1>5, <1>6, <1>7, <1>8, <1>9 DEF Reader, Loop

\* And over one of the worker.
LEMMA WorkerServes ==
  ASSUME LookupInv, WorkIsOnItsWay, AnswersBeforeRelease, Worker
  PROVE  WorkIsOnItsWay' /\ AnswersBeforeRelease'
<1>. USE DepthAssumption
     DEF LookupInv, LookupTypeOK, OneLooksUp, OwnerWaits, StartIsFresh, WorkIsOnItsWay,
         AnswersBeforeRelease, Controllers, Nobody, flagVars, MainUntouched
<1>1. CASE Wake
  BY <1>1 DEF Wake
<1>2. CASE Prepare
  BY <1>2 DEF Prepare
<1>3. CASE GiveUp
  BY <1>3 DEF GiveUp, Publishes
<1>4. CASE Locate
  BY <1>4 DEF Locate
<1>5. CASE Publish
  BY <1>5 DEF Publish
<1>6. CASE Release
  BY <1>6 DEF Release
<1>. QED
  BY <1>1, <1>2, <1>3, <1>4, <1>5, <1>6 DEF Worker

\* The exchange on owner_, the notification and the two flags lose no lookup,
\* whichever way the tasks interleave and however often one is cancelled: the
\* safety half of what LookupsEnd says of every instance.
THEOREM NoLostLookup == LookupSpec => []WorkIsOnItsWay
<1>1. LookupInit => WorkIsOnItsWay /\ AnswersBeforeRelease
  BY DepthAssumption DEF LookupInit, WorkIsOnItsWay, AnswersBeforeRelease, Nobody, Controllers
<1>2. /\ LookupInv /\ WorkIsOnItsWay /\ AnswersBeforeRelease
      /\ [LookupNext]_lookupVars
      => WorkIsOnItsWay' /\ AnswersBeforeRelease'
  <2>1. CASE UNCHANGED lookupVars
    BY <2>1 DEF lookupVars, flagVars, WorkIsOnItsWay, AnswersBeforeRelease
  <2>. QED
    BY <2>1, MainServes, WorkerServes DEF LookupNext
<1>. QED
  BY <1>1, <1>2, LookupInitInv, LookupInvStep, PTL DEF LookupSpec

-----------------------------------------------------------------------------
(* The two side by side                                                     *)

\* A behaviour of the composition is one of each part: what the other does
\* leaves a part's variables alone.
LEMMA TasksAreEach == TasksSpec => Spec /\ LookupSpec
<1>1. TasksInit => Init /\ LookupInit
  BY DEF TasksInit
<1>2. [TasksNext]_<<task, vars, lookupVars>> => [Next]_vars /\ [LookupNext]_lookupVars
  BY DEF TasksNext
<1>. QED
  BY <1>1, <1>2, PTL DEF TasksSpec, Spec, LookupSpec

\* So the types of both hold side by side.
THEOREM TaskTypes == TasksSpec => []TaskTypesOK
BY TasksAreEach, BleTypes, LookupTypes, PTL DEF TaskTypesOK

\* What the run of the composition checks of safety, for every value of its
\* constants.
THEOREM TasksSafe ==
  TasksSpec =>
    /\ [](BuildRunsAlone /\ PaintsApart /\ RadioOffOnUsb /\ OneRestartPerRadioUp)
    /\ [](WorkerOwnsItsLookup /\ AnswersThisLookup)
<1>1. Spec => [](BuildRunsAlone /\ PaintsApart /\ RadioOffOnUsb /\ OneRestartPerRadioUp)
  BY BuildAlone, PagesPaintApart, UsbFindsRadioOff, RestartsOnce, PTL
<1>2. LookupSpec => [](WorkerOwnsItsLookup /\ AnswersThisLookup)
  BY WorkerOwns, AnswersMatch, PTL
<1>. QED
  BY <1>1, <1>2, TasksAreEach, PTL
=============================================================================
