------------------------------ MODULE BleRadio ------------------------------
(***************************************************************************)
(* The Bluetooth page turner's radio: when it starts, stops, is retried,   *)
(* gives its heap to a chapter build and restarts the device.  Three tasks *)
(* share it without a lock:                                                *)
(*                                                                         *)
(*   main    the main loop: tick(), beforeScreenChange(), the screens      *)
(*   start   the task of one start: beginOwned() and finishAttempt()       *)
(*   render  the render task: settleStart() before a page and the gate     *)
(*           before a chapter build, both under RenderLock                 *)
(*                                                                         *)
(* Only main begins a start and only one is in flight.  A main step goes   *)
(* up to the next place where another task's move could tell: inside       *)
(* startAsync(), after it, before the screen changes and before the lock.  *)
(* A remote has been chosen and the heap's answers are free choices.       *)
(***************************************************************************)
EXTENDS Integers

CONSTANTS
  Screens,                \* the screens of this instance
  HomeStart,              \* homeStartLargest # 0: the S3 profile
  RetryLimit,             \* kRetryLimit
  RefusalsBeforeRestart   \* kRefusalsBeforeRestart

AllScreens == {"reader", "home", "pairing", "usb"}

ASSUME ScreensAssumption == {"reader", "home"} \subseteq Screens /\ Screens \subseteq AllScreens
ASSUME HomeStartAssumption == HomeStart \in BOOLEAN
ASSUME LimitsAssumption == RetryLimit \in Nat /\ RefusalsBeforeRestart \in Nat \ {0}

VARIABLES
  front, pending,    \* the screen in front, the one asked for ("none")
  shown,             \* the one in front has been painted on this visit
  newVisit,          \* the screen changed since the last tick
  redraw,            \* the book turned a page
  lastReader,        \* lastScene.where = Where::Reader
  enabled,           \* SETTINGS.ble.enabled
  mainPc, startPc, renderPc,
  radio,             \* the stack: "down", "up", "stopping", "stopped" (stopped, not yet collected)
  attempted, retries,    \* visit
  cancelled,         \* attemptCancelled
  deferred,          \* readerStartDeferred
  idleStopped,       \* radioIdleStopped
  rearm,             \* rearmRequested
  held,              \* heldForBuild
  released,          \* releasedForBuild (glue)
  fromHome,          \* startFromHome
  cpuHeld,           \* the CPU is kept at full speed
  inRow, wanted, spent,  \* heapTracker and its memo
  overdue,           \* the render task stopped waiting for a start
  restarts           \* history: device restarts since the radio was last up

sceneVars == <<front, pending, shown, newVisit, redraw, lastReader, enabled>>
visitVars == <<attempted, retries>>
heapVars == <<inRow, wanted, spent, restarts>>
buildVars == <<held, released, rearm, overdue>>
vars == <<sceneVars, mainPc, startPc, renderPc, radio, visitVars, cancelled, deferred,
          idleStopped, buildVars, fromHome, cpuHeld, heapVars>>

-----------------------------------------------------------------------------
(* What the tasks read of each other *)

Running == radio = "up"
Stopping == radio \in {"stopping", "stopped"}
InFlight == startPc # "none"                              \* attemptInFlight
BuildWaiting == renderPc \in {"settle", "gateSettle"}     \* buildWaiting
LockFree == renderPc = "idle"

BrokenCounts == shown \/ front = "pairing"

\* Does the screen in front count?  Not once another one has been asked for; a
\* book and Home count once they have been painted on this visit.
Counts == pending = "none" /\ (shown \/ front = "pairing")
Where == IF Counts /\ front # "usb" THEN front ELSE "elsewhere"

\* port::end(): the stack stops at once or in the background, and a stop that
\* has finished is collected by the next call.
EndsAt(r) ==
  CASE r = "up" -> {"down", "stopping"} [] r = "stopped" -> {"down"} [] OTHER -> {r}

\* suspend(0), all of it; render's is split below.  A start in flight is told to
\* give up and left alone.
Suspend ==
  /\ cancelled' = TRUE
  /\ IF InFlight THEN UNCHANGED <<radio, cpuHeld>>
     ELSE radio' \in EndsAt(radio) /\ cpuHeld' = (radio' # "down")
Suspended == ~InFlight /\ radio' = "down"

StopDone ==   \* the stack's own task
  /\ radio = "stopping" /\ radio' = "stopped"
  /\ UNCHANGED <<sceneVars, mainPc, startPc, renderPc, visitVars, cancelled, deferred,
                 idleStopped, buildVars, fromHome, cpuHeld, heapVars>>

-----------------------------------------------------------------------------
(* The main loop *)

\* radioVerdict(Phase::Idle): may this visit ask for the radio?
MayStart(where, isHeld, isIdle) ==
  \/ where = "pairing"
  \/ where = "home" /\ HomeStart /\ ~isIdle
  \/ where = "reader" /\ ~isHeld /\ ~isIdle

MustBeOff == ~enabled \/ front = "usb"

BrokenRetriesLeft(n) == n <= RetryLimit

\* A start refused for memory is retried this often, kRetryMs apart.
RetriesLeft(n) == n < RetryLimit

\* tick(), up to startAsync().  Each visit asks for the radio once.
Tick ==
  LET entered == Where = "reader" /\ (~lastReader \/ newVisit)
      over == newVisit \/ ~enabled \/ ~(Where = "reader" \/ (Where = "home" /\ HomeStart))
      held1 == held /\ ~newVisit
      rearmed == Where = "reader" /\ enabled /\ (entered \/ (rearm /\ ~idleStopped))
      idle1 == idleStopped /\ ~rearmed
      again == rearmed /\ ~InFlight /\ radio' # "up"
      attempted1 == attempted /\ ~over /\ ~again
      retries1 == IF over \/ again THEN 0 ELSE retries
      deferred1 == deferred /\ ~again
      mayRetry == /\ Where = "reader" /\ attempted1 /\ deferred1
                  /\ radio' # "up" /\ ~InFlight /\ ~idle1 /\ RetriesLeft(retries1)
      starts(tried) == ~tried /\ radio' \in {"down", "up"} /\ MayStart(Where, held1, idle1)
  IN /\ mainPc = "loop"
     /\ IF MustBeOff \/ Stopping THEN Suspend ELSE UNCHANGED <<radio, cpuHeld, cancelled>>
     /\ lastReader' = (Where = "reader") /\ newVisit' = FALSE
     /\ held' = held1 /\ rearm' = FALSE /\ idleStopped' = idle1 /\ deferred' = deferred1
     /\ IF MustBeOff
        THEN attempted' = attempted1 /\ retries' = retries1 /\ mainPc' = "tail" /\ UNCHANGED fromHome
        ELSE \E due \in BOOLEAN :   \* kRetryMs have passed
          /\ due => mayRetry
          /\ retries' = IF due THEN retries1 + 1
                        ELSE IF ~mayRetry /\ radio' = "up" THEN 0 ELSE retries1
          /\ LET tried == attempted1 /\ ~due IN
             /\ attempted' = (tried \/ starts(tried))
             /\ mainPc' = IF starts(tried) /\ radio' # "up" THEN "start" ELSE "tail"
             /\ fromHome' = IF mainPc' = "start" THEN Where = "home" ELSE fromHome
     /\ UNCHANGED <<front, pending, shown, redraw, enabled, startPc, renderPc, released, overdue, heapVars>>

\* startAsync(), up to winning attemptInFlight.
ClaimStart ==
  /\ mainPc = "start"
  /\ idleStopped' = FALSE
  /\ deferred' = InFlight
  /\ IF InFlight THEN mainPc' = "tail" /\ UNCHANGED startPc
     ELSE mainPc' = "claimed" /\ startPc' = "claimed"
  /\ UNCHANGED <<sceneVars, renderPc, radio, visitVars, cancelled, buildVars, fromHome,
                 cpuHeld, heapVars>>

SpawnStart ==
  /\ mainPc = "claimed" /\ mainPc' = "tail"
  /\ \/ /\ radio = "down"
        /\ startPc' = "begin" /\ cpuHeld' = TRUE
        /\ UNCHANGED deferred
     \/ /\ startPc' = "none"          \* the task was not created, or the radio is not down
        /\ deferred' = ~Running
        /\ cpuHeld' = (cpuHeld /\ radio # "down")
  /\ cancelled' = (cancelled /\ radio # "down")
  /\ UNCHANGED <<sceneVars, renderPc, radio, visitVars, idleStopped, buildVars, fromHome, heapVars>>

\* tick(), the rest: nothing linked for kIdleOffMs, stopForIdle().
FinishTick ==
  /\ mainPc = "tail" /\ mainPc' = "activity"
  /\ \/ UNCHANGED <<radio, cpuHeld, cancelled, idleStopped, deferred>>
     \/ /\ ~MustBeOff /\ ~InFlight /\ Running
        /\ idleStopped' = TRUE /\ deferred' = FALSE
        /\ Suspend
  /\ UNCHANGED <<sceneVars, startPc, renderPc, visitVars, buildVars, fromHome, heapVars>>

BrokenSpends == UNCHANGED spent

\* Tracker::restarting(): one restart until the radio has been up.
Spends == spent' = TRUE

\* restartIntoBook(): only the memo in RTC memory, the settings and the book in
\* front outlive it.
RestartIntoBook ==
  /\ mainPc = "tail" /\ wanted /\ ~MustBeOff /\ attempted /\ Where = "reader"
  /\ ~InFlight /\ radio = "down"
  /\ Spends
  /\ restarts' = restarts + 1
  /\ inRow' = 0 /\ wanted' = FALSE
  /\ front' = "reader" /\ pending' = "none" /\ shown' = FALSE /\ newVisit' = TRUE /\ redraw' = FALSE
  /\ lastReader' = FALSE /\ mainPc' = "loop" /\ renderPc' = "idle"
  /\ attempted' = FALSE /\ retries' = 0
  /\ cancelled' = FALSE /\ deferred' = FALSE /\ idleStopped' = FALSE
  /\ rearm' = FALSE /\ held' = FALSE /\ released' = FALSE /\ overdue' = FALSE
  /\ fromHome' = FALSE /\ cpuHeld' = FALSE
  /\ UNCHANGED <<enabled, startPc, radio>>

\* afterPagePaint() and afterPaint().
PagePainted ==
  /\ released' = FALSE
  /\ held' = (held /\ ~released)
  /\ rearm' = (rearm \/ (released /\ held))

\* The loop() of the screen in front.  A book's only tries the lock; its page is
\* turned only while no other is being painted.
ActivityLoop ==
  /\ mainPc = "activity" /\ mainPc' = "screen"
  /\ IF front = "reader" /\ LockFree /\ released
     THEN PagePainted ELSE UNCHANGED <<released, held, rearm>>
  /\ \E turns \in BOOLEAN :
       /\ turns => front = "reader" /\ shown /\ LockFree
       /\ redraw' = (redraw \/ turns)
  /\ UNCHANGED <<front, pending, shown, newVisit, lastReader, enabled, startPc, renderPc, radio,
                 visitVars, cancelled, deferred, idleStopped, overdue, fromHome, cpuHeld, heapVars>>

\* A screen asks for another one.
AskScreen ==
  /\ mainPc = "screen" /\ pending = "none"
  /\ pending' \in Screens \ {front}
  /\ UNCHANGED <<front, shown, newVisit, redraw, lastReader, enabled, mainPc, startPc, renderPc, radio,
                 visitVars, cancelled, deferred, idleStopped, buildVars, fromHome, cpuHeld, heapVars>>

\* The switch on the pairing screen: switchOn() starts the radio on the main
\* loop itself, switchOff() is a suspend.
Toggle ==
  /\ mainPc = "screen" /\ front = "pairing" /\ pending = "none"
  /\ enabled' = ~enabled
  /\ IF enabled'
     THEN mainPc' = "switchOn" /\ UNCHANGED <<radio, cpuHeld, cancelled, idleStopped, deferred>>
     ELSE mainPc' = "loop" /\ idleStopped' = FALSE /\ deferred' = FALSE /\ Suspend
  /\ UNCHANGED <<front, pending, shown, newVisit, redraw, lastReader, startPc, renderPc, visitVars,
                 buildVars, fromHome, heapVars>>

\* startSync(); the steps of the start follow on this task.
SwitchOn ==
  /\ mainPc = "switchOn"
  /\ fromHome' = FALSE /\ idleStopped' = FALSE /\ deferred' = FALSE
  /\ IF InFlight
     THEN mainPc' = "loop" /\ UNCHANGED <<startPc, cancelled, cpuHeld>>
     ELSE mainPc' = "sync" /\ startPc' = "begin" /\ cancelled' = FALSE /\ cpuHeld' = TRUE
  /\ UNCHANGED <<sceneVars, renderPc, radio, visitVars, buildVars, heapVars>>

BrokenKept == HomeStart /\ enabled /\ Running /\ ~InFlight

\* The radio that came up at Home stays for the book.
Kept == pending = "reader" /\ HomeStart /\ enabled /\ Running /\ ~InFlight

\* ActivityManager::loop(): beforeScreenChange(), then screenVisit moves on.
ChangeScreen ==
  /\ mainPc = "screen"
  /\ IF pending = "none" THEN mainPc' = "loop" /\ UNCHANGED <<radio, cpuHeld, cancelled>>
     ELSE IF Kept THEN mainPc' = "swap" /\ UNCHANGED <<radio, cpuHeld, cancelled>>
     ELSE Suspend /\ mainPc' = IF Suspended THEN "swap" ELSE "loop"
  /\ newVisit' = (newVisit \/ mainPc' = "swap")
  /\ UNCHANGED <<front, pending, shown, redraw, lastReader, enabled, startPc, renderPc, visitVars,
                 deferred, idleStopped, buildVars, fromHome, heapVars>>

\* Under RenderLock; a book that leaves runs afterPagePaint().
SwapScreens ==
  /\ mainPc = "swap" /\ LockFree
  /\ front' = pending /\ pending' = "none" /\ shown' = FALSE /\ redraw' = FALSE
  /\ mainPc' = IF front' = "pairing" /\ enabled THEN "switchOn" ELSE "loop"
  /\ IF front = "reader" THEN PagePainted ELSE UNCHANGED <<released, held, rearm>>
  /\ UNCHANGED <<newVisit, lastReader, enabled, startPc, renderPc, radio, visitVars, cancelled,
                 deferred, idleStopped, overdue, fromHome, cpuHeld, heapVars>>

-----------------------------------------------------------------------------
(* The start task (the main loop itself for switchOn) *)

StartUnchanged ==
  UNCHANGED <<sceneVars, mainPc, renderPc, visitVars, cancelled, deferred, idleStopped,
              buildVars, fromHome, cpuHeld>>

BeginOwned ==
  /\ startPc = "begin"
  /\ startPc' = IF cancelled \/ Stopping THEN "lost" ELSE IF Running THEN "won" ELSE "caches"
  /\ UNCHANGED <<radio, heapVars>> /\ StartUnchanged

BrokenGivesUp == cancelled
GivesUp == cancelled \/ BuildWaiting

BrokenTakesCaches == TRUE
TakesCaches == LockFree    \* a Try lock: a paint is never waited for

ReleaseCaches ==
  /\ startPc = "caches"
  /\ \/ TakesCaches /\ startPc' = "heap"
     \/ ~TakesCaches /\ GivesUp /\ startPc' = "lost"
  /\ UNCHANGED <<radio, heapVars>> /\ StartUnchanged

Inconclusive == inRow' = 0 /\ wanted' = FALSE /\ UNCHANGED <<spent, restarts>>

\* Tracker::refused(HeapInPieces)
InPieces ==
  /\ inRow' = IF inRow < RefusalsBeforeRestart THEN inRow + 1 ELSE inRow
  /\ wanted' = (wanted \/ (inRow' = RefusalsBeforeRestart /\ ~spent))
  /\ UNCHANGED <<spent, restarts>>

\* radioVerdict(Phase::BeforeStart); at Home a heap in pieces reads as low.
CheckHeap ==
  /\ startPc = "heap"
  /\ \/ startPc' = "up" /\ UNCHANGED heapVars
     \/ startPc' = "lost" /\ Inconclusive
     \/ startPc' = "lost" /\ ~fromHome /\ InPieces
  /\ UNCHANGED radio /\ StartUnchanged

PortBegin ==
  /\ startPc = "up"
  /\ \/ ~cancelled /\ radio' = "up" /\ startPc' = "check" /\ UNCHANGED heapVars
     \/ UNCHANGED radio /\ startPc' = "lost" /\ Inconclusive
  /\ StartUnchanged

\* radioVerdict(Phase::JustStarted)
CheckStarted ==
  /\ startPc = "check"
  /\ \/ /\ ~cancelled /\ startPc' = "won" /\ UNCHANGED radio
        /\ inRow' = 0 /\ wanted' = FALSE /\ spent' = FALSE /\ restarts' = 0
     \/ /\ startPc' = "lost" /\ radio' \in EndsAt(radio)
        /\ IF cancelled THEN Inconclusive ELSE InPieces
  /\ StartUnchanged

\* finishAttempt(): the CPU may slow down again when no radio is left.
HoldAfterStart == cpuHeld /\ radio # "down"

FinishAttempt ==
  /\ startPc \in {"won", "lost"} /\ startPc' = "none"
  /\ deferred' = IF mainPc = "sync" THEN deferred ELSE startPc = "lost" /\ ~cancelled
  /\ cpuHeld' = HoldAfterStart
  /\ mainPc' = IF mainPc = "sync" THEN "loop" ELSE mainPc
  /\ UNCHANGED <<sceneVars, renderPc, radio, visitVars, cancelled, idleStopped, buildVars,
                 fromHome, heapVars>>

-----------------------------------------------------------------------------
(* The render task *)

RenderUnchanged ==
  UNCHANGED <<front, pending, shown, newVisit, lastReader, enabled, mainPc, startPc, visitVars,
              idleStopped, rearm, fromHome, heapVars>>

\* It takes the lock; a book's page first lets a start in flight settle.
BeginRender ==
  /\ LockFree /\ (~shown \/ redraw)
  /\ redraw' = FALSE
  /\ renderPc' = IF front # "reader" THEN "paint" ELSE IF InFlight THEN "settle" ELSE "page"
  /\ UNCHANGED <<radio, cancelled, deferred, held, released, overdue, cpuHeld>>
  /\ RenderUnchanged

\* settleStart(): the wait ends, or kBuildReleaseTimeoutMs have passed.
Settle(late) ==
  /\ renderPc \in {"settle", "gateSettle"}
  /\ late <=> InFlight
  /\ renderPc' = IF renderPc = "settle" THEN "page" ELSE "gateHold"
  /\ overdue' = (overdue \/ late)
  /\ UNCHANGED <<radio, cancelled, deferred, held, released, cpuHeld>>
  /\ UNCHANGED redraw /\ RenderUnchanged
Settled == Settle(FALSE)
SettleLate == Settle(TRUE)

\* The page is in the section cache, or its chapter has to be built.
LoadPage ==
  /\ renderPc = "page"
  /\ renderPc' \in {"paint", "gate"}
  /\ UNCHANGED <<radio, cancelled, deferred, held, released, overdue, cpuHeld>>
  /\ UNCHANGED redraw /\ RenderUnchanged

\* makeRoomForChapterBuild() asks; beforeChapterBuild() up to settleStart().
AskRoom ==
  /\ renderPc = "gate"
  /\ renderPc' = IF released \/ ~enabled \/ idleStopped \/ held THEN "room"
                 ELSE IF InFlight THEN "gateSettle" ELSE "gateHold"
  /\ UNCHANGED <<radio, cancelled, deferred, held, released, overdue, cpuHeld>>
  /\ UNCHANGED redraw /\ RenderUnchanged

HoldForBuild ==
  /\ renderPc = "gateHold"
  /\ IF InFlight THEN renderPc' = "room" /\ UNCHANGED <<held, deferred>>
     ELSE renderPc' = "cancel" /\ held' = TRUE /\ deferred' = FALSE
  /\ UNCHANGED <<radio, cancelled, released, overdue, cpuHeld>>
  /\ UNCHANGED redraw /\ RenderUnchanged

\* suspend(0) in its steps, and again every 20 ms.
CancelForBuild ==
  /\ renderPc \in {"cancel", "stopping"} /\ renderPc' = "stop"
  /\ cancelled' = TRUE
  /\ UNCHANGED <<radio, deferred, held, released, overdue, cpuHeld>>
  /\ UNCHANGED redraw /\ RenderUnchanged

StopForBuild ==
  /\ renderPc = "stop"
  /\ IF InFlight THEN renderPc' = "stopping" /\ UNCHANGED <<radio, cpuHeld>>
     ELSE /\ radio' \in EndsAt(radio)
          /\ cpuHeld' = (cpuHeld \/ radio # "down")
          /\ renderPc' = IF radio' = "down" THEN "unhold" ELSE "stopping"
  /\ UNCHANGED <<cancelled, deferred, held, released, overdue>>
  /\ UNCHANGED redraw /\ RenderUnchanged

BrokenRemembers(result) == result = "Released"

\* What of beforeChapterBuild()'s answers makes the glue call afterPaint() later?
Remembers(result) == result # "NotHeld"

ReleasedForBuild ==
  /\ renderPc = "unhold" /\ renderPc' = "room"
  /\ cpuHeld' = FALSE /\ released' = Remembers("Released")
  /\ UNCHANGED <<radio, cancelled, deferred, held, overdue>>
  /\ UNCHANGED redraw /\ RenderUnchanged

StillUp ==    \* it did not stop within kBuildReleaseTimeoutMs
  /\ renderPc = "stopping" /\ renderPc' = "room"
  /\ released' = Remembers("StillUp")
  /\ UNCHANGED <<radio, cancelled, deferred, held, overdue, cpuHeld>>
  /\ UNCHANGED redraw /\ RenderUnchanged

BrokenBuildMayRun == radio = "down"

\* chapterBuildMayRun()
BuildMayRun == radio = "down" /\ ~InFlight

\* waitForBuildRoom(): asks again only once no start is left to wait for.
WaitForRoom ==
  /\ renderPc = "room"
  /\ \/ BuildMayRun /\ renderPc' = "build"
     \/ ~BuildMayRun /\ ~released /\ ~InFlight /\ renderPc' = "gate"
  /\ UNCHANGED <<radio, cancelled, deferred, held, released, overdue, cpuHeld>>
  /\ UNCHANGED redraw /\ RenderUnchanged

RefuseBuild ==    \* BUILD_ROOM_WAIT_MS have passed
  /\ renderPc = "room" /\ ~BuildMayRun
  /\ renderPc' = "paint"
  /\ UNCHANGED <<radio, cancelled, deferred, held, released, overdue, cpuHeld>>
  /\ UNCHANGED redraw /\ RenderUnchanged

BuildChapter ==
  /\ renderPc = "build" /\ renderPc' = "paint"
  /\ UNCHANGED <<radio, cancelled, deferred, held, released, overdue, cpuHeld>>
  /\ UNCHANGED redraw /\ RenderUnchanged

Paint ==
  /\ renderPc = "paint" /\ renderPc' = "idle"
  /\ shown' = TRUE /\ overdue' = FALSE
  /\ UNCHANGED <<front, pending, newVisit, redraw, lastReader, enabled, mainPc, startPc, radio, visitVars,
                 cancelled, deferred, idleStopped, rearm, held, released, fromHome, cpuHeld, heapVars>>

-----------------------------------------------------------------------------
Init ==
  /\ front = "home" /\ pending = "none" /\ shown = FALSE /\ newVisit = TRUE
  /\ redraw = FALSE /\ lastReader = FALSE
  /\ enabled \in BOOLEAN
  /\ mainPc = "loop" /\ startPc = "none" /\ renderPc = "idle" /\ radio = "down"
  /\ attempted = FALSE /\ retries = 0 /\ cancelled = FALSE /\ deferred = FALSE
  /\ idleStopped = FALSE /\ rearm = FALSE /\ held = FALSE /\ released = FALSE
  /\ fromHome = FALSE /\ cpuHeld = FALSE
  /\ inRow = 0 /\ wanted = FALSE /\ spent = FALSE /\ overdue = FALSE /\ restarts = 0

MainLoop ==
  \/ Tick \/ ClaimStart \/ SpawnStart \/ FinishTick \/ RestartIntoBook \/ ActivityLoop
  \/ SwitchOn \/ ChangeScreen \/ SwapScreens
Inputs == AskScreen \/ Toggle
StartTask ==
  BeginOwned \/ ReleaseCaches \/ CheckHeap \/ PortBegin \/ CheckStarted \/ FinishAttempt
RenderSteps ==
  \/ BeginRender \/ Settled \/ LoadPage \/ AskRoom \/ HoldForBuild \/ CancelForBuild \/ StopForBuild
  \/ ReleasedForBuild \/ WaitForRoom \/ BuildChapter \/ Paint
TimeOuts == SettleLate \/ StillUp \/ RefuseBuild

Next ==
  \/ MainLoop \/ Inputs \/ StartTask \/ StopDone
  \/ RenderSteps \/ TimeOuts

Spec == Init /\ [][Next]_vars

\* Every task is scheduled, the stack's stop ends, and the main loop gets the
\* lock it waits for.  Of the time limits only the last, on the wait for room, is
\* relied on: a start won just after AskRoom or StopForBuild looked stands at the
\* lock and nobody tells it to give up, so the build waits for it in vain.
FairSpec ==
  /\ Spec
  /\ WF_vars(MainLoop) /\ WF_vars(StartTask) /\ WF_vars(RenderSteps) /\ WF_vars(StopDone)
  /\ WF_vars(RefuseBuild)
  /\ SF_vars(SwapScreens)

-----------------------------------------------------------------------------
(* Properties *)

\* The radio's state is well formed.
BleTypeOK ==
  /\ front \in Screens /\ pending \in Screens \cup {"none"}
  /\ {shown, newVisit, redraw, lastReader, enabled, attempted, cancelled, deferred, idleStopped, rearm,
      held, released, fromHome, cpuHeld, wanted, spent, overdue} \subseteq BOOLEAN
  /\ mainPc \in {"loop", "start", "claimed", "tail", "activity", "screen", "switchOn", "sync", "swap"}
  /\ startPc \in {"none", "claimed", "begin", "caches", "heap", "up", "check", "won", "lost"}
  /\ renderPc \in {"idle", "settle", "page", "gate", "gateSettle", "gateHold", "cancel", "stop",
                   "stopping", "unhold", "room", "build", "paint"}
  /\ radio \in {"down", "up", "stopping", "stopped"}
  /\ retries \in 0..RetryLimit /\ inRow \in 0..RefusalsBeforeRestart /\ restarts \in Nat

TakesHeap == startPc \in {"heap", "up", "check"}

\* A chapter is never built beside a radio, nor beside a start that is past the
\* render lock, however the waits end: two takers of the heap abort the firmware.
BuildRunsAlone == renderPc = "build" => radio = "down" /\ ~TakesHeap

\* Nor is a page laid out and painted while the stack comes up, unless the render
\* task has waited its 3 s for that start.
PaintsApart == renderPc \in {"page", "paint"} /\ front = "reader" /\ ~overdue => ~TakesHeap

\* While the USB host has the card there is neither radio nor start.
RadioOffOnUsb == front = "usb" => radio = "down" /\ ~InFlight

\* A heap in pieces restarts the device at most once until the radio was up.
OneRestartPerRadioUp == restarts <= 1

\* A render task that waits for a start to settle goes on without its time limit:
\* a start at the lock the render task holds gives up.
SettleEnds == renderPc \in {"settle", "gateSettle"} ~> renderPc \notin {"settle", "gateSettle"}

\* A radio held back for a chapter build is given back once the page is painted,
\* and at the latest with the book.
HoldEnds == held ~> ~held

\* The screen asked for comes, whatever the radio was doing.
ChangeGoesThrough == pending # "none" ~> pending = "none"
=============================================================================
