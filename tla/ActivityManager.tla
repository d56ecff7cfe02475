-------------------------- MODULE ActivityManager --------------------------
(***************************************************************************)
(* The screen manager of the reader: src/src/activities/ActivityManager.   *)
(*                                                                         *)
(* Two FreeRTOS tasks of equal priority share it.  The main task runs      *)
(* main.cpp's loop(): shortcuts first, then ActivityManager::loop(), which *)
(* calls the current activity and afterwards carries out the screen change *)
(* the activity asked for.  The render task sleeps on a task notification, *)
(* takes the rendering mutex and paints the current activity.              *)
(*                                                                         *)
(* An activity object is a member of Activities; what it does inside one   *)
(* of its callbacks is any sequence of the calls the manager offers.       *)
(* Counters that are only compared (screenVisit, paintedVisit) and         *)
(* notification counts that are only cleared are kept as Booleans.         *)
(***************************************************************************)
EXTENDS Naturals, Sequences

CONSTANTS
  Activities,      \* activity objects
  NoActivity,      \* the null pointer
  Homes,           \* isHomeActivity()
  Readers,         \* canSnapshotForSleepOverlay(): the book readers
  Overlays,        \* requiresFreshBackdrop()
  LightPanels,     \* the overlays opened by the frontlight gesture
  SleepScreens,    \* SleepActivity
  Exclusives,      \* requiresExclusiveStorageLoop(): the USB drive
  Alerts,          \* AlertActivity
  AlertRaisers,    \* screens that set APP_STATE.hasPendingAlert
  FileTransfers,   \* CrossPointWebServerActivity, which leads to the USB drive
  Pickers,         \* screens that ask for another screen in their loop() only
  GlobalPushes,    \* pushed by a main.cpp shortcut without a result handler
  LockedWriters,   \* change what they display only under RenderLock
  NightMode        \* SETTINGS.screenInverted

ASSUME NoActivityAssumption == NoActivity \notin Activities
ASSUME KindsAssumption ==
  /\ Homes \subseteq Activities
  /\ Readers \subseteq Activities
  /\ Overlays \subseteq Activities
  /\ LightPanels \subseteq Overlays
  /\ SleepScreens \subseteq Activities
  /\ Exclusives \subseteq Activities
  /\ Alerts \subseteq Activities
  /\ AlertRaisers \subseteq Activities
  /\ FileTransfers \subseteq Activities
  /\ Pickers \subseteq Activities
  /\ GlobalPushes \subseteq Activities
  /\ LockedWriters \subseteq Activities
  /\ LockedWriters \cap Homes = {}   \* Home never waits for its own frame
  /\ Homes \cap (Overlays \cup SleepScreens \cup Exclusives) = {}
  /\ Readers \cap (Overlays \cup SleepScreens \cup Exclusives) = {}
  \* UsbDriveActivity, CrossPointWebServerActivity and SleepActivity are classes
  \* of their own, and main.cpp's loop() pushes none of them.
  /\ Exclusives \cap (SleepScreens \cup FileTransfers) = {}
  /\ FileTransfers \cap (Homes \cup Readers \cup SleepScreens) = {}
  /\ (Homes \cup Readers \cup FileTransfers \cup Exclusives \cup SleepScreens)
       \cap (LightPanels \cup Alerts \cup GlobalPushes) = {}
  \* NetworkModeSelectionActivity is neither Home nor a book, and raises no
  \* alert, nor does what file transfer leads to.
  /\ Pickers \cap (Homes \cup Readers) = {}
  /\ AlertRaisers \cap (FileTransfers \cup Exclusives \cup LightPanels
                          \cup Alerts \cup GlobalPushes) = {}
ASSUME NightModeAssumption == NightMode \in BOOLEAN

VARIABLES
  \* main task
  pc,              \* where the main task stands
  resume,          \* where requestUpdateAndWait() returns to
  sleeping,        \* deepSleepInProgress
  held,            \* the overlay local of restoreBackdropBehindCurrentOverlay
  result,          \* the closed screen whose pendingResult the handler gets
  \* ActivityManager
  current,         \* currentActivity
  stack,           \* stackActivities, topmost first
  pendingAction,   \* pendingAction
  pendingActivity, \* pendingActivity
  handler,         \* per activity: the child its resultHandler was made for
  requestedUpdate, \* requestedUpdate
  waiter,          \* waitingTaskHandle # nullptr
  restoredNeedsRender, \* restoredActivityNeedsRender
  visitPainted,    \* paintedVisit = screenVisit
  \* render task
  mutex,           \* renderingMutex: its holder
  renderPc,        \* where the render task stands
  painting,        \* the activity whose render() is running
  visitCaptured,   \* visitBeingPainted = screenVisit
  notified,        \* the render task's pending notification
  woken,           \* the main task's pending notification
  \* display, card and application state
  inverted,        \* display.setInverted
  detached,        \* Storage.beginUsbDrive has the card
  alert,           \* APP_STATE.hasPendingAlert
  \* history, read by the properties only
  entered,         \* onEnter has run and onExit has not
  stale,           \* changed since the last render that could see the change
  panel,           \* the full-screen activity whose pixels the panel holds
  seen,            \* painted at least once since onEnter
  seenNow,         \* current has been painted since it became current
  dropped          \* a pending activity was discarded unopened

mainVars == <<pc, resume, sleeping, held, result>>
screenVars == <<current, stack, pendingAction, pendingActivity, handler>>
renderVars == <<mutex, renderPc, painting, visitCaptured>>
signalVars == <<requestedUpdate, waiter, notified, woken>>
paintVars == <<restoredNeedsRender, visitPainted>>
deviceVars == <<inverted, detached, alert>>
historyVars == <<entered, stale, panel, seen, seenNow, dropped>>
vars == <<mainVars, screenVars, renderVars, signalVars, paintVars, deviceVars,
          historyVars>>

-----------------------------------------------------------------------------
(* Vocabulary.  A definition named Broken... is a plausible mistake in the   *)
(* one that follows it; no behaviour uses it.                               *)

MaybeActivity == Activities \cup {NoActivity}
Actions == {"none", "push", "pop", "replace"}

\* The main task runs activity code: the calls below are its choices.
Callbacks == {"setup", "input", "exclusive", "gesture", "activity", "handler",
              "onEnter"}
\* The main task runs ActivityManager's own code.
ManagerSteps == {"pass", "route", "dispatch", "backdrop", "pop", "goHome",
                 "popped", "swap", "swapAsk", "swapBack", "usbPaint",
                 "usbDetach", "sleepPolarity", "sleepDraw", "waiting",
                 "asleep"}
Resumes == Callbacks \cup {"none", "swap", "swapBack", "usbDetach"}

InStack == {stack[i] : i \in DOMAIN stack}
\* Every activity object that exists, and those the user can come back to.
OnScreenStack == ({current, held} \cup InStack) \ {NoActivity}
Live == OnScreenStack \cup ({pendingActivity} \ {NoActivity})

Roots == Homes \cup Readers \cup FileTransfers \cup Exclusives
Children == Activities \ (Roots \cup SleepScreens \cup LightPanels)

\* The end of a pass of ActivityManager::loop(): back to main.cpp's loop(), or
\* from goToSleep() into deep sleep.
PassReturn == IF sleeping THEN "asleep" ELSE "input"

BrokenMutexIsFree == TRUE   \* a Try lock whose ownsLock() is not looked at

\* xSemaphoreTake(renderingMutex) succeeds.
MutexIsFree == mutex = "free"

\* A RenderLock is a local of the callback: its destructor gives the mutex.
ReleaseScope == mutex' = IF mutex = "main" THEN "free" ELSE mutex

BrokenPushBack(a) == stack' = Append(stack, a)   \* inserted below the others

BrokenPopBack == UNCHANGED stack   \* read with back(), never popped

BrokenPendingTaken == UNCHANGED pendingAction /\ pendingActivity' = NoActivity

BrokenMayWait == ~waiter   \* no check of the mutex holder

BrokenAnswerWaiter == waiter' = FALSE /\ UNCHANGED woken   \* cleared, not notified

BrokenFlushRequest == requestedUpdate' = FALSE /\ UNCHANGED notified

\* stackActivities.push_back() and pop_back().
PushBack(a) == stack' = <<a>> \o stack
PopBack == stack' = Tail(stack)

\* The pending change has been taken over.
PendingTaken == pendingAction' = "none" /\ pendingActivity' = NoActivity

\* The critical section of requestUpdateAndWait(): nobody waits yet, and the
\* caller does not hold the mutex the render needs.
MayWait == mutex # "main" /\ ~waiter

\* The render task's critical section and xTaskNotify(waiter).
AnswerWaiter ==
  /\ waiter' = FALSE
  /\ woken' = (woken \/ waiter)

\* requestedUpdate.exchange(false), then xTaskNotify(renderTaskHandle).
FlushRequest ==
  /\ notified' = (notified \/ requestedUpdate)
  /\ requestedUpdate' = FALSE

-----------------------------------------------------------------------------
(* Boot.  setup() enters the first screen directly (replaceActivity() with  *)
(* no current activity) and runs its onEnter().  Deep sleep ends in a       *)
(* reboot, and the USB drive ends in a restart.                             *)

Init ==
  /\ pc = "setup" /\ resume = "none" /\ sleeping = FALSE /\ held = NoActivity
  /\ result = NoActivity
  /\ current \in Homes \cup Readers
  /\ stack = <<>> /\ pendingAction = "none" /\ pendingActivity = NoActivity
  /\ handler = [a \in Activities |-> NoActivity]
  /\ requestedUpdate = FALSE /\ waiter = FALSE
  /\ restoredNeedsRender = FALSE /\ visitPainted = FALSE
  /\ mutex = "free" /\ renderPc = "idle" /\ painting = NoActivity
  /\ visitCaptured = FALSE /\ notified = FALSE /\ woken = FALSE
  /\ inverted = FALSE /\ detached = FALSE /\ alert = FALSE
  /\ entered = {current} /\ stale = {current} /\ panel = NoActivity
  /\ seen = {} /\ seenNow = FALSE /\ dropped = FALSE

Reboot ==
  /\ pc' = "setup" /\ resume' = "none" /\ sleeping' = FALSE
  /\ held' = NoActivity /\ result' = NoActivity
  /\ current' \in Homes \cup Readers
  /\ stack' = <<>> /\ pendingAction' = "none" /\ pendingActivity' = NoActivity
  /\ handler' = [a \in Activities |-> NoActivity]
  /\ requestedUpdate' = FALSE /\ waiter' = FALSE
  /\ restoredNeedsRender' = FALSE /\ visitPainted' = FALSE
  /\ mutex' = "free" /\ renderPc' = "idle" /\ painting' = NoActivity
  /\ visitCaptured' = FALSE /\ notified' = FALSE /\ woken' = FALSE
  /\ inverted' = FALSE /\ detached' = FALSE /\ alert' = FALSE
  /\ entered' = {current'} /\ stale' = {current'} /\ panel' = NoActivity
  /\ seen' = {} /\ seenNow' = FALSE /\ dropped' = FALSE

Wake == pc = "asleep" /\ Reboot

UsbRestart == pc = "exclusive" /\ Reboot

-----------------------------------------------------------------------------
(* What an activity may do inside a callback, in any order, any number of   *)
(* times.                                                                   *)

\* The USB drive's screen gets no input but its own loop().
InCallback == pc \in Callbacks /\ ~(pc = "input" /\ current \in Exclusives)

TakeRenderLock ==
  /\ InCallback /\ MutexIsFree
  /\ mutex' = "main"
  /\ UNCHANGED <<mainVars, screenVars, renderPc, painting, visitCaptured,
                 signalVars, paintVars, deviceVars, historyVars>>

DropRenderLock ==
  /\ InCallback /\ mutex = "main"
  /\ mutex' = "free"
  /\ UNCHANGED <<mainVars, screenVars, renderPc, painting, visitCaptured,
                 signalVars, paintVars, deviceVars, historyVars>>

\* The activity changes a member its render() reads.
ChangeState ==
  /\ InCallback
  /\ current \in LockedWriters => mutex = "main"
  /\ stale' = stale \cup {current}
  /\ UNCHANGED <<mainVars, screenVars, renderVars, signalVars, paintVars,
                 deviceVars, entered, panel, seen, seenNow, dropped>>

\* What one of the activities in busy does may leave an alert to be shown.  The
\* model has as many alert screens as Alerts: with none left, none is raised.
MayRaiseAlert(busy) ==
  \/ UNCHANGED alert
  \/ busy \cap AlertRaisers # {} /\ Alerts \ Live # {} /\ alert' = TRUE

RaiseAlert ==
  /\ InCallback /\ current \in AlertRaisers /\ Alerts \ Live # {}
  /\ alert' = TRUE
  /\ UNCHANGED <<mainVars, screenVars, renderVars, signalVars, paintVars,
                 inverted, detached, historyVars>>

RequestUpdate ==
  /\ InCallback
  /\ requestedUpdate' = TRUE
  /\ UNCHANGED <<mainVars, screenVars, renderVars, waiter, notified, woken,
                 paintVars, deviceVars, historyVars>>

RequestUpdateNow ==
  /\ InCallback
  /\ notified' = TRUE
  /\ UNCHANGED <<mainVars, screenVars, renderVars, requestedUpdate, waiter,
                 woken, paintVars, deviceVars, historyVars>>

\* requestUpdateAndWait() past its critical section.  A caller holding the
\* RenderLock, or a second waiter, is rejected and nothing changes.
RequestUpdateAndWait(from) ==
  /\ MayWait
  /\ waiter' = TRUE /\ notified' = TRUE
  /\ pc' = "waiting" /\ resume' = from
  /\ UNCHANGED <<sleeping, held, result, screenVars, renderVars, requestedUpdate, woken,
                 paintVars, deviceVars, historyVars>>

AskRender == InCallback /\ RequestUpdateAndWait(pc)

\* The end of requestUpdateAndWait(): ulTaskNotifyTake() returns.
RenderAnswered ==
  /\ pc = "waiting" /\ woken
  /\ woken' = FALSE
  /\ pc' = resume /\ resume' = "none"
  /\ UNCHANGED <<sleeping, held, result, screenVars, renderVars, requestedUpdate,
                 waiter, notified, paintVars, deviceVars, historyVars>>

\* popActivity() that leaves pendingActivity in place.
BrokenRequest(action, a) ==
  /\ pendingAction' = action
  /\ pendingActivity' = IF action = "pop" THEN pendingActivity ELSE a
  /\ UNCHANGED <<renderVars, signalVars, paintVars, deviceVars, historyVars>>

\* pushActivity(), popActivity() and replaceActivity() all discard what an
\* earlier call left pending.
Request(action, a) ==
  /\ pendingAction' = action
  /\ pendingActivity' = a
  /\ dropped' = (dropped \/ pendingActivity # NoActivity)
  /\ UNCHANGED <<renderVars, signalVars, paintVars, deviceVars, entered, stale,
                 panel, seen, seenNow>>

StartActivityForResult(c) ==
  /\ handler' = [handler EXCEPT ![current] = c]
  /\ Request("push", c)
  /\ UNCHANGED <<current, stack>>

\* The USB drive asks for no other screen: it ends in a restart.  A picker does
\* so in its loop() only.
Requesting ==
  /\ InCallback /\ current \notin Exclusives
  /\ current \in Pickers => pc \in {"activity", "input"}

\* Of the shortcuts only a book's or Home's own act while a change is pending.
\* None of the screens file transfer leads to raises an alert.
OpenChild(c) ==
  /\ Requesting /\ c \in Children \ (Live \cup Alerts)
  /\ c \in AlertRaisers => FileTransfers \cap OnScreenStack = {}
  /\ pc = "input" => pendingAction = "none" \/ current \in Homes \cup Readers
  /\ StartActivityForResult(c)
  /\ UNCHANGED mainVars

\* The USB drive is opened by file transfer's handler, given the result of its
\* list of modes: a picker.
OpenRoot(c) ==
  /\ Requesting /\ pc # "setup" /\ c \in Roots \ Live
  /\ c \in Exclusives =>
       current \in FileTransfers /\ pc = "handler" /\ result \in Pickers
  /\ Request("replace", c)
  /\ UNCHANGED <<mainVars, current, stack, handler>>

Finish ==
  /\ Requesting /\ pc \notin {"setup", "input"}
  /\ Request("pop", NoActivity)
  /\ UNCHANGED <<mainVars, current, stack, handler>>

\* startGlobalSyncProgress(): the shortcut is refused inside a book.
GlobalShortcut(c) ==
  /\ pc = "input" /\ current \notin Readers \cup Exclusives
  /\ c \in GlobalPushes \ Live
  /\ Request("push", c)
  /\ UNCHANGED <<mainVars, current, stack, handler>>

\* A drawer saved before a restart is reopened once its owner is entered.
RestoreLightPanel(c) ==
  /\ pc = "onEnter" /\ pendingAction = "none"
  /\ current \in Homes \cup Readers /\ c \in LightPanels \ Live
  /\ StartActivityForResult(c)
  /\ UNCHANGED mainVars

Callback ==
  \/ TakeRenderLock \/ DropRenderLock \/ ChangeState \/ RaiseAlert
  \/ RequestUpdate \/ RequestUpdateNow \/ AskRender
  \/ Finish
  \/ \E c \in Activities : OpenChild(c) \/ OpenRoot(c) \/ GlobalShortcut(c)
                             \/ RestoreLightPanel(c)

-----------------------------------------------------------------------------
(* A pass of ActivityManager::loop(): which callback runs.                  *)

BeginPass ==
  /\ pc = "input"
  /\ pc' = "pass"
  /\ ReleaseScope
  /\ UNCHANGED <<resume, sleeping, held, result, screenVars, renderPc, painting,
                 visitCaptured, signalVars, paintVars, deviceVars, historyVars>>

\* enterDeepSleep(), from a shortcut, the idle timeout or an activity's own
\* Sleep button: goToSleep() replaces the screen and runs one nested pass.
EnterDeepSleep(s) ==
  /\ pc \in {"input", "activity", "gesture"} /\ ~sleeping
  /\ current \notin Exclusives /\ mutex # "main"
  /\ s \in SleepScreens \ Live
  /\ sleeping' = TRUE
  /\ Request("replace", s)
  /\ pc' = "pass"
  /\ UNCHANGED <<resume, held, result, current, stack, handler>>

Goto(label) ==
  /\ pc' = label
  /\ UNCHANGED <<resume, sleeping, held, result, screenVars, renderVars, signalVars,
                 paintVars, deviceVars, historyVars>>

\* The part of loop() after the exclusive branch.
Routing == pc = "route" \/ (pc = "pass" /\ current \notin Exclusives)

RouteToExclusive == pc = "pass" /\ current \in Exclusives /\ Goto("exclusive")
RouteToGesture == Routing /\ Goto("gesture")
RouteToActivity == Routing /\ Goto("activity")

\* The frontlight gesture pushes the panel and ends the pass.
FrontlightGesture(c) ==
  /\ Routing
  /\ current \notin Overlays /\ c \in LightPanels \ Live
  /\ StartActivityForResult(c)
  /\ pc' = PassReturn
  /\ UNCHANGED <<resume, sleeping, held, result>>

\* handleGlobalHomeGesture(): back one screen where there is a Home key, Home
\* elsewhere.  The activity's loop() is skipped but the pass goes on.
HomeGesture ==
  /\ Routing
  /\ pendingAction = "none" /\ current \notin Homes
  /\ \/ stack # <<>> /\ Request("pop", NoActivity)
     \/ \E h \in Homes \ Live : Request("replace", h)
  /\ pc' = "dispatch"
  /\ UNCHANGED <<resume, sleeping, held, result, current, stack, handler>>

\* The callback returns, and with it every RenderLock it still held.
ReturnTo(from, to) ==
  /\ pc = from /\ pc' = to
  /\ ReleaseScope
  /\ UNCHANGED <<resume, sleeping, held, result, screenVars, renderPc, painting,
                 visitCaptured, signalVars, paintVars, deviceVars, historyVars>>

SetupDone == ReturnTo("setup", "input")
ActivityDone == ReturnTo("activity", "dispatch")
OnEnterDone == ReturnTo("onEnter", "dispatch")
\* With the handler's return the result it was given is gone, too.
HandlerDone ==
  /\ pc = "handler" /\ pc' = "popped"
  /\ result' = NoActivity
  /\ ReleaseScope
  /\ UNCHANGED <<resume, sleeping, held, screenVars, renderPc, painting,
                 visitCaptured, signalVars, paintVars, deviceVars, historyVars>>

\* A gesture that was consumed returns before the dispatch loop.
GestureDone == ReturnTo("gesture", PassReturn)

ExclusiveDone ==
  /\ pc = "exclusive"
  /\ ReleaseScope
  /\ \/ /\ pendingAction = "none" /\ pc' = PassReturn
        /\ FlushRequest
     \/ /\ pendingAction # "none" /\ pc' = "route"
        /\ UNCHANGED <<notified, requestedUpdate>>
  /\ UNCHANGED <<resume, sleeping, held, result, screenVars, renderPc, painting,
                 visitCaptured, waiter, woken, paintVars, deviceVars,
                 historyVars>>

CallbackReturns ==
  \/ SetupDone \/ ActivityDone \/ HandlerDone \/ OnEnterDone \/ GestureDone
  \/ ExclusiveDone

Pass ==
  \/ BeginPass \/ RouteToExclusive \/ RouteToGesture \/ RouteToActivity
  \/ HomeGesture
  \/ \E c \in Activities : EnterDeepSleep(c) \/ FrontlightGesture(c)
  \/ CallbackReturns

-----------------------------------------------------------------------------
(* The dispatch loop: while (pendingAction != None).                        *)

\* bleturner::beforeScreenChange() says the radio start is still in flight:
\* the change waits for a later pass.
DeferScreenChange ==
  /\ pc = "dispatch" /\ pendingAction # "none"
  /\ Goto(PassReturn)

\* A render is queued already: it is trusted to come first.
BrokenNeedsBackdrop ==
  /\ pendingAction = "push" /\ pendingActivity \in Overlays
  /\ restoredNeedsRender /\ ~notified

\* An overlay keeps the pixels below it, which a closed screen may have left.
NeedsBackdrop ==
  pendingAction = "push" /\ pendingActivity \in Overlays /\ restoredNeedsRender

\* Any push waits for the render of the restored screen to happen by itself.
BrokenChangeStep ==
  IF pendingAction = "pop" THEN "pop"
  ELSE IF pendingAction = "push" /\ restoredNeedsRender THEN "dispatch"
  ELSE "swap"

ChangeStep ==
  IF pendingAction = "pop" THEN "pop"
  ELSE IF NeedsBackdrop THEN "backdrop" ELSE "swap"

StartScreenChange ==
  /\ pc = "dispatch" /\ pendingAction # "none"
  /\ visitPainted' = FALSE /\ visitCaptured' = FALSE
  /\ pc' = ChangeStep
  /\ UNCHANGED <<resume, sleeping, held, result, screenVars, mutex, renderPc, painting,
                 signalVars, restoredNeedsRender, deviceVars, historyVars>>

\* A restored screen under a new overlay is painted first.
PaintBackdrop == pc = "backdrop" /\ RequestUpdateAndWait("swap")

\* A screen that becomes current has to be painted.
NowCurrent(a) ==
  /\ current' = a
  /\ stale' = stale \cup {a}
  /\ seenNow' = FALSE

\* The objects in gone are exited and deleted, and with them their
\* resultHandler.  The USB drive's onExit() takes the card back.
Destroyed(gone) ==
  /\ seen' = seen \ gone
  /\ detached' = (detached /\ gone \cap Exclusives = {})
  /\ MayRaiseAlert(gone)
  /\ handler' = [a \in Activities |->
                   IF a \in gone THEN NoActivity ELSE handler[a]]

\* The pop of the last screen: goHome() runs with no current activity.
PopLast ==
  /\ pc = "pop" /\ MutexIsFree /\ stack = <<>>
  /\ Destroyed({current})
  /\ entered' = entered \ {current}
  /\ current' = NoActivity /\ seenNow' = FALSE
  /\ stale' = stale \ {current}
  /\ pendingAction' = "none"
  /\ pc' = "goHome"
  /\ UNCHANGED <<resume, sleeping, held, result, stack, pendingActivity, renderVars,
                 signalVars, paintVars, inverted, panel, dropped>>

\* replaceActivity() without a current activity: no lock, no dispatch.
GoHomeDirectly ==
  /\ pc = "goHome"
  /\ \E h \in Homes \ Live : NowCurrent(h) /\ entered' = entered \cup {h}
  /\ pc' = "onEnter"
  /\ UNCHANGED <<resume, sleeping, held, result, stack, pendingAction, pendingActivity,
                 handler, renderVars, signalVars, paintVars, deviceVars, panel,
                 seen, dropped>>

\* The parent keeps its handler for the next child.
BrokenMoveOutHandler(parent) ==
  handler' = [handler EXCEPT ![current] = NoActivity]

\* The closed screen's handler dies with it; the parent's is moved out, so that
\* the call below may register another.
MoveOutHandler(parent) ==
  handler' = [handler EXCEPT ![current] = NoActivity, ![parent] = NoActivity]

\* The pop of a screen with one below it: the result handler of the restored
\* screen, if it has one, is moved out and called without the lock.
PopToParent ==
  /\ pc = "pop" /\ MutexIsFree /\ stack # <<>>
  /\ LET parent == Head(stack) IN
       /\ current' = parent
       /\ seenNow' = FALSE
       /\ stale' = (stale \ {current}) \cup {parent}
       /\ entered' = entered \ {current}
       /\ seen' = seen \ {current}
       /\ MoveOutHandler(parent)
       /\ IF handler[parent] # NoActivity
          THEN pc' = "handler" /\ result' = current
          ELSE pc' = "popped" /\ UNCHANGED result
  /\ PopBack
  /\ pendingAction' = "none"
  /\ restoredNeedsRender' = TRUE
  /\ requestedUpdate' = (requestedUpdate \/ current \in LightPanels)
  /\ MayRaiseAlert({current})
  /\ UNCHANGED <<resume, sleeping, held, pendingActivity, renderVars, waiter,
                 notified, woken, visitPainted, inverted, detached, panel,
                 dropped>>

\* A restored screen is left to ask for its redraw itself.
BrokenAfterPop ==
  /\ pc = "popped"
  /\ ~(pendingAction = "none" /\ current \in Overlays /\ stack # <<>>)
  /\ Goto("dispatch")

\* After the handler: the restored screen is to be redrawn, unless the handler
\* has asked for another change.
AfterPop ==
  /\ pc = "popped"
  /\ ~(pendingAction = "none" /\ current \in Overlays /\ stack # <<>>)
  /\ requestedUpdate' = (requestedUpdate \/ pendingAction = "none")
  /\ pc' = "dispatch"
  /\ UNCHANGED <<resume, sleeping, held, result, screenVars, renderVars, waiter,
                 notified, woken, paintVars, deviceVars, historyVars>>

\* restoreBackdropBehindCurrentOverlay(): the screen under a restored overlay
\* is current while it is repainted.
LiftOverlay ==
  /\ pc = "popped" /\ MutexIsFree
  /\ pendingAction = "none" /\ current \in Overlays /\ stack # <<>>
  /\ held' = current
  /\ NowCurrent(Head(stack))
  /\ PopBack
  /\ pc' = "swapAsk"
  /\ UNCHANGED <<resume, sleeping, result, pendingAction, pendingActivity, handler,
                 renderVars, signalVars, paintVars, deviceVars, entered, panel,
                 seen, dropped>>

PaintUnderOverlay == pc = "swapAsk" /\ RequestUpdateAndWait("swapBack")

LowerOverlay ==
  /\ pc = "swapBack" /\ MutexIsFree
  /\ PushBack(current)
  /\ NowCurrent(held)
  /\ held' = NoActivity
  /\ requestedUpdate' = TRUE
  /\ pc' = "dispatch"
  /\ UNCHANGED <<resume, sleeping, result, pendingAction, pendingActivity, handler,
                 renderVars, waiter, notified, woken, paintVars, deviceVars,
                 entered, panel, seen, dropped>>

\* Where the onEnter() of the new screen begins.
OnEnterOf(a) ==
  IF a \in SleepScreens THEN "sleepPolarity"
  ELSE IF a \in Exclusives THEN "usbPaint" ELSE "onEnter"

SwapPush ==
  /\ pc = "swap" /\ MutexIsFree /\ pendingAction = "push"
  /\ PushBack(current)
  /\ NowCurrent(pendingActivity)
  /\ entered' = entered \cup {pendingActivity}
  /\ PendingTaken
  /\ pc' = OnEnterOf(pendingActivity)
  /\ UNCHANGED <<resume, sleeping, held, result, handler, renderVars, signalVars,
                 paintVars, deviceVars, panel, seen, dropped>>

BrokenAllScreens == {current}   \* the stack is cleared without onExit()

AllScreens == {current} \cup InStack

\* Replace destroys the current screen and every screen below it.
SwapReplace ==
  /\ pc = "swap" /\ MutexIsFree /\ pendingAction = "replace"
  /\ Destroyed(AllScreens)
  /\ entered' = (entered \ AllScreens) \cup {pendingActivity}
  /\ stale' = (stale \ AllScreens) \cup {pendingActivity}
  /\ stack' = <<>>
  /\ current' = pendingActivity /\ seenNow' = FALSE
  /\ PendingTaken
  /\ pc' = OnEnterOf(pendingActivity)
  /\ UNCHANGED <<resume, sleeping, held, result, renderVars, signalVars, paintVars,
                 inverted, panel, dropped>>

\* The alert is shown again at the end of every pass.
BrokenFinishPass ==
  /\ pc = "dispatch" /\ pendingAction = "none"
  /\ \/ ~alert /\ UNCHANGED <<pendingAction, pendingActivity>>
     \/ /\ alert /\ pendingAction' = "push"
        /\ pendingActivity' \in Alerts \ Live
  /\ FlushRequest
  /\ pc' = PassReturn
  /\ UNCHANGED <<resume, sleeping, held, result, current, stack, handler, renderVars,
                 waiter, woken, paintVars, deviceVars, historyVars>>

\* The end of a pass: a waiting alert is pushed, the request is handed over.
FinishPass ==
  /\ pc = "dispatch" /\ pendingAction = "none"
  /\ \/ ~alert /\ UNCHANGED <<alert, pendingAction, pendingActivity>>
     \/ /\ alert /\ alert' = FALSE
        /\ pendingAction' = "push"
        /\ pendingActivity' \in Alerts \ Live
  /\ FlushRequest
  /\ pc' = PassReturn
  /\ UNCHANGED <<resume, sleeping, held, result, current, stack, handler, renderVars,
                 waiter, woken, paintVars, inverted, detached, historyVars>>

\* SleepActivity::onEnter(): Quick Resume keeps the polarity of the screen it
\* retains, every other sleep screen is drawn in normal polarity.
SleepQuickResume ==
  /\ pc = "sleepPolarity"
  /\ inverted' = NightMode
  /\ pc' = "dispatch"
  /\ UNCHANGED <<resume, sleeping, held, result, screenVars, renderVars, signalVars,
                 paintVars, detached, alert, historyVars>>

SleepSetPolarity ==
  /\ pc = "sleepPolarity"
  /\ inverted' = FALSE
  /\ pc' = "sleepDraw"
  /\ UNCHANGED <<resume, sleeping, held, result, screenVars, renderVars, signalVars,
                 paintVars, detached, alert, historyVars>>

SleepDraw == pc = "sleepDraw" /\ Goto("dispatch")

\* UsbDriveActivity::onEnter(): paint the instructions, then hand over the card.
UsbPaint == pc = "usbPaint" /\ RequestUpdateAndWait("usbDetach")

UsbDetach ==
  /\ pc = "usbDetach"
  /\ detached' \in BOOLEAN
  /\ requestedUpdate' = TRUE
  /\ pc' = "onEnter"
  /\ UNCHANGED <<resume, sleeping, held, result, screenVars, renderVars, waiter,
                 notified, woken, paintVars, inverted, alert, historyVars>>

Dispatch ==
  \/ DeferScreenChange \/ StartScreenChange \/ PaintBackdrop
  \/ PopLast \/ GoHomeDirectly \/ PopToParent
  \/ AfterPop \/ LiftOverlay \/ PaintUnderOverlay \/ LowerOverlay
  \/ SwapPush \/ SwapReplace \/ FinishPass
  \/ SleepQuickResume \/ SleepSetPolarity \/ SleepDraw
  \/ UsbPaint \/ UsbDetach

-----------------------------------------------------------------------------
(* The render task.                                                         *)

RenderTake ==
  /\ renderPc = "idle" /\ notified
  /\ notified' = FALSE
  /\ renderPc' = "locking"
  /\ UNCHANGED <<mainVars, screenVars, mutex, painting, visitCaptured,
                 requestedUpdate, waiter, woken, paintVars, deviceVars,
                 historyVars>>

\* currentActivity is read with the mutex held.
RenderLock ==
  /\ renderPc = "locking" /\ MutexIsFree
  /\ mutex' = "render"
  /\ painting' = current
  /\ \/ /\ current # NoActivity
        /\ inverted' = NightMode
        /\ visitCaptured' = TRUE
        /\ stale' = stale \ {current}
        /\ renderPc' = "painting"
     \/ /\ current = NoActivity
        /\ renderPc' = "publish"
        /\ UNCHANGED <<inverted, visitCaptured, stale>>
  /\ UNCHANGED <<mainVars, screenVars, signalVars, paintVars, detached, alert,
                 entered, panel, seen, seenNow, dropped>>

\* render(std::move(lock)) gives the mutex up when it has painted.
BrokenRenderPaint ==
  /\ renderPc = "painting"
  /\ renderPc' = "publish" /\ mutex' = "free"
  /\ visitPainted' = visitCaptured /\ restoredNeedsRender' = FALSE
  /\ panel' = IF painting \in Overlays THEN panel ELSE painting
  /\ seen' = seen \cup {painting} /\ seenNow' = TRUE
  /\ MayRaiseAlert({painting})
  /\ UNCHANGED <<mainVars, screenVars, painting, visitCaptured, signalVars,
                 inverted, detached, entered, stale, dropped>>

\* An overlay keeps the pixels around it.
RenderPaint ==
  /\ renderPc = "painting"
  /\ renderPc' = "publish"
  /\ visitPainted' = visitCaptured
  /\ restoredNeedsRender' = FALSE
  /\ panel' = IF painting \in Overlays THEN panel ELSE painting
  /\ seen' = seen \cup {painting}
  /\ seenNow' = TRUE
  /\ MayRaiseAlert({painting})
  /\ UNCHANGED <<mainVars, screenVars, mutex, painting, visitCaptured,
                 signalVars, inverted, detached, entered, stale, dropped>>

RenderPublish ==
  /\ renderPc = "publish"
  /\ renderPc' = "release"
  /\ painting' = NoActivity
  /\ visitCaptured' = FALSE
  /\ AnswerWaiter
  /\ UNCHANGED <<mainVars, screenVars, mutex, requestedUpdate, notified,
                 paintVars, deviceVars, historyVars>>

RenderRelease ==
  /\ renderPc = "release"
  /\ renderPc' = "idle"
  /\ mutex' = "free"
  /\ UNCHANGED <<mainVars, screenVars, painting, visitCaptured, signalVars,
                 paintVars, deviceVars, historyVars>>

Render ==
  RenderTake \/ RenderLock \/ RenderPaint \/ RenderPublish \/ RenderRelease

-----------------------------------------------------------------------------
Next ==
  \/ Callback \/ Pass \/ Dispatch \/ RenderAnswered
  \/ Render
  \/ Wake \/ UsbRestart

Spec == Init /\ [][Next]_vars

-----------------------------------------------------------------------------
(* Invariants.                                                              *)

TasksTypeOK ==
  /\ pc \in Callbacks \cup ManagerSteps /\ resume \in Resumes
  /\ mutex \in {"free", "main", "render"}
  /\ renderPc \in {"idle", "locking", "painting", "publish", "release"}
  /\ held \in MaybeActivity /\ result \in MaybeActivity
  /\ painting \in MaybeActivity

ScreensTypeOK ==
  /\ current \in MaybeActivity /\ stack \in Seq(Activities)
  /\ pendingAction \in Actions /\ pendingActivity \in MaybeActivity
  /\ handler \in [Activities -> MaybeActivity]
  /\ entered \subseteq Activities /\ stale \subseteq Activities
  /\ seen \subseteq Activities /\ panel \in MaybeActivity

FlagsTypeOK ==
  /\ sleeping \in BOOLEAN /\ requestedUpdate \in BOOLEAN
  /\ waiter \in BOOLEAN /\ notified \in BOOLEAN /\ woken \in BOOLEAN
  /\ restoredNeedsRender \in BOOLEAN /\ visitPainted \in BOOLEAN
  /\ visitCaptured \in BOOLEAN /\ inverted \in BOOLEAN
  /\ detached \in BOOLEAN /\ alert \in BOOLEAN
  /\ seenNow \in BOOLEAN /\ dropped \in BOOLEAN

\* Every variable has its type: the tasks' control, the screens, the flags.
TypeOK == TasksTypeOK /\ ScreensTypeOK /\ FlagsTypeOK

\* While render() runs the mutex is the render task's and the object it runs on
\* is still the current one: the main task never deletes it underneath.
NoUseAfterFree ==
  renderPc = "painting" => mutex = "render" /\ painting = current

\* A pending push or replace has an activity to open: the dispatch loop, which
\* has no branch for a missing one, cannot spin.
PendingIsOpenable ==
  (pendingAction \in {"push", "replace"}) <=> (pendingActivity # NoActivity)

\* Every activity object has one owner: the stack, currentActivity, the overlay
\* set aside or pendingActivity.
OneOwner ==
  /\ \A i, j \in DOMAIN stack : stack[i] = stack[j] => i = j
  /\ current \notin InStack /\ held \notin InStack
  /\ pendingActivity \notin InStack
  /\ held # NoActivity => held # current
  /\ pendingActivity # NoActivity => pendingActivity \notin {current, held}

\* onEnter() and onExit() are paired: exactly the activities on screen or under
\* it have been entered and not exited, whatever was discarded while pending.
LifecyclePaired == entered = OnScreenStack

\* The main task asks for a render, or waits for the mutex, only without holding
\* the mutex: it cannot wait for itself.
NoSelfDeadlock == mutex = "main" => pc \in Callbacks

\* A blocked requestUpdateAndWait() has been answered, or its answer is on the
\* way: a render that is still to publish will find it registered.
WakeupOnTheWay ==
  pc = "waiting" =>
    \/ woken
    \/ waiter /\ (notified \/ renderPc \in {"locking", "painting", "publish"})

\* When requestUpdateAndWait() returns to an activity that writes what it shows
\* under RenderLock, the frame painted last has every change made before the call.
WaitShowsNewState ==
  pc = "waiting" /\ woken /\ current \in LockedWriters => current \notin stale

\* While the USB host has the card its screen stays in front, and nothing is on
\* the way to replace it: an alert raised by the book that was open before, too,
\* has been shown by then.  Only a pass of deep sleep whose sleep screen was
\* discarded for another screen can find the card handed over.
CardOwnerStaysAlone ==
  detached => /\ current \in Exclusives /\ pendingAction = "none"
              /\ sleeping => dropped

\* When the user can act on an overlay, the panel holds the pixels of the screen
\* below it, not those of a full-screen child that was closed.
FreshBackdrop ==
  /\ current \in Overlays /\ stack # <<>>
  /\ Head(stack) \in seen \ Overlays
  /\ pc = "input" /\ pendingAction = "none"
  => panel = Head(stack)

(* Action properties.                                                       *)

\* A result is delivered to the handler that was registered for the activity
\* that produced it, as long as no pending activity was ever discarded.
ResultReachesItsHandler ==
  [][pc = "pop" /\ pc' = "handler" /\ ~dropped
       => handler[current'] = current]_vars

-----------------------------------------------------------------------------
(* Liveness.                                                                *)

\* The manager's own steps, once begun, are carried through.
ManagerRuns ==
  \/ PaintBackdrop \/ PopLast \/ GoHomeDirectly \/ PopToParent \/ AfterPop
  \/ LiftOverlay \/ PaintUnderOverlay \/ LowerOverlay \/ SwapPush \/ SwapReplace
  \/ FinishPass \/ SleepQuickResume \/ SleepSetPolarity \/ SleepDraw
  \/ UsbPaint \/ UsbDetach \/ RenderAnswered

\* Both tasks are scheduled; a callback returns however often it asks for a
\* render in between; not every pass is a gesture; a radio start in flight
\* settles; and the main task, which sleeps between passes with the mutex free,
\* does not keep the render task from the mutex for ever.
Fairness ==
  /\ WF_vars(RenderTake \/ RenderPaint \/ RenderPublish \/ RenderRelease)
  /\ SF_vars(RenderLock)
  /\ WF_vars(ManagerRuns)
  /\ SF_vars(CallbackReturns)
  /\ SF_vars(BeginPass \/ RouteToExclusive)
  /\ SF_vars(RouteToActivity)
  /\ SF_vars(StartScreenChange)

FairSpec == Spec /\ Fairness

\* Every requestUpdateAndWait() returns.
WaitReturns == (pc = "waiting") ~> (pc # "waiting")

\* A screen change that was asked for is carried out.
ChangeHappens == (pendingAction # "none") ~> (pendingAction = "none")

\* A screen that changed and asked to be redrawn is redrawn, unless the user has
\* left it before.
RequestIsPainted ==
  \A a \in Activities :
    (current = a /\ a \in stale /\ (requestedUpdate \/ notified))
      ~> (a \notin stale \/ current # a)

\* A screen uncovered by a pop is redrawn without having asked for it, unless
\* the user has left it before.
RestoredIsRepainted ==
  \A a \in Activities :
    (pc = "popped" /\ current = a /\ restoredNeedsRender)
      ~> (~restoredNeedsRender \/ current # a)

-----------------------------------------------------------------------------
(* The abstract screens.                                                    *)

\* Whatever is being moved aside is still in front of the user.
InFront(a) == IF a = NoActivity THEN <<>> ELSE <<a>>
ShownScreens == InFront(held) \o InFront(current) \o stack

Nav == INSTANCE NavStack WITH
         Screens <- Activities, Homes <- Homes, Roots <- Homes \cup Readers,
         screens <- ShownScreens

\* Every step of both tasks opens, closes or replaces screens as NavStack allows,
\* or leaves them as they are.
ImplementsNavStack == Nav!Spec

=============================================================================
