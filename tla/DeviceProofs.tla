---------------------------- MODULE DeviceProofs ----------------------------
(***************************************************************************)
(* Theorems about ActivityManager and what it drives: the USB drive's      *)
(* screen stays alone while the host has the card, and an overlay lies     *)
(* over the pixels of the screen below it.                                 *)
(***************************************************************************)
EXTENDS ScreenProofs

-----------------------------------------------------------------------------
(* What both proofs read of IInv, SInv and the kinds of screens.            *)

\* Which kinds no screen is two of, screen by screen.
LEMMA KindsApart ==
  ASSUME NEW a
  PROVE  /\ a \in Exclusives =>
              /\ a \in Roots /\ a \notin SleepScreens /\ a \notin FileTransfers
              /\ a \notin Homes \cup Readers /\ a \notin AlertRaisers
         /\ a \in SleepScreens => a \notin Homes \cup Readers /\ a \notin FileTransfers
         /\ a \in FileTransfers => a \in Roots /\ a \notin AlertRaisers
         /\ a \in Roots \cup SleepScreens =>
              a \notin LightPanels \cup Alerts \cup GlobalPushes \cup Children
         /\ a \in AlertRaisers =>
              a \notin LightPanels \cup Alerts \cup GlobalPushes
         /\ a \in Pickers => a \notin Homes \cup Readers
         /\ a \in Homes \cup Readers => a \in Roots /\ a \notin Overlays
  BY KindsAssumption DEF Roots, Children

\* The screens entered are those owned by the stack, currentActivity and the
\* overlay set aside; a pending one is none of them.
LEMMA Owners ==
  IInv /\ SInv =>
    /\ current \in MaybeActivity /\ pendingActivity \in MaybeActivity
    /\ held \in MaybeActivity /\ stack \in Seq(Activities)
    /\ current # NoActivity => current \in entered
    /\ held # NoActivity => held \in entered /\ held # current
    /\ stack # <<>> =>
         Head(stack) \in Activities /\ Head(stack) \in entered /\ Head(stack) # current
    /\ pendingActivity \notin entered
    /\ OnScreenStack = entered
    /\ held = NoActivity /\ current # NoActivity => entered = AllScreens
    /\ NoActivity \notin entered
<1> SUFFICES ASSUME IInv, SInv
             PROVE  /\ current \in MaybeActivity /\ pendingActivity \in MaybeActivity
                    /\ held \in MaybeActivity /\ stack \in Seq(Activities)
                    /\ current # NoActivity => current \in entered
                    /\ held # NoActivity => held \in entered /\ held # current
                    /\ stack # <<>> => /\ Head(stack) \in Activities
                                       /\ Head(stack) \in entered
                                       /\ Head(stack) # current
                    /\ pendingActivity \notin entered
                    /\ OnScreenStack = entered
                    /\ held = NoActivity /\ current # NoActivity =>
                         entered = AllScreens
                    /\ NoActivity \notin entered
  OBVIOUS
<1> USE NoActivityAssumption
<1>1. /\ current \in MaybeActivity /\ pendingActivity \in MaybeActivity
      /\ held \in MaybeActivity /\ stack \in Seq(Activities)
  BY DEF IInv, TypeOK, TasksTypeOK, ScreensTypeOK
<1>2. entered = ({current, held} \cup InStack) \ {NoActivity}
  BY DEF SInv, LifecyclePaired, OnScreenStack
<1>3. OnScreenStack = entered
  BY <1>2 DEF OnScreenStack
<1>4. stack # <<>> => /\ Head(stack) \in Activities /\ Head(stack) \in InStack
  BY <1>1, Popped DEF InStack
<1>5. current \notin InStack /\ (held # NoActivity => held # current)
  BY DEF SInv, OneOwner
<1>6. pendingActivity \notin entered
  BY <1>2 DEF SInv, OneOwner
<1>7. NoActivity \notin InStack
  BY <1>1 DEF InStack
<1>. QED
  BY <1>1, <1>2, <1>3, <1>4, <1>5, <1>6, <1>7 DEF AllScreens, MaybeActivity

-----------------------------------------------------------------------------
(* The card: the inductive invariant.                                       *)

\* What a pending change may be.
PendingKinds ==
  /\ pendingAction = "push" => pendingActivity \notin Roots \cup SleepScreens
  /\ pendingAction = "push" /\ pendingActivity \in AlertRaisers =>
       \A f \in FileTransfers : f \notin entered
  /\ pendingActivity \in SleepScreens => sleeping
  /\ pendingActivity \in Exclusives => ~alert /\ current \in FileTransfers
  /\ held # NoActivity => pendingAction = "none"

\* While file transfer is on screen, or under it, no screen can raise an alert.
RaisersOK ==
  \A f \in FileTransfers, a \in AlertRaisers : f \in entered => a \notin entered

\* An alert raised before file transfer was entered is shown before its list of
\* modes can answer: the list asks for nothing before the end of its first pass.
PickersOK ==
  \A f \in FileTransfers, a \in Pickers :
    alert /\ f \in entered /\ a \in entered =>
      /\ a = current /\ pendingAction = "none"
      /\ pc \in {"onEnter", "dispatch"} \/ (pc = "waiting" /\ resume = "onEnter")

\* So no alert waits when the answer arrives.
ResultOK ==
  /\ pc = "handler" \/ (pc = "waiting" /\ resume = "handler")
  /\ current \in FileTransfers /\ result \in Pickers
  => ~alert

\* The USB drive's screen is never covered, and only its own code runs.
CardOK ==
  /\ \A a \in Exclusives : a \in entered => a = current
  /\ current \in Exclusives =>
       /\ ~alert /\ pendingAction = "none"
       /\ \/ pc \in {"usbPaint", "usbDetach", "onEnter", "dispatch", "input",
                     "pass", "exclusive", "asleep"}
          \/ pc = "waiting" /\ resume \in {"usbDetach", "onEnter", "exclusive"}
  /\ pc \in {"usbPaint", "usbDetach"} \/ (pc = "waiting" /\ resume = "usbDetach")
       => current \in Exclusives
  /\ detached => current \in Exclusives

\* A sleep screen is current from its onEnter() to the end of the nested pass,
\* and the pass of deep sleep has one unless it was discarded while pending.
SleepOK ==
  /\ \A a \in SleepScreens : a \in entered => a = current
  /\ current \in SleepScreens =>
       /\ sleeping /\ pc \in {"sleepPolarity", "sleepDraw", "dispatch", "asleep"}
       /\ pendingAction = "none" \/ pc = "asleep"
  /\ sleeping /\ ~dropped =>
       current \in SleepScreens \/ pendingActivity \in SleepScreens

CInv ==
  PendingKinds /\ RaisersOK /\ PickersOK /\ ResultOK /\ CardOK /\ SleepOK

\* What CInv reads.
cardVars ==
  <<current, entered, pendingAction, pendingActivity, alert, result, detached,
    sleeping, dropped, held, pc, resume>>

-----------------------------------------------------------------------------
(* Every step keeps it.                                                     *)

\* A step that touches none of it keeps CInv.
LEMMA CardUntouched == CInv /\ UNCHANGED cardVars => CInv'
  BY DEF CInv, cardVars, PendingKinds, RaisersOK, PickersOK, ResultOK, CardOK,
         SleepOK

\* A screen that raises an alert is not on screen together with file transfer,
\* nor the USB drive's.
LEMMA CardAlert ==
  ASSUME IInv, SInv, CInv, current \in AlertRaisers, alert' \in BOOLEAN,
         UNCHANGED <<current, entered, pendingAction, pendingActivity, result,
                     detached, sleeping, dropped, held, pc, resume>>
  PROVE  CInv'
<1>1. /\ current # NoActivity /\ current \in entered
      /\ current \notin Exclusives /\ current \notin FileTransfers
  BY Owners, KindsApart, KindsAssumption, NoActivityAssumption
<1>2. \A f \in FileTransfers : f \notin entered
  BY <1>1 DEF CInv, RaisersOK
<1>3. PendingKinds'
  BY <1>1 DEF CInv, PendingKinds
<1>4. RaisersOK' /\ PickersOK' /\ ResultOK' /\ SleepOK'
  BY <1>1, <1>2 DEF CInv, RaisersOK, PickersOK, ResultOK, SleepOK
<1>5. CardOK'
  BY <1>1 DEF CInv, CardOK
<1>. QED
  BY <1>3, <1>4, <1>5 DEF CInv

\* Asking for a change keeps CInv.  Neither the USB drive's screen asks for one
\* nor, while an alert waits over file transfer, its list of modes.
LEMMA CardAsked ==
  ASSUME IInv, SInv, CInv, NEW action \in Actions, NEW a \in MaybeActivity,
         Request(action, a),
         UNCHANGED <<current, held, result>>,
         pc \in Callbacks \cup {"pass", "route"},
         current \notin Exclusives,
         pc = "onEnter" => current \notin Pickers,
         pc' = pc \/ pc' \in {"pass", "dispatch", "input", "asleep"},
         action = "push" => a \notin Roots \cup SleepScreens,
         action = "push" /\ a \in AlertRaisers =>
           \A f \in FileTransfers : f \notin entered,
         \/ sleeping' = sleeping /\ a \notin SleepScreens
         \/ sleeping' = TRUE /\ a \in SleepScreens,
         a \in Exclusives =>
           pc = "handler" /\ current \in FileTransfers /\ result \in Pickers
  PROVE  CInv'
<1> USE DEF Request, deviceVars, CInv, Callbacks
<1>1. current \notin SleepScreens
  BY DEF SleepOK
<1>2. PendingKinds'
  BY DEF PendingKinds, ResultOK, IInv, ControlOK
<1>3. RaisersOK'
  BY DEF RaisersOK
<1>4. PickersOK'
  BY DEF PickersOK
<1>5. ResultOK'
  BY DEF ResultOK
<1>6. CardOK'
  BY DEF CardOK
<1>7. SleepOK'
  <2>1. NoActivity \notin SleepScreens
    BY NoActivityAssumption, KindsAssumption
  <2>2. sleeping' \in BOOLEAN /\ sleeping \in BOOLEAN /\ dropped \in BOOLEAN
    BY DEF IInv, TypeOK, FlagsTypeOK
  <2>. QED
    BY <1>1, <2>1, <2>2 DEF SleepOK
<1>. QED
  BY <1>2, <1>3, <1>4, <1>5, <1>6, <1>7

\* CInv is kept by the calls an activity makes.
LEMMA CardOfCallback == IInv /\ SInv /\ CInv /\ Callback => CInv'
<1> SUFFICES ASSUME IInv, SInv, CInv, Callback PROVE CInv'
  OBVIOUS
<1>1. CASE \/ TakeRenderLock \/ DropRenderLock \/ ChangeState
           \/ RequestUpdate \/ RequestUpdateNow
  BY <1>1, CardUntouched
     DEF TakeRenderLock, DropRenderLock, ChangeState, RequestUpdate,
         RequestUpdateNow, mainVars, screenVars, deviceVars, historyVars,
         cardVars
<1>2. CASE RaiseAlert
  BY <1>2, CardAlert
     DEF RaiseAlert, mainVars, screenVars, historyVars
<1>3. CASE AskRender
  <2> USE <1>3 DEF AskRender, InCallback, Callbacks, RequestUpdateAndWait,
                   screenVars, deviceVars, historyVars, CInv
  <2>1. PendingKinds' /\ RaisersOK' /\ PickersOK' /\ ResultOK'
    BY DEF PendingKinds, RaisersOK, PickersOK, ResultOK
  <2>2. CardOK'
    BY DEF CardOK
  <2>3. SleepOK'
    BY DEF SleepOK
  <2>. QED
    BY <2>1, <2>2, <2>3
<1>4. CASE Finish
  BY <1>4, CardAsked, NoActivityAssumption, KindsAssumption
     DEF Finish, Requesting, InCallback, mainVars, MaybeActivity, Actions,
         Roots
<1>5. ASSUME NEW c \in Activities, OpenChild(c) PROVE CInv'
  <2>1. c \notin Roots \cup SleepScreens /\ c \notin Exclusives
    BY <1>5 DEF OpenChild, Children, Roots
  <2>2. c \in AlertRaisers => \A f \in FileTransfers : f \notin entered
    BY <1>5, Owners DEF OpenChild
  <2>. QED
    BY <1>5, <2>1, <2>2, CardAsked
       DEF OpenChild, Requesting, InCallback, StartActivityForResult, mainVars,
           MaybeActivity, Actions
<1>6. ASSUME NEW c \in Activities, OpenRoot(c) PROVE CInv'
  <2>1. c \notin SleepScreens
    BY <1>6, KindsAssumption DEF OpenRoot, Roots
  <2>. QED
    BY <1>6, <2>1, CardAsked
       DEF OpenRoot, Requesting, InCallback, mainVars, MaybeActivity, Actions
<1>7. ASSUME NEW c \in Activities, GlobalShortcut(c) PROVE CInv'
  <2>1. c \notin Roots \cup SleepScreens /\ c \notin AlertRaisers
        /\ c \notin Exclusives
    BY <1>7, KindsApart DEF GlobalShortcut, Roots
  <2>. QED
    BY <1>7, <2>1, CardAsked
       DEF GlobalShortcut, mainVars, MaybeActivity, Actions, Callbacks
<1>8. ASSUME NEW c \in Activities, RestoreLightPanel(c) PROVE CInv'
  <2>1. c \notin Roots \cup SleepScreens /\ c \notin AlertRaisers
        /\ c \notin Exclusives
    BY <1>8, KindsApart DEF RestoreLightPanel, Roots
  <2>2. current \notin Exclusives /\ current \notin Pickers
    BY <1>8, KindsApart DEF RestoreLightPanel
  <2>. QED
    BY <1>8, <2>1, <2>2, CardAsked
       DEF RestoreLightPanel, StartActivityForResult, mainVars, MaybeActivity,
           Actions, Callbacks
<1>. QED
  BY <1>1, <1>2, <1>3, <1>4, <1>5, <1>6, <1>7, <1>8 DEF Callback

\* The calls back into the manager: what CInv reads is as before but for the
\* main task's place.
LEMMA CardMoved ==
  ASSUME IInv, SInv, CInv,
         UNCHANGED <<current, entered, pendingAction, pendingActivity, alert,
                     detached, sleeping, dropped, held>>,
         result' \in {result, NoActivity},
         current \notin SleepScreens,
         \/ pc \notin {"onEnter", "dispatch", "waiting"}
         \/ pendingAction # "none",
         pc' \notin {"handler", "usbPaint", "usbDetach"},
         pc' = "waiting" => resume' \notin {"handler", "usbDetach"},
         current \in Exclusives => pc' \in {"pass", "exclusive", "input", "asleep"}
  PROVE  CInv'
<1> USE DEF CInv
<1>1. PendingKinds' /\ RaisersOK'
  BY DEF PendingKinds, RaisersOK
<1>2. PickersOK'
  BY DEF PickersOK
<1>3. ResultOK'
  BY DEF ResultOK
<1>4. CardOK'
  BY DEF CardOK
<1>5. SleepOK'
  BY DEF SleepOK
<1>. QED
  BY <1>1, <1>2, <1>3, <1>4, <1>5

\* CInv is kept by the routing of a pass.
LEMMA CardOfPass == IInv /\ SInv /\ CInv /\ Pass => CInv'
<1> SUFFICES ASSUME IInv, SInv, CInv, Pass PROVE CInv'
  OBVIOUS
<1>1. pc \in Callbacks \cup {"pass", "route"} => current \notin SleepScreens
  BY DEF CInv, SleepOK, Callbacks
<1>2. CASE \/ BeginPass \/ RouteToExclusive \/ RouteToGesture \/ RouteToActivity
           \/ SetupDone \/ ActivityDone \/ HandlerDone \/ GestureDone
  <2>1. Routing => current \notin Exclusives
    BY DEF Routing, CInv, CardOK
  <2>. QED
    BY <1>1, <1>2, <2>1, CardMoved
       DEF BeginPass, RouteToExclusive, RouteToGesture, RouteToActivity, Goto,
           SetupDone, ActivityDone, HandlerDone, GestureDone, ReturnTo, Routing,
           PassReturn, screenVars, deviceVars, historyVars, Callbacks, CInv,
           CardOK
<1>3. CASE OnEnterDone
  <2> USE <1>3 DEF OnEnterDone, ReturnTo, screenVars, deviceVars, historyVars,
                   CInv
  <2>1. PendingKinds' /\ RaisersOK' /\ PickersOK' /\ ResultOK'
    BY DEF PendingKinds, RaisersOK, PickersOK, ResultOK
  <2>2. CardOK' /\ SleepOK'
    BY DEF CardOK, SleepOK
  <2>. QED
    BY <2>1, <2>2
<1>4. CASE ExclusiveDone
  BY <1>1, <1>4, CardMoved
     DEF ExclusiveDone, PassReturn, screenVars, deviceVars, historyVars,
         Callbacks, CInv, CardOK
<1>5. CASE HomeGesture
  <2>1. current \notin Exclusives /\ pc \in {"pass", "route"}
    BY <1>5 DEF HomeGesture, Routing, CInv, CardOK
  <2>2. \A h \in Homes : h \in Activities /\ h \notin SleepScreens
                         /\ h \notin Exclusives
    BY KindsAssumption
  <2>3. NoActivity \notin SleepScreens /\ NoActivity \notin Exclusives
    BY KindsAssumption, NoActivityAssumption
  <2>4. CASE Request("pop", NoActivity)
    BY <1>5, <2>1, <2>3, <2>4, CardAsked
       DEF HomeGesture, MaybeActivity, Actions
  <2>5. ASSUME NEW h \in Homes, Request("replace", h) PROVE CInv'
    BY <1>5, <2>1, <2>2, <2>5, CardAsked
       DEF HomeGesture, MaybeActivity, Actions
  <2>. QED
    BY <1>5, <2>4, <2>5 DEF HomeGesture
<1>6. ASSUME NEW s \in Activities, EnterDeepSleep(s) PROVE CInv'
  <2>1. s \in SleepScreens /\ s \notin Exclusives
    BY <1>6, KindsApart DEF EnterDeepSleep
  <2>. QED
    BY <1>6, <2>1, CardAsked
       DEF EnterDeepSleep, MaybeActivity, Actions, Callbacks
<1>7. ASSUME NEW c \in Activities, FrontlightGesture(c) PROVE CInv'
  <2>1. c \notin Roots \cup SleepScreens /\ c \notin AlertRaisers
        /\ c \notin Exclusives
    BY <1>7, KindsApart DEF FrontlightGesture, Roots
  <2>2. current \notin Exclusives /\ pc \in {"pass", "route"}
    BY <1>7 DEF FrontlightGesture, Routing, CInv, CardOK
  <2>. QED
    BY <1>7, <2>1, <2>2, CardAsked
       DEF FrontlightGesture, StartActivityForResult, PassReturn, MaybeActivity,
           Actions
<1>. QED
  BY <1>2, <1>3, <1>4, <1>5, <1>6, <1>7 DEF Pass, CallbackReturns

\* CInv is kept by the steps of the dispatch loop that open and close nothing.
LEMMA CardOfDevices ==
  ASSUME IInv, SInv, CInv,
         \/ DeferScreenChange \/ StartScreenChange \/ PaintBackdrop
         \/ AfterPop \/ PaintUnderOverlay \/ FinishPass \/ SleepQuickResume
         \/ SleepSetPolarity \/ SleepDraw \/ UsbPaint \/ UsbDetach
  PROVE  CInv'
<1>1. CASE \/ DeferScreenChange \/ StartScreenChange \/ PaintBackdrop
           \/ AfterPop \/ PaintUnderOverlay
  <2>1. pc \in {"backdrop", "popped", "swapAsk"}
          \/ (pc = "dispatch" /\ pendingAction # "none")
    BY <1>1 DEF DeferScreenChange, StartScreenChange, PaintBackdrop, AfterPop,
                PaintUnderOverlay
  <2>2. current \notin SleepScreens /\ current \notin Exclusives
    BY <2>1 DEF CInv, SleepOK, CardOK
  <2>. QED
    BY <1>1, <2>1, <2>2, CardMoved
       DEF DeferScreenChange, StartScreenChange, ChangeStep, PaintBackdrop,
           AfterPop, PaintUnderOverlay, RequestUpdateAndWait, Goto, PassReturn,
           screenVars, deviceVars, historyVars
<1>2. CASE SleepQuickResume \/ SleepSetPolarity \/ SleepDraw
  <2> USE <1>2 DEF SleepQuickResume, SleepSetPolarity, SleepDraw, Goto,
                   screenVars, deviceVars, historyVars, CInv
  <2>1. PendingKinds' /\ RaisersOK' /\ PickersOK' /\ ResultOK'
    BY DEF PendingKinds, RaisersOK, PickersOK, ResultOK
  <2>2. CardOK' /\ SleepOK'
    BY DEF CardOK, SleepOK
  <2>. QED
    BY <2>1, <2>2
<1>3. CASE UsbPaint \/ UsbDetach
  <2> USE <1>3 DEF UsbPaint, UsbDetach, RequestUpdateAndWait, screenVars,
                   deviceVars, historyVars, CInv
  <2>1. PendingKinds' /\ RaisersOK' /\ PickersOK' /\ ResultOK'
    BY DEF PendingKinds, RaisersOK, PickersOK, ResultOK
  <2>2. CardOK' /\ SleepOK'
    BY DEF CardOK, SleepOK
  <2>. QED
    BY <2>1, <2>2
<1>4. CASE FinishPass
  <2> USE <1>4 DEF FinishPass, PassReturn, historyVars, CInv
  <2>1. \A a \in Alerts : /\ a \notin Roots \cup SleepScreens
                          /\ a \notin AlertRaisers /\ a \notin Exclusives
    BY KindsApart DEF Roots
  <2>2. PendingKinds'
    BY <2>1 DEF PendingKinds, IInv, ControlOK
  <2>3. RaisersOK' /\ ResultOK'
    BY DEF RaisersOK, ResultOK
  <2>4. PickersOK'
    BY DEF PickersOK
  <2>5. CardOK'
    BY DEF CardOK
  <2>6. SleepOK'
    <3>1. pendingActivity \notin SleepScreens
      BY KindsAssumption, NoActivityAssumption DEF IInv, PendingIsOpenable
    <3>. QED
      BY <3>1 DEF SleepOK
  <2>. QED
    BY <2>2, <2>3, <2>4, <2>5, <2>6
<1>. QED
  BY <1>1, <1>2, <1>3, <1>4


\* CInv is kept by the closing of a screen, and by Home after the last one.
LEMMA CardOfPop ==
  ASSUME IInv, SInv, CInv, PopLast \/ GoHomeDirectly \/ PopToParent
  PROVE  CInv'
<1> USE DEF CInv
<1>1. CASE PopLast \/ PopToParent
  <2>1. /\ pc = "pop" /\ pendingAction = "pop" /\ pendingActivity = NoActivity
        /\ held = NoActivity /\ current # NoActivity /\ current \in entered
    BY <1>1, Owners
       DEF PopLast, PopToParent, IInv, ControlOK, PendingIsOpenable
  <2>2. /\ pendingAction' = "none" /\ pendingActivity' = NoActivity
        /\ entered' = entered \ {current} /\ held' = NoActivity
        /\ UNCHANGED <<sleeping, dropped, resume>>
        /\ alert' = alert \/ current \in AlertRaisers
        /\ detached' => detached
    <3>1. CASE PopLast
      BY <3>1, <2>1 DEF PopLast, Destroyed, MayRaiseAlert
    <3>2. CASE PopToParent
      BY <3>2, <2>1 DEF PopToParent, MayRaiseAlert
    <3>. QED
      BY <1>1, <3>1, <3>2
  <2>3. current' = NoActivity \/ (current' \in entered /\ current' # current)
    BY <1>1, Owners DEF PopLast, PopToParent
  <2>4. /\ pc' \in {"goHome", "handler", "popped"}
        /\ pc' = "handler" => result' = current /\ current' \in entered
    BY <1>1, Owners DEF PopLast, PopToParent
  <2>5. NoActivity \notin Exclusives \cup SleepScreens \cup Roots
    BY KindsAssumption, NoActivityAssumption DEF Roots
  <2> HIDE DEF CInv
  <2>6. PendingKinds'
    BY <2>2, <2>5 DEF PendingKinds
  <2>7. RaisersOK'
    BY <2>2 DEF CInv, RaisersOK
  <2>8. PickersOK'
    BY <2>1, <2>2 DEF CInv, PickersOK, RaisersOK
  <2>9. ResultOK'
    BY <2>1, <2>2, <2>4 DEF CInv, ResultOK, PickersOK, RaisersOK
  <2>10. CardOK'
    BY <2>1, <2>2, <2>3, <2>4, <2>5 DEF CInv, CardOK
  <2>11. SleepOK'
    BY <2>1, <2>2, <2>3, <2>4, <2>5 DEF CInv, SleepOK
  <2>. QED
    BY <2>6, <2>7, <2>8, <2>9, <2>10, <2>11 DEF CInv
<1>2. CASE GoHomeDirectly
  <2>1. PICK h \in Homes \ Live : current' = h /\ entered' = entered \cup {h}
    BY <1>2 DEF GoHomeDirectly, NowCurrent
  <2>2. /\ current = NoActivity /\ held = NoActivity /\ pc = "goHome"
        /\ stack = <<>>
    BY <1>2 DEF GoHomeDirectly, IInv, ControlOK, SInv, HomeOK
  <2>3. entered = {}
    BY <2>2 DEF SInv, LifecyclePaired, OnScreenStack, InStack
  <2>4. h \notin Exclusives \cup SleepScreens \cup FileTransfers \cup Pickers
    BY <2>1, KindsAssumption
  <2>5. NoActivity \notin Exclusives \cup SleepScreens \cup FileTransfers
    BY KindsAssumption, NoActivityAssumption
  <2>6. PendingKinds' /\ RaisersOK' /\ PickersOK' /\ ResultOK'
    BY <1>2, <2>1, <2>2, <2>3, <2>4, <2>5
       DEF GoHomeDirectly, deviceVars, PendingKinds, RaisersOK, PickersOK,
           ResultOK
  <2>7. CardOK' /\ SleepOK'
    BY <1>2, <2>1, <2>2, <2>3, <2>4, <2>5
       DEF GoHomeDirectly, deviceVars, CardOK, SleepOK
  <2>. QED
    BY <2>6, <2>7
<1>. QED
  BY <1>1, <1>2

\* CInv is kept while an overlay is set aside and put back.
LEMMA CardOfBackdrop ==
  ASSUME IInv, SInv, CInv, LiftOverlay \/ LowerOverlay
  PROVE  CInv'
<1> USE DEF CInv
<1>1. /\ pc \in {"popped", "swapBack"} /\ pendingAction = "none"
      /\ pendingActivity = NoActivity /\ pendingAction' = "none"
      /\ pendingActivity' = NoActivity /\ pc' \in {"swapAsk", "dispatch"}
      /\ UNCHANGED <<entered, alert, detached, sleeping, dropped>>
  BY DEF LiftOverlay, LowerOverlay, deviceVars, IInv, ControlOK,
         PendingIsOpenable, PendingKinds
<1>2. current' \in entered /\ current' # current
  BY Owners DEF LiftOverlay, LowerOverlay, NowCurrent, IInv, ControlOK
<1>3. NoActivity \notin Exclusives \cup SleepScreens
  BY KindsAssumption, NoActivityAssumption
<1>4. PendingKinds' /\ RaisersOK' /\ PickersOK' /\ ResultOK'
  BY <1>1, <1>2, <1>3 DEF PendingKinds, RaisersOK, PickersOK, ResultOK
<1>5. CardOK' /\ SleepOK'
  BY <1>1, <1>2, <1>3 DEF CardOK, SleepOK
<1>. QED
  BY <1>4, <1>5

\* CInv is kept by the opening of a screen over the current one.
LEMMA CardOfPush == IInv /\ SInv /\ CInv /\ SwapPush => CInv'
<1> SUFFICES ASSUME IInv, SInv, CInv, SwapPush PROVE CInv'
  OBVIOUS
<1>1. /\ pc = "swap" /\ pendingAction = "push" /\ held' = NoActivity
      /\ pendingActivity # NoActivity /\ pendingActivity \notin Roots
      /\ pendingActivity \notin SleepScreens
  BY DEF SwapPush, IInv, ControlOK, PendingIsOpenable, CInv, PendingKinds
<1>2. /\ pendingActivity \notin Exclusives /\ pendingActivity \notin FileTransfers
  BY <1>1 DEF Roots
<1>3. /\ current' = pendingActivity
      /\ entered' = entered \cup {pendingActivity}
      /\ pendingAction' = "none" /\ pendingActivity' = NoActivity
      /\ pc' = "onEnter"
      /\ UNCHANGED <<alert, detached, sleeping, dropped>>
  BY <1>1, <1>2
     DEF SwapPush, NowCurrent, PendingTaken, OnEnterOf, deviceVars
<1>4. NoActivity \notin Exclusives \cup SleepScreens
  BY KindsAssumption, NoActivityAssumption
<1>5. PendingKinds' /\ ResultOK'
  BY <1>1, <1>3, <1>4 DEF PendingKinds, ResultOK
<1>6. RaisersOK'
  BY <1>1, <1>2, <1>3 DEF CInv, PendingKinds, RaisersOK
<1>7. PickersOK'
  BY <1>1, <1>2, <1>3 DEF CInv, PickersOK
<1>8. CardOK' /\ SleepOK'
  BY <1>1, <1>2, <1>3 DEF CInv, CardOK, SleepOK
<1>. QED
  BY <1>5, <1>6, <1>7, <1>8 DEF CInv

\* CInv is kept when one screen replaces all others: before the USB drive's
\* there was file transfer's, over which no alert waits.
LEMMA CardOfReplace == IInv /\ SInv /\ CInv /\ SwapReplace => CInv'
<1> SUFFICES ASSUME IInv, SInv, CInv, SwapReplace PROVE CInv'
  OBVIOUS
<1>1. /\ pc = "swap" /\ pendingAction = "replace" /\ held' = NoActivity
      /\ pendingActivity # NoActivity /\ current # NoActivity
      /\ entered = AllScreens
  BY Owners DEF SwapReplace, IInv, ControlOK, PendingIsOpenable
<1>2. /\ current' = pendingActivity /\ entered' = {pendingActivity}
      /\ pendingAction' = "none" /\ pendingActivity' = NoActivity
      /\ pc' = OnEnterOf(pendingActivity)
      /\ detached' => detached
      /\ alert' = alert \/ \E a \in AlertRaisers : a \in entered
      /\ UNCHANGED <<sleeping, dropped>>
  BY <1>1 DEF SwapReplace, Destroyed, MayRaiseAlert, PendingTaken
<1>3. NoActivity \notin Exclusives \cup SleepScreens
  BY KindsAssumption, NoActivityAssumption
<1>4. PendingKinds' /\ ResultOK'
  BY <1>1, <1>2, <1>3 DEF PendingKinds, ResultOK, OnEnterOf
<1>5. RaisersOK'
  BY <1>2, KindsApart DEF RaisersOK
<1>6. PickersOK'
  BY <1>2, KindsApart DEF PickersOK, OnEnterOf
<1>7. CardOK'
  <2>1. pendingActivity \in Exclusives => ~alert'
    BY <1>1, <1>2, Owners DEF CInv, PendingKinds, RaisersOK
  <2>2. ~detached'
    BY <1>1, <1>2 DEF CInv, CardOK
  <2>. QED
    BY <1>2, <2>1, <2>2, KindsApart DEF CardOK, OnEnterOf
<1>8. SleepOK'
  BY <1>1, <1>2 DEF CInv, PendingKinds, SleepOK, OnEnterOf
<1>. QED
  BY <1>4, <1>5, <1>6, <1>7, <1>8 DEF CInv

\* The render task raises an alert only on behalf of the screen it paints.
LEMMA CardOfRender == IInv /\ SInv /\ CInv /\ Render => CInv'
<1> SUFFICES ASSUME IInv, SInv, CInv, Render PROVE CInv'
  OBVIOUS
<1>1. CASE RenderTake \/ RenderLock \/ RenderPublish \/ RenderRelease
  BY <1>1, CardUntouched
     DEF RenderTake, RenderLock, RenderPublish, RenderRelease, mainVars,
         screenVars, deviceVars, historyVars, cardVars
<1>2. CASE RenderPaint
  <2>1. painting = current
    BY <1>2 DEF RenderPaint, IInv, MutexOK
  <2>2. CASE UNCHANGED alert
    BY <1>2, <2>2, CardUntouched
       DEF RenderPaint, mainVars, screenVars, historyVars, cardVars
  <2>3. CASE current \in AlertRaisers /\ alert' = TRUE
    BY <1>2, <2>3, CardAlert
       DEF RenderPaint, mainVars, screenVars
  <2>. QED
    BY <1>2, <2>1, <2>2, <2>3 DEF RenderPaint, MayRaiseAlert
<1>. QED
  BY <1>1, <1>2 DEF Render

\* CInv holds at boot.
LEMMA CardOfBoot == Init => CInv
<1> SUFFICES ASSUME Init PROVE CInv
  OBVIOUS
<1>1. NoActivity \notin Exclusives \cup SleepScreens
  BY KindsAssumption, NoActivityAssumption
<1>2. \A a \in Homes \cup Readers : a \notin Exclusives \cup SleepScreens
                                    /\ a \notin FileTransfers
  BY KindsAssumption
<1>. QED
  BY <1>1, <1>2 DEF Init, CInv, PendingKinds, RaisersOK, PickersOK, ResultOK,
                    CardOK, SleepOK

\* CInv holds again after a restart.
LEMMA CardOfReboot == Reboot => CInv'
<1> SUFFICES ASSUME Reboot PROVE CInv'
  OBVIOUS
<1>1. NoActivity \notin Exclusives \cup SleepScreens
  BY KindsAssumption, NoActivityAssumption
<1>2. \A a \in Homes \cup Readers : a \notin Exclusives \cup SleepScreens
                                    /\ a \notin FileTransfers
  BY KindsAssumption
<1>. QED
  BY <1>1, <1>2 DEF Reboot, CInv, PendingKinds, RaisersOK, PickersOK, ResultOK,
                    CardOK, SleepOK

\* CInv is kept when the render task answers a waiting main task.
LEMMA CardOfAnswer == IInv /\ SInv /\ CInv /\ RenderAnswered => CInv'
<1> SUFFICES ASSUME IInv, SInv, CInv, RenderAnswered PROVE CInv'
  OBVIOUS
<1> USE DEF RenderAnswered, screenVars, deviceVars, historyVars, CInv
<1>1. PendingKinds' /\ RaisersOK' /\ PickersOK' /\ ResultOK'
  BY DEF PendingKinds, RaisersOK, PickersOK, ResultOK
<1>2. CardOK' /\ SleepOK'
  BY DEF CardOK, SleepOK, IInv, TypeOK, TasksTypeOK, Resumes, Callbacks
<1>. QED
  BY <1>1, <1>2

\* CInv is kept by every step.
LEMMA CardStep == IInv /\ SInv /\ CInv /\ [Next]_vars => CInv'
<1> SUFFICES ASSUME IInv, SInv, CInv, [Next]_vars PROVE CInv'
  OBVIOUS
<1>1. CASE Dispatch
  BY <1>1, CardOfDevices, CardOfPop, CardOfBackdrop, CardOfPush, CardOfReplace
     DEF Dispatch
<1>2. CASE Wake \/ UsbRestart
  BY <1>2, CardOfReboot DEF Wake, UsbRestart
<1>3. CASE UNCHANGED vars
  BY <1>3, CardUntouched
     DEF vars, mainVars, screenVars, deviceVars, historyVars, cardVars
<1>. QED
  BY <1>1, <1>2, <1>3, CardOfCallback, CardOfPass, CardOfAnswer, CardOfRender
     DEF Next

\* With what keeps the screens apart, the card's invariant holds: what may be pending,
\* which screens are entered together, and when an alert may wait.
THEOREM CardInvariance == Spec => [](IInv /\ SInv /\ CInv)
<1>1. Init => CInv
  BY CardOfBoot
<1>. QED
  BY <1>1, CardStep, ScreensInvariance, PTL DEF Spec

\* While the USB host has the card, the USB drive's screen is in front, nothing
\* is pending that could replace it, and the device does not go to sleep unless
\* the sleep screen itself was discarded.
THEOREM HostKeepsTheCard == Spec => []CardOwnerStaysAlone
<1>1. IInv /\ SInv /\ CInv => CardOwnerStaysAlone
  <2> SUFFICES ASSUME IInv, CInv, detached PROVE CardOwnerStaysAlone
    BY DEF CardOwnerStaysAlone
  <2>1. current \in Exclusives /\ pendingAction = "none"
    BY DEF CInv, CardOK
  <2>2. current \notin SleepScreens /\ pendingActivity = NoActivity
    BY <2>1, KindsApart, NoActivityAssumption DEF IInv, PendingIsOpenable
  <2>3. NoActivity \notin SleepScreens
    BY KindsAssumption, NoActivityAssumption
  <2>. QED
    BY <2>1, <2>2, <2>3 DEF CInv, SleepOK, CardOwnerStaysAlone
<1>. QED
  BY <1>1, CardInvariance, PTL

-----------------------------------------------------------------------------
(* The panel: the inductive invariant.                                      *)

\* Only screens that exist have been painted; only an overlay is set aside.
PaintedOK ==
  /\ seen \subseteq entered
  /\ held # NoActivity => held \in Overlays

\* A full-screen activity that has been painted, and has not been uncovered
\* since, is what the panel shows.
FrontOK ==
  held = NoActivity /\ current \in seen \ Overlays /\ ~restoredNeedsRender
    => panel = current

\* An overlay lies over the pixels of the screen below it, but for the time
\* between the closing of a screen above it and what the handler asks for then.
BehindOK ==
  /\ held = NoActivity /\ current \in Overlays /\ stack # <<>>
  /\ Head(stack) \in seen \ Overlays
  => \/ panel = Head(stack) \/ pendingAction # "none"
     \/ pc \in {"handler", "popped"} \/ (pc = "waiting" /\ resume = "handler")

\* The render that answers a backdrop request has painted the screen below.
BackdropOK ==
  /\ pc = "swap" \/ (pc = "waiting" /\ resume = "swap" /\ woken)
  /\ NeedsBackdrop
  => current \notin seen

\* What the render task has painted under the mutex is still in front.
PublishedOK ==
  renderPc \in {"publish", "release"} =>
    \/ current \notin seen
    \/ ~restoredNeedsRender /\ (current \in Overlays \/ panel = current)

\* The screen under an overlay set aside has been painted when the wait is over.
LiftedOK ==
  pc = "swapBack" \/ (pc = "waiting" /\ resume = "swapBack" /\ woken)
    => current \notin seen \ Overlays \/ panel = current

PInv ==
  PaintedOK /\ FrontOK /\ BehindOK /\ BackdropOK /\ PublishedOK /\ LiftedOK

\* The pixels, and whose they are.
pixelVars ==
  <<current, held, stack, entered, seen, panel, restoredNeedsRender, renderPc>>

-----------------------------------------------------------------------------
(* Every step keeps it.                                                     *)

\* A step that paints nothing and changes no screen keeps PInv, if it leaves a
\* closing only with a change pending and enters no wait that has been answered.
LEMMA PanelMoved ==
  ASSUME PInv, UNCHANGED pixelVars,
         pendingAction' # "none" \/ UNCHANGED <<pendingAction, pendingActivity>>,
         pc \in {"handler", "popped"} \/ (pc = "waiting" /\ resume = "handler") =>
           \/ pc' \in {"handler", "popped"}
           \/ pc' = "waiting" /\ resume' = "handler"
           \/ pendingAction' # "none" \/ current \notin Overlays \/ stack = <<>>,
         pc' = "swap" \/ (pc' = "waiting" /\ resume' = "swap" /\ woken') =>
           \/ ~NeedsBackdrop'
           \/ (pc = "swap" \/ (pc = "waiting" /\ resume = "swap" /\ woken))
                /\ NeedsBackdrop
           \/ current \notin seen,
         pc' = "swapBack" \/ (pc' = "waiting" /\ resume' = "swapBack" /\ woken')
           => \/ pc = "swapBack"
              \/ pc = "waiting" /\ resume = "swapBack" /\ woken
              \/ current \notin seen \ Overlays \/ panel = current
  PROVE  PInv'
<1> USE DEF PInv, pixelVars
<1>1. PaintedOK' /\ FrontOK' /\ PublishedOK'
  BY DEF PaintedOK, FrontOK, PublishedOK
<1>2. BehindOK'
  BY DEF BehindOK
<1>3. BackdropOK'
  BY DEF BackdropOK
<1>4. LiftedOK'
  BY DEF LiftedOK
<1>. QED
  BY <1>1, <1>2, <1>3, <1>4

\* PInv is kept by what activities ask for and by the routing of a pass.
LEMMA PanelOfMain ==
  ASSUME IInv, PInv, Callback \/ Pass \/ RenderAnswered PROVE PInv'
<1>1. woken => pc = "waiting"
  BY DEF IInv, SignalOK
<1>2. CASE \/ TakeRenderLock \/ DropRenderLock \/ ChangeState \/ RaiseAlert
           \/ RequestUpdate \/ RequestUpdateNow
  BY <1>2, PanelMoved
     DEF TakeRenderLock, DropRenderLock, ChangeState, RaiseAlert, RequestUpdate,
         RequestUpdateNow, mainVars, screenVars, renderVars, signalVars,
         paintVars, historyVars, pixelVars, NeedsBackdrop
<1>3. CASE AskRender
  BY <1>1, <1>3, PanelMoved
     DEF AskRender, InCallback, Callbacks, RequestUpdateAndWait, screenVars,
         renderVars, paintVars, historyVars, pixelVars, NeedsBackdrop
<1>4. CASE RenderAnswered
  BY <1>4, PanelMoved
     DEF RenderAnswered, screenVars, renderVars, paintVars, historyVars,
         pixelVars, NeedsBackdrop
<1>5. CASE Finish \/ \E c \in Activities : OpenChild(c) \/ OpenRoot(c)
                       \/ GlobalShortcut(c) \/ RestoreLightPanel(c)
  BY <1>5, PanelMoved
     DEF Finish, OpenChild, OpenRoot, GlobalShortcut, RestoreLightPanel,
         Requesting, InCallback, Callbacks, StartActivityForResult, Request,
         mainVars, renderVars, signalVars, paintVars, pixelVars
<1>6. CASE \/ BeginPass \/ RouteToExclusive \/ RouteToGesture
           \/ RouteToActivity \/ CallbackReturns
  BY <1>6, PanelMoved
     DEF BeginPass, RouteToExclusive, RouteToGesture, RouteToActivity, Routing,
         Goto, CallbackReturns, SetupDone, ActivityDone, HandlerDone,
         OnEnterDone, GestureDone, ExclusiveDone, ReturnTo, PassReturn,
         screenVars, renderVars, paintVars, historyVars, pixelVars,
         NeedsBackdrop
<1>7. CASE HomeGesture \/ \E c \in Activities : EnterDeepSleep(c)
                                                  \/ FrontlightGesture(c)
  BY <1>7, PanelMoved
     DEF HomeGesture, EnterDeepSleep, FrontlightGesture, Routing, PassReturn,
         StartActivityForResult, Request, renderVars, paintVars, pixelVars
<1>. QED
  BY <1>2, <1>3, <1>4, <1>5, <1>6, <1>7 DEF Callback, Pass

\* PInv is kept by the steps of the dispatch loop that open and close nothing.
LEMMA PanelOfDevices ==
  ASSUME IInv, PInv,
         \/ DeferScreenChange \/ StartScreenChange \/ PaintBackdrop
         \/ AfterPop \/ PaintUnderOverlay \/ FinishPass \/ SleepQuickResume
         \/ SleepSetPolarity \/ SleepDraw \/ UsbPaint \/ UsbDetach
  PROVE  PInv'
<1>1. woken => pc = "waiting"
  BY DEF IInv, SignalOK
<1>2. CASE PaintBackdrop \/ PaintUnderOverlay \/ UsbPaint
  BY <1>1, <1>2, PanelMoved
     DEF PaintBackdrop, PaintUnderOverlay, UsbPaint, RequestUpdateAndWait,
         screenVars, renderVars, paintVars, historyVars, pixelVars
<1>3. CASE \/ DeferScreenChange \/ SleepQuickResume \/ SleepSetPolarity
           \/ SleepDraw \/ UsbDetach
  BY <1>3, PanelMoved
     DEF DeferScreenChange, SleepQuickResume, SleepSetPolarity, SleepDraw,
         UsbDetach, Goto, PassReturn, screenVars, renderVars, paintVars,
         historyVars, pixelVars
<1>4. CASE StartScreenChange
  BY <1>4, PanelMoved
     DEF StartScreenChange, ChangeStep, NeedsBackdrop, screenVars, historyVars,
         pixelVars
<1>5. CASE AfterPop
  BY <1>5, PanelMoved
     DEF AfterPop, screenVars, renderVars, paintVars, historyVars, pixelVars
<1>6. CASE FinishPass
  BY <1>6, PanelMoved
     DEF FinishPass, PassReturn, renderVars, paintVars, historyVars, pixelVars
<1>. QED
  BY <1>2, <1>3, <1>4, <1>5, <1>6

\* PInv is kept by the render task.
LEMMA PanelOfRender == IInv /\ SInv /\ PInv /\ Render => PInv'
<1> SUFFICES ASSUME IInv, SInv, PInv, Render PROVE PInv'
  OBVIOUS
<1>1. CASE RenderTake \/ RenderRelease
  <2> USE <1>1 DEF RenderTake, RenderRelease, mainVars, screenVars, signalVars,
                   paintVars, historyVars, PInv
  <2>1. PaintedOK' /\ FrontOK' /\ BehindOK' /\ LiftedOK'
    BY DEF PaintedOK, FrontOK, BehindOK, LiftedOK
  <2>2. BackdropOK' /\ PublishedOK'
    BY DEF BackdropOK, NeedsBackdrop, PublishedOK
  <2>. QED
    BY <2>1, <2>2
<1>2. CASE RenderLock
  <2> USE <1>2 DEF RenderLock, mainVars, screenVars, signalVars, paintVars, PInv
  <2>1. PaintedOK' /\ FrontOK' /\ BehindOK' /\ LiftedOK'
    BY DEF PaintedOK, FrontOK, BehindOK, LiftedOK
  <2>2. BackdropOK'
    BY DEF BackdropOK, NeedsBackdrop
  <2>3. PublishedOK'
    BY Owners DEF PublishedOK, PaintedOK
  <2>. QED
    BY <2>1, <2>2, <2>3
<1>3. CASE RenderPaint
  <2>1. painting = current /\ current # NoActivity /\ current \in entered
    BY <1>3, Owners DEF RenderPaint, IInv, MutexOK
  <2>2. stack # <<>> => Head(stack) # current
    BY Owners
  <2>3. /\ seen' = seen \cup {current} /\ ~restoredNeedsRender'
        /\ panel' = IF current \in Overlays THEN panel ELSE current
        /\ UNCHANGED <<mainVars, screenVars, signalVars, entered>>
    BY <1>3, <2>1 DEF RenderPaint
  <2> USE DEF mainVars, screenVars, signalVars, PInv
  <2>4. PaintedOK' /\ FrontOK' /\ PublishedOK' /\ LiftedOK'
    BY <2>1, <2>3 DEF PaintedOK, FrontOK, PublishedOK, LiftedOK
  <2>5. BehindOK'
    BY <2>2, <2>3 DEF BehindOK
  <2>6. BackdropOK'
    BY <2>3 DEF BackdropOK, NeedsBackdrop
  <2>. QED
    BY <2>4, <2>5, <2>6
<1>4. CASE RenderPublish
  <2> USE <1>4 DEF RenderPublish, mainVars, screenVars, paintVars, historyVars,
                   PInv
  <2>1. PaintedOK' /\ FrontOK' /\ BehindOK' /\ PublishedOK'
    BY DEF PaintedOK, FrontOK, BehindOK, PublishedOK
  <2>2. BackdropOK' /\ LiftedOK'
    BY DEF BackdropOK, NeedsBackdrop, LiftedOK, PublishedOK
  <2>. QED
    BY <2>1, <2>2
<1>. QED
  BY <1>1, <1>2, <1>3, <1>4 DEF Render

\* PInv is kept when another screen becomes current: the mutex is free, so no
\* render is between its paint and its answer.
LEMMA PanelOfScreens ==
  ASSUME IInv, SInv, PInv,
         \/ PopLast \/ GoHomeDirectly \/ PopToParent \/ LiftOverlay
         \/ LowerOverlay \/ SwapPush \/ SwapReplace
  PROVE  PInv'
<1>1. MutexIsFree => renderPc \notin {"publish", "release"}
  BY DEF MutexIsFree, IInv, MutexOK
<1>2. NoActivity \notin entered /\ seen \subseteq entered
  BY Owners DEF PInv, PaintedOK
<1> USE DEF PInv
<1>3. CASE PopLast \/ PopToParent
  <2>1. /\ seen' = seen \ {current} /\ entered' = entered \ {current}
        /\ held' = NoActivity /\ renderPc' \notin {"publish", "release"}
        /\ pc' \in {"goHome", "handler", "popped"}
        /\ restoredNeedsRender' \/ current' = NoActivity
        /\ stack' = <<>> \/ pc' \in {"handler", "popped"}
    BY <1>1, <1>3
       DEF PopLast, PopToParent, Destroyed, renderVars, IInv, ControlOK
  <2>2. PaintedOK' /\ FrontOK' /\ BehindOK'
    BY <1>2, <2>1 DEF PaintedOK, FrontOK, BehindOK
  <2>3. BackdropOK' /\ PublishedOK' /\ LiftedOK'
    BY <2>1 DEF BackdropOK, PublishedOK, LiftedOK
  <2>. QED
    BY <2>2, <2>3
<1>4. CASE GoHomeDirectly
  <2>1. PICK h \in Homes \ Live : NowCurrent(h) /\ entered' = entered \cup {h}
    BY <1>4 DEF GoHomeDirectly
  <2>2. h \notin seen
    BY <1>2, <2>1, Owners DEF Live
  <2>3. stack' = <<>> /\ held' = NoActivity /\ pc' = "onEnter"
        /\ current' = h /\ seen' = seen
    BY <1>4, <2>1
       DEF GoHomeDirectly, NowCurrent, IInv, ControlOK, SInv, HomeOK
  <2>4. PaintedOK' /\ FrontOK' /\ BehindOK'
    BY <1>2, <2>1, <2>2, <2>3 DEF PaintedOK, FrontOK, BehindOK
  <2>5. BackdropOK' /\ PublishedOK' /\ LiftedOK'
    BY <2>2, <2>3 DEF BackdropOK, PublishedOK, LiftedOK
  <2>. QED
    BY <2>4, <2>5
<1>5. CASE LiftOverlay
  <2>1. current # NoActivity
    BY <1>5 DEF LiftOverlay, IInv, ControlOK
  <2>2. /\ held' = current /\ current \in Overlays /\ pc' = "swapAsk"
        /\ renderPc' \notin {"publish", "release"}
        /\ UNCHANGED <<seen, entered>>
    BY <1>1, <1>5 DEF LiftOverlay, renderVars
  <2>. QED
    BY <1>2, <2>1, <2>2
       DEF PaintedOK, FrontOK, BehindOK, BackdropOK, PublishedOK, LiftedOK
<1>6. CASE LowerOverlay
  <2>1. held \in Activities /\ current \in Activities /\ stack \in Seq(Activities)
    BY <1>6, Owners DEF LowerOverlay, IInv, ControlOK, MaybeActivity
  <2>2. /\ held' = NoActivity /\ current' = held /\ held \in Overlays
        /\ pc = "swapBack" /\ pc' = "dispatch"
        /\ renderPc' \notin {"publish", "release"}
        /\ UNCHANGED <<seen, entered, panel>>
    BY <1>1, <1>6, <2>1, NoActivityAssumption
       DEF LowerOverlay, NowCurrent, renderVars, PaintedOK
  <2>3. Head(stack') = current
    BY <1>6, <2>1 DEF LowerOverlay, PushBack
  <2>4. BehindOK'
    BY <2>2, <2>3 DEF BehindOK, LiftedOK
  <2>5. PaintedOK' /\ FrontOK'
    BY <1>2, <2>2 DEF PaintedOK, FrontOK
  <2>6. BackdropOK' /\ PublishedOK' /\ LiftedOK'
    BY <2>2 DEF BackdropOK, PublishedOK, LiftedOK
  <2>. QED
    BY <2>4, <2>5, <2>6
<1>7. CASE SwapPush
  <2>1. /\ held = NoActivity /\ held' = NoActivity
        /\ current \in Activities /\ stack \in Seq(Activities)
        /\ pendingActivity \notin entered
    BY <1>7, Owners DEF SwapPush, IInv, ControlOK, MaybeActivity
  <2>2. /\ current' = pendingActivity /\ pc = "swap"
        /\ pc' \notin {"swap", "waiting", "swapBack"}
        /\ renderPc' \notin {"publish", "release"}
        /\ entered' = entered \cup {pendingActivity}
        /\ UNCHANGED <<seen, panel>>
    BY <1>1, <1>7 DEF SwapPush, NowCurrent, OnEnterOf, renderVars
  <2>3. Head(stack') = current
    BY <1>7, <2>1 DEF SwapPush, PushBack
  <2>4. BehindOK'
    BY <1>7, <2>1, <2>2, <2>3
       DEF SwapPush, BehindOK, BackdropOK, NeedsBackdrop, FrontOK
  <2>5. PaintedOK' /\ FrontOK'
    BY <1>2, <2>1, <2>2 DEF PaintedOK, FrontOK
  <2>6. BackdropOK' /\ PublishedOK' /\ LiftedOK'
    BY <2>2 DEF BackdropOK, PublishedOK, LiftedOK
  <2>. QED
    BY <2>4, <2>5, <2>6
<1>8. CASE SwapReplace
  <2>1. /\ held = NoActivity /\ held' = NoActivity
        /\ entered = AllScreens /\ pendingActivity \notin entered
    BY <1>8, Owners DEF SwapReplace, IInv, ControlOK
  <2>2. /\ seen' = {} /\ stack' = <<>>
        /\ pc' \notin {"swap", "waiting", "swapBack"}
        /\ renderPc' \notin {"publish", "release"}
    BY <1>1, <1>2, <1>8, <2>1
       DEF SwapReplace, Destroyed, OnEnterOf, renderVars
  <2>. QED
    BY <2>1, <2>2
       DEF PaintedOK, FrontOK, BehindOK, BackdropOK, PublishedOK, LiftedOK
<1>. QED
  BY <1>3, <1>4, <1>5, <1>6, <1>7, <1>8

\* PInv is kept by every step.
LEMMA PanelStep == IInv /\ SInv /\ PInv /\ [Next]_vars => PInv'
<1> SUFFICES ASSUME IInv, SInv, PInv, [Next]_vars PROVE PInv'
  OBVIOUS
<1>1. CASE Callback \/ Pass \/ RenderAnswered
  BY <1>1, PanelOfMain
<1>2. CASE Dispatch
  BY <1>2, PanelOfDevices, PanelOfScreens DEF Dispatch
<1>3. CASE Wake \/ UsbRestart
  BY <1>3
     DEF Wake, UsbRestart, Reboot, PInv, PaintedOK, FrontOK, BehindOK,
         BackdropOK, PublishedOK, LiftedOK
<1>4. CASE UNCHANGED vars
  BY <1>4, PanelMoved
     DEF vars, mainVars, screenVars, renderVars, signalVars, paintVars,
         historyVars, pixelVars, NeedsBackdrop
<1>. QED
  BY <1>1, <1>2, <1>3, <1>4, PanelOfRender DEF Next

\* With what keeps the screens apart, the panel's invariant holds: what was painted last
\* and which paint is still owed.
THEOREM PanelInvariance == Spec => [](IInv /\ SInv /\ PInv)
<1>1. Init => PInv
  BY DEF Init, PInv, PaintedOK, FrontOK, BehindOK, BackdropOK, PublishedOK,
         LiftedOK
<1>. QED
  BY <1>1, PanelStep, ScreensInvariance, PTL DEF Spec

\* When the user can act on an overlay, the panel holds the pixels of the screen
\* below it: a closed full-screen child is never left to show through.
THEOREM BackdropIsFresh == Spec => []FreshBackdrop
<1>1. IInv /\ PInv => FreshBackdrop
  BY DEF IInv, ControlOK, PInv, BehindOK, FreshBackdrop
<1>. QED
  BY <1>1, PanelInvariance, PTL

=============================================================================
