----------------------- MODULE ActivityManagerProofs -----------------------
(***************************************************************************)
(* Theorems about ActivityManager for every set of activities, however     *)
(* their kinds are distributed, and for every interleaving of the tasks.   *)
(***************************************************************************)
EXTENDS ActivityManager, TLAPS

-----------------------------------------------------------------------------
(* The inductive invariant.                                                 *)

\* What the control point says about the objects and the pending change.
ControlOK ==
  /\ current = NoActivity <=> pc = "goHome"
  /\ (held # NoActivity) <=> \/ pc \in {"swapAsk", "swapBack"}
                             \/ pc = "waiting" /\ resume = "swapBack"
  /\ pc = "waiting" => resume # "none"
  /\ pc = "pop" => pendingAction = "pop"
  /\ pc \in {"swap", "backdrop"} \/ (pc = "waiting" /\ resume = "swap")
       => pendingAction \in {"push", "replace"}

\* Who holds the mutex, and on what.
MutexOK ==
  /\ (mutex = "render") <=> renderPc \in {"painting", "publish", "release"}
  /\ renderPc = "painting" => painting = current /\ current # NoActivity

\* Who waits, and for what.
SignalOK ==
  /\ waiter => pc = "waiting"
  /\ woken => pc = "waiting" /\ ~waiter

\* A frame that is being painted, or has just answered the caller, was begun
\* after every change the current activity made under RenderLock.
FreshOK ==
  /\ current \in LockedWriters
  /\ renderPc \in {"painting", "publish"} \/ woken
  => current \notin stale

IInv ==
  /\ TypeOK /\ PendingIsOpenable /\ ControlOK
  /\ MutexOK /\ NoSelfDeadlock
  /\ SignalOK /\ WakeupOnTheWay /\ FreshOK

-----------------------------------------------------------------------------
(* Every step keeps it: one step of the proof per action.                   *)

\* IInv is kept by every step of the calls an activity makes.
LEMMA CallbackStep == IInv /\ Callback => IInv'
<1> SUFFICES ASSUME IInv, Callback PROVE IInv'
  OBVIOUS
<1> USE NoActivityAssumption, KindsAssumption, NightModeAssumption
<1> USE DEF mainVars, screenVars, renderVars, signalVars, paintVars,
            deviceVars, historyVars, MaybeActivity, Actions, Callbacks,
            ManagerSteps, Resumes, IInv, TypeOK, TasksTypeOK, ScreensTypeOK,
            FlagsTypeOK, PendingIsOpenable, ControlOK, MutexOK,
            NoSelfDeadlock, SignalOK, WakeupOnTheWay, FreshOK
<1>1. CASE TakeRenderLock
  BY <1>1 DEF TakeRenderLock, InCallback, MutexIsFree
<1>2. CASE DropRenderLock
  BY <1>2 DEF DropRenderLock, InCallback
<1>3. CASE ChangeState
  BY <1>3 DEF ChangeState, InCallback
<1>4. CASE RaiseAlert
  BY <1>4 DEF RaiseAlert, InCallback
<1>5. CASE RequestUpdate
  BY <1>5 DEF RequestUpdate, InCallback
<1>6. CASE RequestUpdateNow
  BY <1>6 DEF RequestUpdateNow, InCallback
<1>7. CASE AskRender
  BY <1>7 DEF AskRender, InCallback, RequestUpdateAndWait, MayWait
<1>8. CASE Finish
  BY <1>8 DEF Finish, Requesting, InCallback, Request
<1>9. ASSUME NEW c \in Activities, OpenChild(c) PROVE IInv'
  BY <1>9 DEF OpenChild, Requesting, InCallback, StartActivityForResult,
       Request
<1>10. ASSUME NEW c \in Activities, OpenRoot(c) PROVE IInv'
  BY <1>10 DEF OpenRoot, Requesting, InCallback, Request
<1>11. ASSUME NEW c \in Activities, GlobalShortcut(c) PROVE IInv'
  BY <1>11 DEF GlobalShortcut, Request
<1>12. ASSUME NEW c \in Activities, RestoreLightPanel(c) PROVE IInv'
  BY <1>12 DEF RestoreLightPanel, StartActivityForResult, Request
<1>. QED
  BY <1>1, <1>2, <1>3, <1>4, <1>5, <1>6, <1>7, <1>8, <1>9, <1>10, <1>11,
     <1>12 DEF Callback

\* IInv is kept by every step of the routing of a pass.
LEMMA PassStep == IInv /\ Pass => IInv'
<1> SUFFICES ASSUME IInv, Pass PROVE IInv'
  OBVIOUS
<1> USE NoActivityAssumption, KindsAssumption, NightModeAssumption
<1> USE DEF mainVars, screenVars, renderVars, signalVars, paintVars,
            deviceVars, historyVars, MaybeActivity, Actions, Callbacks,
            ManagerSteps, Resumes, IInv, TypeOK, TasksTypeOK, ScreensTypeOK,
            FlagsTypeOK, PendingIsOpenable, ControlOK, MutexOK,
            NoSelfDeadlock, SignalOK, WakeupOnTheWay, FreshOK
<1>1. CASE BeginPass
  BY <1>1 DEF BeginPass, ReleaseScope
<1>2. CASE RouteToExclusive
  BY <1>2 DEF RouteToExclusive, Goto
<1>3. CASE RouteToGesture
  BY <1>3 DEF RouteToGesture, Routing, Goto
<1>4. CASE RouteToActivity
  BY <1>4 DEF RouteToActivity, Routing, Goto
<1>5. CASE HomeGesture
  BY <1>5 DEF HomeGesture, Routing, Request
<1>6. ASSUME NEW c \in Activities, EnterDeepSleep(c) PROVE IInv'
  BY <1>6 DEF EnterDeepSleep, Request
<1>7. ASSUME NEW c \in Activities, FrontlightGesture(c) PROVE IInv'
  BY <1>7 DEF FrontlightGesture, Routing, StartActivityForResult,
       Request, PassReturn
<1>8. CASE SetupDone
  BY <1>8 DEF SetupDone, ReturnTo, ReleaseScope
<1>9. CASE ActivityDone
  BY <1>9 DEF ActivityDone, ReturnTo, ReleaseScope
<1>10. CASE HandlerDone
  BY <1>10 DEF HandlerDone, ReturnTo, ReleaseScope
<1>11. CASE OnEnterDone
  BY <1>11 DEF OnEnterDone, ReturnTo, ReleaseScope
<1>12. CASE GestureDone
  BY <1>12 DEF GestureDone, ReturnTo, ReleaseScope, PassReturn
<1>13. CASE ExclusiveDone
  <2>1. TasksTypeOK'
    BY <1>13 DEF ExclusiveDone, ReleaseScope, PassReturn, FlushRequest
  <2>2. ScreensTypeOK'
    BY <1>13 DEF ExclusiveDone, ReleaseScope, PassReturn, FlushRequest
  <2>3. FlagsTypeOK'
    <3>1. /\ requestedUpdate' \in BOOLEAN /\ notified' \in BOOLEAN
      <4>1. CASE pendingAction = "none"
        BY <1>13, <4>1, Zenon DEF ExclusiveDone, FlushRequest
      <4>2. CASE pendingAction # "none"
        BY <1>13, <4>2, Zenon DEF ExclusiveDone
      <4>. QED
        BY <4>1, <4>2
    <3>. HIDE DEF IInv, PendingIsOpenable, ControlOK, MutexOK, SignalOK, FreshOK
    <3>2. FlagsTypeOK
      BY DEF IInv, TypeOK
    <3>. QED
      BY <1>13, <3>1, <3>2, Zenon DEF ExclusiveDone
  <2>4. PendingIsOpenable' /\ ControlOK'
    BY <1>13 DEF ExclusiveDone, ReleaseScope, PassReturn, FlushRequest
  <2>5. MutexOK' /\ NoSelfDeadlock'
    BY <1>13 DEF ExclusiveDone, ReleaseScope, PassReturn, FlushRequest
  <2>6. SignalOK' /\ WakeupOnTheWay'
    BY <1>13 DEF ExclusiveDone, ReleaseScope, PassReturn, FlushRequest
  <2>7. FreshOK'
    BY <1>13 DEF ExclusiveDone, ReleaseScope, PassReturn, FlushRequest
  <2>. QED
    BY <2>1, <2>2, <2>3, <2>4, <2>5, <2>6, <2>7 DEF IInv, TypeOK
<1>. QED
  BY <1>1, <1>2, <1>3, <1>4, <1>5, <1>6, <1>7, <1>8, <1>9, <1>10, <1>11,
     <1>12, <1>13 DEF Pass, CallbackReturns

\* IInv is kept by every step of the dispatch loop.
LEMMA DispatchStep == IInv /\ Dispatch => IInv'
<1> SUFFICES ASSUME IInv, Dispatch PROVE IInv'
  OBVIOUS
<1> USE NoActivityAssumption, KindsAssumption, NightModeAssumption
<1> USE DEF mainVars, screenVars, renderVars, signalVars, paintVars,
            deviceVars, historyVars, MaybeActivity, Actions, Callbacks,
            ManagerSteps, Resumes
<1>1. CASE DeferScreenChange
  BY <1>1 DEF DeferScreenChange, Goto, PassReturn, IInv, TypeOK,
       TasksTypeOK, ScreensTypeOK, FlagsTypeOK, PendingIsOpenable, ControlOK,
       MutexOK, NoSelfDeadlock, SignalOK, WakeupOnTheWay, FreshOK
<1>2. CASE StartScreenChange
  <2>1. TasksTypeOK'
    BY <1>2 DEF StartScreenChange, ChangeStep, NeedsBackdrop, IInv,
         TypeOK, TasksTypeOK, ScreensTypeOK, PendingIsOpenable, ControlOK
  <2>2. ScreensTypeOK'
    BY <1>2 DEF StartScreenChange, ChangeStep, NeedsBackdrop, IInv,
         TypeOK, TasksTypeOK, ScreensTypeOK, PendingIsOpenable, ControlOK,
         MutexOK
  <2>3. FlagsTypeOK'
    BY <1>2, Zenon DEF StartScreenChange, ChangeStep, NeedsBackdrop,
         IInv, TypeOK, FlagsTypeOK
  <2>4. PendingIsOpenable' /\ ControlOK'
    BY <1>2 DEF StartScreenChange, ChangeStep, NeedsBackdrop, IInv,
         TypeOK, TasksTypeOK, ScreensTypeOK, PendingIsOpenable, ControlOK
  <2>5. MutexOK' /\ NoSelfDeadlock'
    BY <1>2 DEF StartScreenChange, ChangeStep, NeedsBackdrop, IInv,
         TypeOK, TasksTypeOK, PendingIsOpenable, ControlOK, MutexOK,
         NoSelfDeadlock
  <2>6. SignalOK' /\ WakeupOnTheWay'
    BY <1>2 DEF StartScreenChange, ChangeStep, NeedsBackdrop, IInv,
         TypeOK, TasksTypeOK, FlagsTypeOK, MutexOK, SignalOK, WakeupOnTheWay
  <2>7. FreshOK'
    BY <1>2 DEF StartScreenChange, ChangeStep, NeedsBackdrop, IInv,
         TypeOK, TasksTypeOK, ScreensTypeOK, PendingIsOpenable, ControlOK,
         MutexOK, NoSelfDeadlock, SignalOK, FreshOK
  <2>. QED
    BY <2>1, <2>2, <2>3, <2>4, <2>5, <2>6, <2>7 DEF IInv, TypeOK
<1>3. CASE PaintBackdrop
  BY <1>3 DEF PaintBackdrop, RequestUpdateAndWait, MayWait, IInv, TypeOK,
       TasksTypeOK, ScreensTypeOK, FlagsTypeOK, PendingIsOpenable, ControlOK,
       MutexOK, NoSelfDeadlock, SignalOK, WakeupOnTheWay, FreshOK
<1>4. CASE PopLast
  <2>1. TasksTypeOK'
    BY <1>4 DEF PopLast, MutexIsFree, Destroyed, MayRaiseAlert, IInv,
         TypeOK, TasksTypeOK, ScreensTypeOK, PendingIsOpenable, ControlOK
  <2>2. ScreensTypeOK'
    BY <1>4 DEF PopLast, MutexIsFree, Destroyed, MayRaiseAlert, IInv,
         TypeOK, TasksTypeOK, ScreensTypeOK, PendingIsOpenable, ControlOK,
         MutexOK
  <2>3. FlagsTypeOK'
    BY <1>4, Zenon DEF PopLast, MutexIsFree, Destroyed, MayRaiseAlert,
         IInv, TypeOK, FlagsTypeOK
  <2>4. PendingIsOpenable' /\ ControlOK'
    BY <1>4 DEF PopLast, MutexIsFree, Destroyed, MayRaiseAlert, IInv,
         TypeOK, TasksTypeOK, ScreensTypeOK, PendingIsOpenable, ControlOK
  <2>5. MutexOK' /\ NoSelfDeadlock'
    BY <1>4 DEF PopLast, MutexIsFree, Destroyed, MayRaiseAlert, IInv,
         TypeOK, TasksTypeOK, PendingIsOpenable, ControlOK, MutexOK,
         NoSelfDeadlock
  <2>6. SignalOK' /\ WakeupOnTheWay'
    BY <1>4 DEF PopLast, MutexIsFree, Destroyed, MayRaiseAlert, IInv,
         TypeOK, TasksTypeOK, FlagsTypeOK, MutexOK, SignalOK, WakeupOnTheWay
  <2>7. FreshOK'
    BY <1>4 DEF PopLast, MutexIsFree, Destroyed, MayRaiseAlert, IInv,
         TypeOK, TasksTypeOK, ScreensTypeOK, PendingIsOpenable, ControlOK,
         MutexOK, NoSelfDeadlock, SignalOK, FreshOK
  <2>. QED
    BY <2>1, <2>2, <2>3, <2>4, <2>5, <2>6, <2>7 DEF IInv, TypeOK
<1>5. CASE GoHomeDirectly
  <2>1. TasksTypeOK'
    BY <1>5 DEF GoHomeDirectly, NowCurrent, IInv, TypeOK, TasksTypeOK,
         ScreensTypeOK, PendingIsOpenable, ControlOK
  <2>2. ScreensTypeOK'
    BY <1>5 DEF GoHomeDirectly, NowCurrent, IInv, TypeOK, TasksTypeOK,
         ScreensTypeOK, PendingIsOpenable, ControlOK, MutexOK
  <2>3. FlagsTypeOK'
    BY <1>5, Zenon DEF GoHomeDirectly, NowCurrent, IInv, TypeOK,
         FlagsTypeOK
  <2>4. PendingIsOpenable' /\ ControlOK'
    BY <1>5 DEF GoHomeDirectly, NowCurrent, IInv, TypeOK, TasksTypeOK,
         ScreensTypeOK, PendingIsOpenable, ControlOK
  <2>5. MutexOK' /\ NoSelfDeadlock'
    BY <1>5 DEF GoHomeDirectly, NowCurrent, IInv, TypeOK, TasksTypeOK,
         PendingIsOpenable, ControlOK, MutexOK, NoSelfDeadlock
  <2>6. SignalOK' /\ WakeupOnTheWay'
    BY <1>5 DEF GoHomeDirectly, NowCurrent, IInv, TypeOK, TasksTypeOK,
         FlagsTypeOK, MutexOK, SignalOK, WakeupOnTheWay
  <2>7. FreshOK'
    BY <1>5 DEF GoHomeDirectly, NowCurrent, IInv, TypeOK, TasksTypeOK,
         ScreensTypeOK, PendingIsOpenable, ControlOK, MutexOK, NoSelfDeadlock,
         SignalOK, FreshOK
  <2>. QED
    BY <2>1, <2>2, <2>3, <2>4, <2>5, <2>6, <2>7 DEF IInv, TypeOK
<1>6. CASE PopToParent
  <2>1. TasksTypeOK'
    BY <1>6 DEF PopToParent, MutexIsFree, MoveOutHandler, PopBack,
         MayRaiseAlert, IInv, TypeOK, TasksTypeOK, ScreensTypeOK,
         PendingIsOpenable, ControlOK
  <2>2. ScreensTypeOK'
    BY <1>6 DEF PopToParent, MutexIsFree, MoveOutHandler, PopBack,
         MayRaiseAlert, IInv, TypeOK, TasksTypeOK, ScreensTypeOK,
         PendingIsOpenable, ControlOK, MutexOK
  <2>3. FlagsTypeOK'
    BY <1>6, Zenon DEF PopToParent, MutexIsFree, MoveOutHandler, PopBack,
         MayRaiseAlert, IInv, TypeOK, FlagsTypeOK
  <2>4. PendingIsOpenable' /\ ControlOK'
    BY <1>6 DEF PopToParent, MutexIsFree, MoveOutHandler, PopBack,
         MayRaiseAlert, IInv, TypeOK, TasksTypeOK, ScreensTypeOK,
         PendingIsOpenable, ControlOK
  <2>5. MutexOK' /\ NoSelfDeadlock'
    BY <1>6 DEF PopToParent, MutexIsFree, MoveOutHandler, PopBack,
         MayRaiseAlert, IInv, TypeOK, TasksTypeOK, PendingIsOpenable,
         ControlOK, MutexOK, NoSelfDeadlock
  <2>6. SignalOK' /\ WakeupOnTheWay'
    BY <1>6 DEF PopToParent, MutexIsFree, MoveOutHandler, PopBack,
         MayRaiseAlert, IInv, TypeOK, TasksTypeOK, FlagsTypeOK, MutexOK,
         SignalOK, WakeupOnTheWay
  <2>7. FreshOK'
    BY <1>6 DEF PopToParent, MutexIsFree, MoveOutHandler, PopBack,
         MayRaiseAlert, IInv, TypeOK, TasksTypeOK, ScreensTypeOK,
         PendingIsOpenable, ControlOK, MutexOK, NoSelfDeadlock, SignalOK,
         FreshOK
  <2>. QED
    BY <2>1, <2>2, <2>3, <2>4, <2>5, <2>6, <2>7 DEF IInv, TypeOK
<1>7. CASE AfterPop
  BY <1>7 DEF AfterPop, IInv, TypeOK, TasksTypeOK, ScreensTypeOK,
       FlagsTypeOK, PendingIsOpenable, ControlOK, MutexOK, NoSelfDeadlock,
       SignalOK, WakeupOnTheWay, FreshOK
<1>8. CASE LiftOverlay
  <2>1. TasksTypeOK'
    BY <1>8 DEF LiftOverlay, MutexIsFree, NowCurrent, PopBack, IInv,
         TypeOK, TasksTypeOK, ScreensTypeOK, PendingIsOpenable, ControlOK
  <2>2. ScreensTypeOK'
    BY <1>8 DEF LiftOverlay, MutexIsFree, NowCurrent, PopBack, IInv,
         TypeOK, TasksTypeOK, ScreensTypeOK, PendingIsOpenable, ControlOK,
         MutexOK
  <2>3. FlagsTypeOK'
    BY <1>8, Zenon DEF LiftOverlay, MutexIsFree, NowCurrent, PopBack,
         IInv, TypeOK, FlagsTypeOK
  <2>4. PendingIsOpenable' /\ ControlOK'
    BY <1>8 DEF LiftOverlay, MutexIsFree, NowCurrent, PopBack, IInv,
         TypeOK, TasksTypeOK, ScreensTypeOK, PendingIsOpenable, ControlOK
  <2>5. MutexOK' /\ NoSelfDeadlock'
    BY <1>8 DEF LiftOverlay, MutexIsFree, NowCurrent, PopBack, IInv,
         TypeOK, TasksTypeOK, PendingIsOpenable, ControlOK, MutexOK,
         NoSelfDeadlock
  <2>6. SignalOK' /\ WakeupOnTheWay'
    BY <1>8 DEF LiftOverlay, MutexIsFree, NowCurrent, PopBack, IInv,
         TypeOK, TasksTypeOK, FlagsTypeOK, MutexOK, SignalOK, WakeupOnTheWay
  <2>7. FreshOK'
    BY <1>8 DEF LiftOverlay, MutexIsFree, NowCurrent, PopBack, IInv,
         TypeOK, TasksTypeOK, ScreensTypeOK, PendingIsOpenable, ControlOK,
         MutexOK, NoSelfDeadlock, SignalOK, FreshOK
  <2>. QED
    BY <2>1, <2>2, <2>3, <2>4, <2>5, <2>6, <2>7 DEF IInv, TypeOK
<1>9. CASE PaintUnderOverlay
  BY <1>9 DEF PaintUnderOverlay, RequestUpdateAndWait, MayWait, IInv,
       TypeOK, TasksTypeOK, ScreensTypeOK, FlagsTypeOK, PendingIsOpenable,
       ControlOK, MutexOK, NoSelfDeadlock, SignalOK, WakeupOnTheWay, FreshOK
<1>10. CASE LowerOverlay
  <2>1. TasksTypeOK'
    BY <1>10 DEF LowerOverlay, MutexIsFree, PushBack, NowCurrent, IInv,
         TypeOK, TasksTypeOK, ScreensTypeOK, PendingIsOpenable, ControlOK
  <2>2. ScreensTypeOK'
    BY <1>10 DEF LowerOverlay, MutexIsFree, PushBack, NowCurrent, IInv,
         TypeOK, TasksTypeOK, ScreensTypeOK, PendingIsOpenable, ControlOK,
         MutexOK
  <2>3. FlagsTypeOK'
    BY <1>10, Zenon DEF LowerOverlay, MutexIsFree, PushBack, NowCurrent,
         IInv, TypeOK, FlagsTypeOK
  <2>4. PendingIsOpenable' /\ ControlOK'
    BY <1>10 DEF LowerOverlay, MutexIsFree, PushBack, NowCurrent, IInv,
         TypeOK, TasksTypeOK, ScreensTypeOK, PendingIsOpenable, ControlOK
  <2>5. MutexOK' /\ NoSelfDeadlock'
    BY <1>10 DEF LowerOverlay, MutexIsFree, PushBack, NowCurrent, IInv,
         TypeOK, TasksTypeOK, PendingIsOpenable, ControlOK, MutexOK,
         NoSelfDeadlock
  <2>6. SignalOK' /\ WakeupOnTheWay'
    BY <1>10 DEF LowerOverlay, MutexIsFree, PushBack, NowCurrent, IInv,
         TypeOK, TasksTypeOK, FlagsTypeOK, MutexOK, SignalOK, WakeupOnTheWay
  <2>7. FreshOK'
    BY <1>10 DEF LowerOverlay, MutexIsFree, PushBack, NowCurrent, IInv,
         TypeOK, TasksTypeOK, ScreensTypeOK, PendingIsOpenable, ControlOK,
         MutexOK, NoSelfDeadlock, SignalOK, FreshOK
  <2>. QED
    BY <2>1, <2>2, <2>3, <2>4, <2>5, <2>6, <2>7 DEF IInv, TypeOK
<1>11. CASE SwapPush
  <2>1. TasksTypeOK'
    BY <1>11 DEF SwapPush, MutexIsFree, PushBack, NowCurrent,
         PendingTaken, OnEnterOf, IInv, TypeOK, TasksTypeOK, ScreensTypeOK,
         PendingIsOpenable, ControlOK
  <2>2. ScreensTypeOK'
    BY <1>11 DEF SwapPush, MutexIsFree, PushBack, NowCurrent,
         PendingTaken, OnEnterOf, IInv, TypeOK, TasksTypeOK, ScreensTypeOK,
         PendingIsOpenable, ControlOK, MutexOK
  <2>3. FlagsTypeOK'
    BY <1>11, Zenon DEF SwapPush, MutexIsFree, PushBack, NowCurrent,
         PendingTaken, OnEnterOf, IInv, TypeOK, FlagsTypeOK
  <2>4. PendingIsOpenable' /\ ControlOK'
    BY <1>11 DEF SwapPush, MutexIsFree, PushBack, NowCurrent,
         PendingTaken, OnEnterOf, IInv, TypeOK, TasksTypeOK, ScreensTypeOK,
         PendingIsOpenable, ControlOK
  <2>5. MutexOK' /\ NoSelfDeadlock'
    BY <1>11 DEF SwapPush, MutexIsFree, PushBack, NowCurrent,
         PendingTaken, OnEnterOf, IInv, TypeOK, TasksTypeOK,
         PendingIsOpenable, ControlOK, MutexOK, NoSelfDeadlock
  <2>6. SignalOK' /\ WakeupOnTheWay'
    BY <1>11 DEF SwapPush, MutexIsFree, PushBack, NowCurrent,
         PendingTaken, OnEnterOf, IInv, TypeOK, TasksTypeOK, FlagsTypeOK,
         MutexOK, SignalOK, WakeupOnTheWay
  <2>7. FreshOK'
    BY <1>11 DEF SwapPush, MutexIsFree, PushBack, NowCurrent,
         PendingTaken, OnEnterOf, IInv, TypeOK, TasksTypeOK, ScreensTypeOK,
         PendingIsOpenable, ControlOK, MutexOK, NoSelfDeadlock, SignalOK,
         FreshOK
  <2>. QED
    BY <2>1, <2>2, <2>3, <2>4, <2>5, <2>6, <2>7 DEF IInv, TypeOK
<1>12. CASE SwapReplace
  <2>1. TasksTypeOK'
    BY <1>12 DEF SwapReplace, MutexIsFree, Destroyed, MayRaiseAlert,
         AllScreens, PendingTaken, OnEnterOf, IInv, TypeOK, TasksTypeOK,
         ScreensTypeOK, PendingIsOpenable, ControlOK
  <2>2. ScreensTypeOK'
    BY <1>12 DEF SwapReplace, MutexIsFree, Destroyed, MayRaiseAlert,
         AllScreens, PendingTaken, OnEnterOf, IInv, TypeOK, TasksTypeOK,
         ScreensTypeOK, PendingIsOpenable, ControlOK, MutexOK
  <2>3. FlagsTypeOK'
    BY <1>12, Zenon DEF SwapReplace, MutexIsFree, Destroyed,
         MayRaiseAlert, AllScreens, PendingTaken, OnEnterOf, IInv, TypeOK,
         FlagsTypeOK
  <2>4. PendingIsOpenable' /\ ControlOK'
    BY <1>12 DEF SwapReplace, MutexIsFree, Destroyed, MayRaiseAlert,
         AllScreens, PendingTaken, OnEnterOf, IInv, TypeOK, TasksTypeOK,
         ScreensTypeOK, PendingIsOpenable, ControlOK
  <2>5. MutexOK' /\ NoSelfDeadlock'
    BY <1>12 DEF SwapReplace, MutexIsFree, Destroyed, MayRaiseAlert,
         AllScreens, PendingTaken, OnEnterOf, IInv, TypeOK, TasksTypeOK,
         PendingIsOpenable, ControlOK, MutexOK, NoSelfDeadlock
  <2>6. SignalOK' /\ WakeupOnTheWay'
    BY <1>12 DEF SwapReplace, MutexIsFree, Destroyed, MayRaiseAlert,
         AllScreens, PendingTaken, OnEnterOf, IInv, TypeOK, TasksTypeOK,
         FlagsTypeOK, MutexOK, SignalOK, WakeupOnTheWay
  <2>7. FreshOK'
    BY <1>12 DEF SwapReplace, MutexIsFree, Destroyed, MayRaiseAlert,
         AllScreens, PendingTaken, OnEnterOf, IInv, TypeOK, TasksTypeOK,
         ScreensTypeOK, PendingIsOpenable, ControlOK, MutexOK, NoSelfDeadlock,
         SignalOK, FreshOK
  <2>. QED
    BY <2>1, <2>2, <2>3, <2>4, <2>5, <2>6, <2>7 DEF IInv, TypeOK
<1>13. CASE FinishPass
  <2>1. TasksTypeOK'
    BY <1>13 DEF FinishPass, FlushRequest, PassReturn, IInv, TypeOK,
         TasksTypeOK, ScreensTypeOK, PendingIsOpenable, ControlOK
  <2>2. ScreensTypeOK'
    BY <1>13 DEF FinishPass, FlushRequest, PassReturn, IInv, TypeOK,
         TasksTypeOK, ScreensTypeOK, PendingIsOpenable, ControlOK, MutexOK
  <2>3. FlagsTypeOK'
    BY <1>13, Zenon DEF FinishPass, FlushRequest, PassReturn, IInv,
         TypeOK, FlagsTypeOK
  <2>4. PendingIsOpenable' /\ ControlOK'
    BY <1>13 DEF FinishPass, FlushRequest, PassReturn, IInv, TypeOK,
         TasksTypeOK, ScreensTypeOK, PendingIsOpenable, ControlOK
  <2>5. MutexOK' /\ NoSelfDeadlock'
    BY <1>13 DEF FinishPass, FlushRequest, PassReturn, IInv, TypeOK,
         TasksTypeOK, PendingIsOpenable, ControlOK, MutexOK, NoSelfDeadlock
  <2>6. SignalOK' /\ WakeupOnTheWay'
    BY <1>13 DEF FinishPass, FlushRequest, PassReturn, IInv, TypeOK,
         TasksTypeOK, FlagsTypeOK, MutexOK, SignalOK, WakeupOnTheWay
  <2>7. FreshOK'
    BY <1>13 DEF FinishPass, FlushRequest, PassReturn, IInv, TypeOK,
         TasksTypeOK, ScreensTypeOK, PendingIsOpenable, ControlOK, MutexOK,
         NoSelfDeadlock, SignalOK, FreshOK
  <2>. QED
    BY <2>1, <2>2, <2>3, <2>4, <2>5, <2>6, <2>7 DEF IInv, TypeOK
<1>14. CASE SleepQuickResume
  BY <1>14 DEF SleepQuickResume, IInv, TypeOK, TasksTypeOK,
       ScreensTypeOK, FlagsTypeOK, PendingIsOpenable, ControlOK, MutexOK,
       NoSelfDeadlock, SignalOK, WakeupOnTheWay, FreshOK
<1>15. CASE SleepSetPolarity
  <2>1. TasksTypeOK'
    BY <1>15 DEF SleepSetPolarity, IInv, TypeOK, TasksTypeOK,
         ScreensTypeOK, PendingIsOpenable, ControlOK
  <2>2. ScreensTypeOK'
    BY <1>15 DEF SleepSetPolarity, IInv, TypeOK, TasksTypeOK,
         ScreensTypeOK, PendingIsOpenable, ControlOK, MutexOK
  <2>3. FlagsTypeOK'
    BY <1>15, Zenon DEF SleepSetPolarity, IInv, TypeOK, FlagsTypeOK
  <2>4. PendingIsOpenable' /\ ControlOK'
    BY <1>15 DEF SleepSetPolarity, IInv, TypeOK, TasksTypeOK,
         ScreensTypeOK, PendingIsOpenable, ControlOK
  <2>5. MutexOK' /\ NoSelfDeadlock'
    BY <1>15 DEF SleepSetPolarity, IInv, TypeOK, TasksTypeOK,
         PendingIsOpenable, ControlOK, MutexOK, NoSelfDeadlock
  <2>6. SignalOK' /\ WakeupOnTheWay'
    BY <1>15 DEF SleepSetPolarity, IInv, TypeOK, TasksTypeOK,
         FlagsTypeOK, MutexOK, SignalOK, WakeupOnTheWay
  <2>7. FreshOK'
    BY <1>15 DEF SleepSetPolarity, IInv, TypeOK, TasksTypeOK,
         ScreensTypeOK, PendingIsOpenable, ControlOK, MutexOK, NoSelfDeadlock,
         SignalOK, FreshOK
  <2>. QED
    BY <2>1, <2>2, <2>3, <2>4, <2>5, <2>6, <2>7 DEF IInv, TypeOK
<1>16. CASE SleepDraw
  BY <1>16 DEF SleepDraw, Goto, IInv, TypeOK, TasksTypeOK, ScreensTypeOK,
       FlagsTypeOK, PendingIsOpenable, ControlOK, MutexOK, NoSelfDeadlock,
       SignalOK, WakeupOnTheWay, FreshOK
<1>17. CASE UsbPaint
  BY <1>17 DEF UsbPaint, RequestUpdateAndWait, MayWait, IInv, TypeOK,
       TasksTypeOK, ScreensTypeOK, FlagsTypeOK, PendingIsOpenable, ControlOK,
       MutexOK, NoSelfDeadlock, SignalOK, WakeupOnTheWay, FreshOK
<1>18. CASE UsbDetach
  BY <1>18 DEF UsbDetach, IInv, TypeOK, TasksTypeOK, ScreensTypeOK,
       FlagsTypeOK, PendingIsOpenable, ControlOK, MutexOK, NoSelfDeadlock,
       SignalOK, WakeupOnTheWay, FreshOK
<1>. QED
  BY <1>1, <1>2, <1>3, <1>4, <1>5, <1>6, <1>7, <1>8, <1>9, <1>10, <1>11,
     <1>12, <1>13, <1>14, <1>15, <1>16, <1>17, <1>18 DEF Dispatch

\* IInv is kept by every step of the render task.
LEMMA RenderStep == IInv /\ Render => IInv'
<1> SUFFICES ASSUME IInv, Render PROVE IInv'
  OBVIOUS
<1> USE NoActivityAssumption, KindsAssumption, NightModeAssumption
<1> USE DEF mainVars, screenVars, renderVars, signalVars, paintVars,
            deviceVars, historyVars, MaybeActivity, Actions, Callbacks,
            ManagerSteps, Resumes
<1>1. CASE RenderTake
  <2>1. TasksTypeOK'
    BY <1>1 DEF RenderTake, IInv, TypeOK, TasksTypeOK, ScreensTypeOK,
         PendingIsOpenable, ControlOK
  <2>2. ScreensTypeOK'
    BY <1>1 DEF RenderTake, IInv, TypeOK, TasksTypeOK, ScreensTypeOK,
         PendingIsOpenable, ControlOK, MutexOK
  <2>3. FlagsTypeOK'
    BY <1>1, Zenon DEF RenderTake, IInv, TypeOK, FlagsTypeOK
  <2>4. PendingIsOpenable' /\ ControlOK'
    BY <1>1 DEF RenderTake, IInv, TypeOK, TasksTypeOK, ScreensTypeOK,
         PendingIsOpenable, ControlOK
  <2>5. MutexOK' /\ NoSelfDeadlock'
    BY <1>1 DEF RenderTake, IInv, TypeOK, TasksTypeOK, PendingIsOpenable,
         ControlOK, MutexOK, NoSelfDeadlock
  <2>6. SignalOK' /\ WakeupOnTheWay'
    BY <1>1 DEF RenderTake, IInv, TypeOK, TasksTypeOK, FlagsTypeOK,
         MutexOK, SignalOK, WakeupOnTheWay
  <2>7. FreshOK'
    BY <1>1 DEF RenderTake, IInv, TypeOK, TasksTypeOK, ScreensTypeOK,
         PendingIsOpenable, ControlOK, MutexOK, NoSelfDeadlock, SignalOK,
         FreshOK
  <2>. QED
    BY <2>1, <2>2, <2>3, <2>4, <2>5, <2>6, <2>7 DEF IInv, TypeOK
<1>2. CASE RenderLock
  <2>1. TasksTypeOK'
    BY <1>2 DEF RenderLock, MutexIsFree, IInv, TypeOK, TasksTypeOK,
         ScreensTypeOK, PendingIsOpenable, ControlOK
  <2>2. ScreensTypeOK'
    BY <1>2 DEF RenderLock, MutexIsFree, IInv, TypeOK, TasksTypeOK,
         ScreensTypeOK, PendingIsOpenable, ControlOK, MutexOK
  <2>3. FlagsTypeOK'
    <3>1. inverted' \in BOOLEAN
      BY <1>2, NightModeAssumption, Zenon DEF RenderLock, IInv, TypeOK, FlagsTypeOK
    <3>2. visitCaptured' \in BOOLEAN
      BY <1>2, Zenon DEF RenderLock, IInv, TypeOK, FlagsTypeOK
    <3>. QED
      BY <1>2, <3>1, <3>2, Zenon DEF RenderLock, IInv, TypeOK, FlagsTypeOK
  <2>4. PendingIsOpenable' /\ ControlOK'
    BY <1>2 DEF RenderLock, MutexIsFree, IInv, TypeOK, TasksTypeOK,
         ScreensTypeOK, PendingIsOpenable, ControlOK
  <2>5. MutexOK' /\ NoSelfDeadlock'
    BY <1>2 DEF RenderLock, MutexIsFree, IInv, TypeOK, TasksTypeOK,
         PendingIsOpenable, ControlOK, MutexOK, NoSelfDeadlock
  <2>6. SignalOK' /\ WakeupOnTheWay'
    BY <1>2 DEF RenderLock, MutexIsFree, IInv, TypeOK, TasksTypeOK,
         FlagsTypeOK, MutexOK, SignalOK, WakeupOnTheWay
  <2>7. FreshOK'
    BY <1>2 DEF RenderLock, MutexIsFree, IInv, TypeOK, TasksTypeOK,
         ScreensTypeOK, PendingIsOpenable, ControlOK, MutexOK, NoSelfDeadlock,
         SignalOK, FreshOK
  <2>. QED
    BY <2>1, <2>2, <2>3, <2>4, <2>5, <2>6, <2>7 DEF IInv, TypeOK
<1>3. CASE RenderPaint
  <2>1. TasksTypeOK'
    BY <1>3 DEF RenderPaint, MayRaiseAlert, IInv, TypeOK, TasksTypeOK,
         ScreensTypeOK, PendingIsOpenable, ControlOK
  <2>2. ScreensTypeOK'
    BY <1>3 DEF RenderPaint, MayRaiseAlert, IInv, TypeOK, TasksTypeOK,
         ScreensTypeOK, PendingIsOpenable, ControlOK, MutexOK
  <2>3. FlagsTypeOK'
    BY <1>3, Zenon DEF RenderPaint, MayRaiseAlert, IInv, TypeOK,
         FlagsTypeOK
  <2>4. PendingIsOpenable' /\ ControlOK'
    BY <1>3 DEF RenderPaint, MayRaiseAlert, IInv, TypeOK, TasksTypeOK,
         ScreensTypeOK, PendingIsOpenable, ControlOK
  <2>5. MutexOK' /\ NoSelfDeadlock'
    BY <1>3 DEF RenderPaint, MayRaiseAlert, IInv, TypeOK, TasksTypeOK,
         PendingIsOpenable, ControlOK, MutexOK, NoSelfDeadlock
  <2>6. SignalOK' /\ WakeupOnTheWay'
    BY <1>3 DEF RenderPaint, MayRaiseAlert, IInv, TypeOK, TasksTypeOK,
         FlagsTypeOK, MutexOK, SignalOK, WakeupOnTheWay
  <2>7. FreshOK'
    BY <1>3 DEF RenderPaint, MayRaiseAlert, IInv, TypeOK, TasksTypeOK,
         ScreensTypeOK, PendingIsOpenable, ControlOK, MutexOK, NoSelfDeadlock,
         SignalOK, FreshOK
  <2>. QED
    BY <2>1, <2>2, <2>3, <2>4, <2>5, <2>6, <2>7 DEF IInv, TypeOK
<1>4. CASE RenderPublish
  <2>1. TasksTypeOK'
    BY <1>4 DEF RenderPublish, AnswerWaiter, IInv, TypeOK, TasksTypeOK,
         ScreensTypeOK, PendingIsOpenable, ControlOK
  <2>2. ScreensTypeOK'
    BY <1>4 DEF RenderPublish, AnswerWaiter, IInv, TypeOK, TasksTypeOK,
         ScreensTypeOK, PendingIsOpenable, ControlOK, MutexOK
  <2>3. FlagsTypeOK'
    BY <1>4, Zenon DEF RenderPublish, AnswerWaiter, IInv, TypeOK,
         FlagsTypeOK
  <2>4. PendingIsOpenable' /\ ControlOK'
    BY <1>4 DEF RenderPublish, AnswerWaiter, IInv, TypeOK, TasksTypeOK,
         ScreensTypeOK, PendingIsOpenable, ControlOK
  <2>5. MutexOK' /\ NoSelfDeadlock'
    BY <1>4 DEF RenderPublish, AnswerWaiter, IInv, TypeOK, TasksTypeOK,
         PendingIsOpenable, ControlOK, MutexOK, NoSelfDeadlock
  <2>6. SignalOK' /\ WakeupOnTheWay'
    BY <1>4 DEF RenderPublish, AnswerWaiter, IInv, TypeOK, TasksTypeOK,
         FlagsTypeOK, MutexOK, SignalOK, WakeupOnTheWay
  <2>7. FreshOK'
    BY <1>4 DEF RenderPublish, AnswerWaiter, IInv, TypeOK, TasksTypeOK,
         ScreensTypeOK, PendingIsOpenable, ControlOK, MutexOK, NoSelfDeadlock,
         SignalOK, FreshOK
  <2>. QED
    BY <2>1, <2>2, <2>3, <2>4, <2>5, <2>6, <2>7 DEF IInv, TypeOK
<1>5. CASE RenderRelease
  BY <1>5 DEF RenderRelease, IInv, TypeOK, TasksTypeOK, ScreensTypeOK,
       FlagsTypeOK, PendingIsOpenable, ControlOK, MutexOK, NoSelfDeadlock,
       SignalOK, WakeupOnTheWay, FreshOK
<1>. QED
  BY <1>1, <1>2, <1>3, <1>4, <1>5 DEF Render

\* IInv is kept by a restart of the device.
LEMMA RebootStep == Reboot => IInv'
<1> SUFFICES ASSUME Reboot PROVE IInv'
  OBVIOUS
<1> USE NoActivityAssumption, KindsAssumption
<1>1. TasksTypeOK'
  BY DEF Reboot, TasksTypeOK, MaybeActivity, Callbacks, ManagerSteps, Resumes
<1>2. ScreensTypeOK'
  BY DEF Reboot, ScreensTypeOK, MaybeActivity, Actions
<1>3. FlagsTypeOK'
  BY Zenon DEF Reboot, FlagsTypeOK
<1>4. PendingIsOpenable' /\ ControlOK'
  BY DEF Reboot, PendingIsOpenable, ControlOK
<1>5. MutexOK' /\ NoSelfDeadlock'
  BY DEF Reboot, MutexOK, NoSelfDeadlock
<1>6. SignalOK' /\ WakeupOnTheWay' /\ FreshOK'
  BY DEF Reboot, SignalOK, WakeupOnTheWay, FreshOK
<1>. QED
  BY <1>1, <1>2, <1>3, <1>4, <1>5, <1>6 DEF IInv, TypeOK

\* The state after boot satisfies IInv.
LEMMA Boot == Init => IInv
<1> SUFFICES ASSUME Init PROVE IInv
  OBVIOUS
<1> USE NoActivityAssumption, KindsAssumption
<1>1. TasksTypeOK
  BY DEF Init, TasksTypeOK, MaybeActivity, Callbacks, ManagerSteps, Resumes
<1>2. ScreensTypeOK
  BY DEF Init, ScreensTypeOK, MaybeActivity, Actions
<1>3. FlagsTypeOK
  BY Zenon DEF Init, FlagsTypeOK
<1>4. PendingIsOpenable /\ ControlOK
  BY DEF Init, PendingIsOpenable, ControlOK
<1>5. MutexOK /\ NoSelfDeadlock
  BY DEF Init, MutexOK, NoSelfDeadlock
<1>6. SignalOK /\ WakeupOnTheWay /\ FreshOK
  BY DEF Init, SignalOK, WakeupOnTheWay, FreshOK
<1>. QED
  BY <1>1, <1>2, <1>3, <1>4, <1>5, <1>6 DEF IInv, TypeOK

\* IInv is kept by every step, and by a step that changes nothing.
LEMMA Step == IInv /\ [Next]_vars => IInv'
<1> SUFFICES ASSUME IInv, [Next]_vars PROVE IInv'
  OBVIOUS
<1>1. CASE RenderAnswered
  <2> USE DEF screenVars, renderVars, paintVars, deviceVars, historyVars
  <2>1. TasksTypeOK'
    BY <1>1 DEF RenderAnswered, IInv, TypeOK, TasksTypeOK, Resumes, Callbacks,
                ManagerSteps, ControlOK
  <2>2. ScreensTypeOK'
    BY <1>1 DEF RenderAnswered, IInv, TypeOK, ScreensTypeOK
  <2>3. FlagsTypeOK'
    BY <1>1, Zenon DEF RenderAnswered, IInv, TypeOK, FlagsTypeOK
  <2>4. PendingIsOpenable' /\ ControlOK'
    BY <1>1 DEF RenderAnswered, IInv, TypeOK, TasksTypeOK, ScreensTypeOK,
                PendingIsOpenable, ControlOK, Resumes, Callbacks
  <2>5. MutexOK' /\ NoSelfDeadlock'
    BY <1>1 DEF RenderAnswered, IInv, MutexOK, NoSelfDeadlock, Callbacks
  <2>6. SignalOK' /\ WakeupOnTheWay' /\ FreshOK'
    BY <1>1 DEF RenderAnswered, IInv, TypeOK, TasksTypeOK, Resumes, Callbacks,
                SignalOK, WakeupOnTheWay, FreshOK
  <2>. QED
    BY <2>1, <2>2, <2>3, <2>4, <2>5, <2>6 DEF IInv, TypeOK
<1>2. CASE Wake \/ UsbRestart
  BY <1>2, RebootStep DEF Wake, UsbRestart
<1>3. CASE UNCHANGED vars
  BY <1>3 DEF vars, mainVars, screenVars, renderVars, signalVars, paintVars,
              deviceVars, historyVars, IInv, TypeOK, TasksTypeOK, ScreensTypeOK,
              FlagsTypeOK, PendingIsOpenable, ControlOK, MutexOK,
              NoSelfDeadlock, SignalOK, WakeupOnTheWay, FreshOK
<1>. QED
  BY <1>1, <1>2, <1>3, CallbackStep, PassStep, DispatchStep, RenderStep
     DEF Next

-----------------------------------------------------------------------------
(* The theorems.                                                            *)

\* In every behaviour of the two tasks IInv holds throughout.
THEOREM Invariance == Spec => []IInv
  BY Boot, Step, PTL DEF Spec

\* Every variable keeps its type.
THEOREM TypeCorrect == Spec => []TypeOK
<1>1. IInv => TypeOK
  BY DEF IInv
<1>. QED
  BY <1>1, Invariance, PTL

\* The main task never deletes an activity, nor replaces currentActivity, while
\* the render task is inside its render(): currentActivity changes only under
\* the mutex, and render() runs under it.
THEOREM NeverUsedAfterFree == Spec => []NoUseAfterFree
<1>1. IInv => NoUseAfterFree
  BY DEF IInv, MutexOK, NoUseAfterFree
<1>. QED
  BY <1>1, Invariance, PTL

\* The dispatch loop always has an activity to open for a pending push or
\* replace.
THEOREM AlwaysOpenable == Spec => []PendingIsOpenable
<1>1. IInv => PendingIsOpenable
  BY DEF IInv
<1>. QED
  BY <1>1, Invariance, PTL

\* The main task never waits for a render, nor for the mutex, while it holds the
\* mutex itself.
THEOREM NeverSelfDeadlocks == Spec => []NoSelfDeadlock
<1>1. IInv => NoSelfDeadlock
  BY DEF IInv
<1>. QED
  BY <1>1, Invariance, PTL

\* No wake-up of requestUpdateAndWait() is ever lost.
THEOREM NoLostWakeup == Spec => []WakeupOnTheWay
<1>1. IInv => WakeupOnTheWay
  BY DEF IInv
<1>. QED
  BY <1>1, Invariance, PTL

\* requestUpdateAndWait() returns to an activity that changes what it shows only
\* under RenderLock with that change in the frame painted last.
THEOREM AnswerIsFresh == Spec => []WaitShowsNewState
<1>1. IInv => WaitShowsNewState
  BY DEF IInv, FreshOK, WaitShowsNewState
<1>. QED
  BY <1>1, Invariance, PTL

=============================================================================
