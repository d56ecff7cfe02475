---------------------------- MODULE ScreenProofs ----------------------------
(***************************************************************************)
(* Theorems about the screens ActivityManager keeps: who owns them, that   *)
(* they are entered and exited in pairs, which handler gets a result, and  *)
(* that all of it implements NavStack.                                     *)
(***************************************************************************)
EXTENDS ActivityManagerProofs, SequenceTheorems

-----------------------------------------------------------------------------
(* The sequences the stack is built from.                                   *)

\* x occurs in the sequence s; no element of s occurs twice.
Among(x, s) == \E i \in DOMAIN s : s[i] = x
Distinct(s) == \A i, j \in DOMAIN s : s[i] = s[j] => i = j

\* push_back() leaves every screen where it was, one deeper.
LEMMA Pushed ==
  ASSUME NEW S, NEW s \in Seq(S), NEW a \in S
  PROVE  /\ <<a>> \o s \in Seq(S)
         /\ DOMAIN s = 1..Len(s) /\ Len(s) \in Nat
         /\ DOMAIN (<<a>> \o s) = 1..(Len(s) + 1)
         /\ (<<a>> \o s)[1] = a
         /\ \A i \in 1..Len(s) :
              /\ (<<a>> \o s)[i + 1] = s[i]
              /\ (<<a>> \o s)[i] = IF i = 1 THEN a ELSE s[i - 1]
  OBVIOUS

\* The screens after push_back() are those before it and the new one.
LEMMA PushedRange ==
  ASSUME NEW S, NEW s \in Seq(S), NEW a \in S
  PROVE  /\ \A x : Among(x, <<a>> \o s) <=> x = a \/ Among(x, s)
         /\ Distinct(s) /\ ~Among(a, s) => Distinct(<<a>> \o s)
<1> DEFINE t == <<a>> \o s
<1>1. /\ DOMAIN s = 1..Len(s) /\ Len(s) \in Nat
      /\ DOMAIN t = 1..(Len(s) + 1) /\ t[1] = a
      /\ \A i \in 1..Len(s) : t[i + 1] = s[i]
  BY Pushed
<1> HIDE DEF t
<1>2. \A i \in DOMAIN t : i # 1 => i - 1 \in DOMAIN s /\ t[i] = s[i - 1]
  <2>1. \A i \in DOMAIN t : i # 1 => i - 1 \in 1..Len(s) /\ (i - 1) + 1 = i
    BY <1>1
  <2>. QED
    BY <2>1, <1>1
<1>3. \A i \in DOMAIN s : i + 1 \in DOMAIN t /\ t[i + 1] = s[i]
  BY <1>1
<1>4. 1 \in DOMAIN t
  BY <1>1
<1>5. \A i, j \in DOMAIN t : i - 1 = j - 1 => i = j
  BY <1>1
<1>6. ASSUME \A i \in DOMAIN s : s[i] # a,
             \A i, j \in DOMAIN s : s[i] = s[j] => i = j,
             NEW i \in DOMAIN t, NEW j \in DOMAIN t, t[i] = t[j]
      PROVE  i = j
  <2>1. CASE i = 1 \/ j = 1
    BY <1>1, <1>2, <1>6, <2>1
  <2>2. CASE i # 1 /\ j # 1
    BY <1>2, <1>5, <1>6, <2>2
  <2>. QED
    BY <2>1, <2>2
<1>7. \A i \in DOMAIN t : t[i] = a \/ \E j \in DOMAIN s : t[i] = s[j]
  BY <1>1, <1>2
<1>8. \A j \in DOMAIN s : \E i \in DOMAIN t : t[i] = s[j]
  BY <1>3
<1>9. \E i \in DOMAIN t : t[i] = a
  BY <1>1, <1>4
<1>. QED
  BY <1>6, <1>7, <1>8, <1>9 DEF Among, Distinct, t

\* pop_back() takes the topmost screen off and leaves the others, one higher.
LEMMA Popped ==
  ASSUME NEW S, NEW s \in Seq(S), s # <<>>
  PROVE  /\ Tail(s) \in Seq(S) /\ Head(s) \in S
         /\ DOMAIN s = 1..Len(s) /\ Len(s) \in Nat /\ Len(s) >= 1
         /\ DOMAIN Tail(s) = 1..(Len(s) - 1)
         /\ Head(s) = s[1]
         /\ \A i \in 1..(Len(s) - 1) : Tail(s)[i] = s[i + 1]
         /\ \A i \in 2..Len(s) :
              s[i - 1] = IF i - 1 = 1 THEN Head(s) ELSE Tail(s)[i - 2]
  OBVIOUS

\* The screens before pop_back() are those after it and the one it took off.
LEMMA PoppedRange ==
  ASSUME NEW S, NEW s \in Seq(S), s # <<>>
  PROVE  /\ \A x : Among(x, s) <=> x = Head(s) \/ Among(x, Tail(s))
         /\ Distinct(s) => ~Among(Head(s), Tail(s)) /\ Distinct(Tail(s))
<1> DEFINE t == Tail(s)
<1>1. /\ DOMAIN s = 1..Len(s) /\ Len(s) \in Nat /\ Len(s) >= 1
      /\ DOMAIN t = 1..(Len(s) - 1) /\ Head(s) = s[1]
      /\ \A i \in 1..(Len(s) - 1) : t[i] = s[i + 1]
  BY Popped
<1> HIDE DEF t
<1>2. \A i \in DOMAIN s : i # 1 => i - 1 \in DOMAIN t /\ s[i] = t[i - 1]
  <2>1. \A i \in DOMAIN s :
          i # 1 => i - 1 \in 1..(Len(s) - 1) /\ (i - 1) + 1 = i
    BY <1>1
  <2>. QED
    BY <2>1, <1>1
<1>3. \A i \in DOMAIN t : i + 1 \in DOMAIN s /\ i + 1 # 1 /\ t[i] = s[i + 1]
  BY <1>1
<1>4. 1 \in DOMAIN s
  BY <1>1
<1>5. \A i, j \in DOMAIN t : i + 1 = j + 1 => i = j
  BY <1>1
<1>6. ASSUME \A i, j \in DOMAIN s : s[i] = s[j] => i = j
      PROVE  /\ \A i \in DOMAIN t : t[i] # Head(s)
             /\ \A i, j \in DOMAIN t : t[i] = t[j] => i = j
  BY <1>1, <1>3, <1>4, <1>5, <1>6
<1>7. \A i \in DOMAIN s : s[i] = Head(s) \/ \E j \in DOMAIN t : s[i] = t[j]
  BY <1>1, <1>2
<1>8. \A j \in DOMAIN t : \E i \in DOMAIN s : s[i] = t[j]
  BY <1>3
<1>9. \E i \in DOMAIN s : s[i] = Head(s)
  BY <1>1, <1>4
<1>. QED
  BY <1>6, <1>7, <1>8, <1>9 DEF Among, Distinct, t

\* What is taken off and put back leaves the sequence as it was.
LEMMA Rejoined ==
  ASSUME NEW S, NEW s \in Seq(S), s # <<>>
  PROVE  <<Head(s)>> \o Tail(s) = s
  OBVIOUS

-----------------------------------------------------------------------------
(* The inductive invariant, on top of IInv.                                 *)

\* A handler that is set was made for the screen directly above its owner, or
\* for the pending one if its owner is in front.
HandlerOK ==
  ~dropped =>
    \A a \in Activities : handler[a] # NoActivity =>
      \/ a = current /\ held = NoActivity /\ handler[a] = pendingActivity
      \/ a = current /\ held # NoActivity /\ handler[a] = held
      \/ \E i \in DOMAIN stack :
           a = stack[i]
             /\ handler[a] = IF i = 1 THEN current ELSE stack[i - 1]

\* There is no current screen only when the last one has been closed.
HomeOK == current = NoActivity => stack = <<>>

SInv == OneOwner /\ LifecyclePaired /\ HandlerOK /\ HomeOK

\* What SInv reads.
ownVars ==
  <<current, stack, held, pendingActivity, handler, entered, dropped>>

-----------------------------------------------------------------------------

\* A step that touches no screen keeps SInv.
LEMMA Untouched == SInv /\ UNCHANGED ownVars => SInv'
  BY DEF SInv, ownVars, OneOwner, LifecyclePaired, HandlerOK, HomeOK, InStack,
         OnScreenStack

\* Asking for a change keeps SInv: a pending activity is a new one, and a
\* handler is registered together with the child it is for.
LEMMA Asked ==
  ASSUME IInv, SInv, NEW action, NEW a \in MaybeActivity,
         a = NoActivity \/ a \notin Live,
         current # NoActivity, held = NoActivity,
         Request(action, a),
         UNCHANGED <<current, stack, held>>,
         \/ UNCHANGED handler
         \/ a # NoActivity /\ handler' = [handler EXCEPT ![current] = a]
  PROVE  SInv'
<1> USE NoActivityAssumption
<1>1. current \in Activities /\ handler \in [Activities -> MaybeActivity]
      /\ pendingActivity \in MaybeActivity /\ stack \in Seq(Activities)
  BY DEF IInv, TypeOK, ScreensTypeOK, MaybeActivity
<1>2. NoActivity \notin InStack
  BY <1>1 DEF InStack
<1>3. OneOwner'
  BY <1>1, <1>2 DEF Request, SInv, OneOwner, InStack, Live, OnScreenStack
<1>4. LifecyclePaired'
  BY DEF Request, SInv, LifecyclePaired, InStack, OnScreenStack
<1>5. HandlerOK'
  <2> SUFFICES ASSUME ~dropped, pendingActivity = NoActivity,
                      NEW b \in Activities, handler'[b] # NoActivity
               PROVE  \/ b = current /\ handler'[b] = a
                      \/ \E i \in DOMAIN stack : b = stack[i] /\ handler'[b] =
                           IF i = 1 THEN current ELSE stack[i - 1]
    BY DEF Request, HandlerOK
  <2>1. CASE handler'[b] = handler[b]
    BY <2>1 DEF SInv, HandlerOK
  <2>2. CASE handler'[b] # handler[b]
    BY <1>1, <2>2
  <2>. QED
    BY <2>1, <2>2
<1>6. HomeOK'
  BY DEF SInv, HomeOK
<1>. QED
  BY <1>3, <1>4, <1>5, <1>6 DEF SInv

\* SInv is kept by the calls an activity makes.
LEMMA ScreensOfCallback == IInv /\ SInv /\ Callback => SInv'
<1> SUFFICES ASSUME IInv, SInv, Callback PROVE SInv'
  OBVIOUS
<1> USE NoActivityAssumption, KindsAssumption
<1>1. CASE \/ TakeRenderLock \/ DropRenderLock \/ ChangeState \/ RaiseAlert
           \/ RequestUpdate \/ RequestUpdateNow \/ AskRender
  BY <1>1, Untouched
     DEF TakeRenderLock, DropRenderLock, ChangeState, RaiseAlert,
         RequestUpdate, RequestUpdateNow, AskRender, RequestUpdateAndWait,
         mainVars, screenVars, historyVars, ownVars
<1>2. pc \in Callbacks => current # NoActivity /\ held = NoActivity
  BY DEF IInv, ControlOK, Callbacks
<1>3. CASE Finish
  BY <1>2, <1>3, Asked
     DEF Finish, Requesting, InCallback, mainVars, MaybeActivity
<1>4. ASSUME NEW c \in Activities, OpenChild(c) PROVE SInv'
  BY <1>2, <1>4, Asked
     DEF OpenChild, Requesting, InCallback, StartActivityForResult, mainVars,
         MaybeActivity
<1>5. ASSUME NEW c \in Activities, OpenRoot(c) PROVE SInv'
  BY <1>2, <1>5, Asked
     DEF OpenRoot, Requesting, InCallback, mainVars, MaybeActivity
<1>6. ASSUME NEW c \in Activities, GlobalShortcut(c) PROVE SInv'
  BY <1>2, <1>6, Asked DEF GlobalShortcut, Callbacks, mainVars, MaybeActivity
<1>7. ASSUME NEW c \in Activities, RestoreLightPanel(c) PROVE SInv'
  BY <1>2, <1>7, Asked
     DEF RestoreLightPanel, StartActivityForResult, Callbacks, mainVars,
         MaybeActivity
<1>. QED
  BY <1>1, <1>3, <1>4, <1>5, <1>6, <1>7 DEF Callback

\* SInv is kept by the routing of a pass.
LEMMA ScreensOfPass == IInv /\ SInv /\ Pass => SInv'
<1> SUFFICES ASSUME IInv, SInv, Pass PROVE SInv'
  OBVIOUS
<1> USE NoActivityAssumption, KindsAssumption
<1>1. CASE BeginPass \/ RouteToExclusive \/ RouteToGesture \/ RouteToActivity
  BY <1>1, Untouched
     DEF BeginPass, RouteToExclusive, RouteToGesture, RouteToActivity, Goto,
         screenVars, historyVars, ownVars
<1>2. CASE CallbackReturns
  BY <1>2, Untouched
     DEF CallbackReturns, SetupDone, ActivityDone, HandlerDone, OnEnterDone,
         GestureDone, ExclusiveDone, ReturnTo, screenVars, historyVars, ownVars
<1>3. /\ pc \in Callbacks => current # NoActivity /\ held = NoActivity
      /\ Routing => current # NoActivity /\ held = NoActivity
  BY DEF IInv, ControlOK, Callbacks, Routing
<1>4. CASE HomeGesture
  BY <1>3, <1>4, Asked DEF HomeGesture, MaybeActivity
<1>5. ASSUME NEW s \in Activities, EnterDeepSleep(s) PROVE SInv'
  BY <1>3, <1>5, Asked DEF EnterDeepSleep, Callbacks, MaybeActivity
<1>6. ASSUME NEW c \in Activities, FrontlightGesture(c) PROVE SInv'
  BY <1>3, <1>6, Asked
     DEF FrontlightGesture, StartActivityForResult, MaybeActivity
<1>. QED
  BY <1>1, <1>2, <1>4, <1>5, <1>6 DEF Pass

\* SInv is kept by the closing of a screen.
LEMMA ScreensOfPop ==
  IInv /\ SInv /\ (PopLast \/ GoHomeDirectly \/ PopToParent) => SInv'
<1> SUFFICES ASSUME IInv, SInv, PopLast \/ GoHomeDirectly \/ PopToParent
             PROVE SInv'
  OBVIOUS
<1> USE NoActivityAssumption, KindsAssumption
<1>1. current \in MaybeActivity /\ handler \in [Activities -> MaybeActivity]
      /\ pendingActivity \in MaybeActivity /\ stack \in Seq(Activities)
  BY DEF IInv, TypeOK, ScreensTypeOK
<1>2. NoActivity \notin InStack
  BY <1>1 DEF InStack
<1>3. pc \in {"pop", "goHome"} => held = NoActivity
  BY DEF IInv, ControlOK
<1>4. CASE PopLast
  <2>1. stack = <<>> /\ stack' = <<>> /\ current' = NoActivity
        /\ held' = held /\ held = NoActivity
        /\ UNCHANGED <<pendingActivity, dropped>>
        /\ entered' = entered \ {current}
    BY <1>3, <1>4 DEF PopLast
  <2>2. handler' = [a \in Activities |->
                      IF a \in {current} THEN NoActivity ELSE handler[a]]
    BY <1>4 DEF PopLast, Destroyed
  <2>3. OneOwner'
    BY <2>1, <1>1 DEF OneOwner, InStack
  <2>4. LifecyclePaired'
    BY <2>1 DEF SInv, LifecyclePaired, OnScreenStack, InStack
  <2>5. HandlerOK'
    BY <2>1, <2>2, <1>1 DEF SInv, HandlerOK
  <2>6. HomeOK'
    BY <2>1 DEF HomeOK
  <2>. QED
    BY <2>3, <2>4, <2>5, <2>6 DEF SInv
<1>5. CASE GoHomeDirectly
  <2>1. PICK h \in Homes \ Live : NowCurrent(h) /\ entered' = entered \cup {h}
    BY <1>5 DEF GoHomeDirectly
  <2>2. /\ current = NoActivity /\ stack = <<>> /\ held = NoActivity
        /\ current' = h /\ entered' = entered \cup {h}
        /\ UNCHANGED <<held, stack, pendingActivity, handler, dropped>>
    BY <1>3, <1>5, <2>1
       DEF GoHomeDirectly, NowCurrent, SInv, HomeOK, IInv, ControlOK
  <2>3. OneOwner'
    BY <2>1, <2>2, <1>1 DEF OneOwner, InStack, Live, SInv
  <2>4. LifecyclePaired'
    BY <2>1, <2>2, <1>1 DEF SInv, LifecyclePaired, OnScreenStack, InStack
  <2>5. HandlerOK'
    BY <2>1, <2>2, <1>1 DEF SInv, HandlerOK
  <2>6. HomeOK'
    BY <2>1, <2>2, <1>1 DEF HomeOK
  <2>. QED
    BY <2>3, <2>4, <2>5, <2>6 DEF SInv
<1>6. CASE PopToParent
  <2>1. /\ stack # <<>> /\ held = NoActivity /\ pendingActivity = NoActivity
        /\ current # NoActivity
    BY <1>3, <1>6, <1>1
       DEF PopToParent, IInv, ControlOK, PendingIsOpenable
  <2>2. /\ current' = Head(stack) /\ stack' = Tail(stack)
        /\ entered' = entered \ {current}
        /\ UNCHANGED <<held, pendingActivity, dropped>>
        /\ handler' = [handler EXCEPT ![current] = NoActivity,
                                      ![Head(stack)] = NoActivity]
    BY <1>6 DEF PopToParent, PopBack, MoveOutHandler
  <2>3. /\ Tail(stack) \in Seq(Activities) /\ Head(stack) \in Activities
        /\ DOMAIN stack = 1..Len(stack) /\ Len(stack) \in Nat /\ Len(stack) >= 1
        /\ DOMAIN Tail(stack) = 1..(Len(stack) - 1)
        /\ Head(stack) = stack[1]
        /\ \A i \in 1..(Len(stack) - 1) : Tail(stack)[i] = stack[i + 1]
        /\ \A i \in 2..Len(stack) : stack[i - 1] =
             IF i - 1 = 1 THEN Head(stack) ELSE Tail(stack)[i - 2]
    BY <1>1, <2>1, Popped
  <2>4. InStack = {Head(stack)} \cup InStack'
    <3>1. \A x : Among(x, stack) <=> x = Head(stack) \/ Among(x, stack')
      BY <1>1, <2>1, <2>2, PoppedRange
    <3>. QED
      BY <3>1 DEF InStack, Among
  <2>5. Head(stack) \notin InStack' /\ Distinct(stack')
    <3>1. Distinct(stack)
      BY DEF SInv, OneOwner, Distinct
    <3>2. ~Among(Head(stack), stack') /\ Distinct(stack')
      BY <1>1, <2>1, <2>2, <3>1, PoppedRange
    <3>. QED
      BY <3>2 DEF InStack, Among
  <2>6. OneOwner'
    BY <1>1, <1>2, <2>1, <2>2, <2>3, <2>4, <2>5 DEF SInv, OneOwner, Distinct
  <2>7. LifecyclePaired'
    BY <1>1, <1>2, <2>1, <2>2, <2>3, <2>4, <2>5
       DEF SInv, OneOwner, LifecyclePaired, OnScreenStack
  <2>8. HandlerOK'
    <3> SUFFICES ASSUME ~dropped, NEW a \in Activities, handler'[a] # NoActivity
                 PROVE \E i \in DOMAIN stack' :
                         a = stack'[i] /\ handler'[a] =
                           IF i = 1 THEN current' ELSE stack'[i - 1]
      BY <2>2 DEF HandlerOK
    <3>1. /\ handler'[a] = handler[a] /\ a # current /\ a # Head(stack)
      BY <1>1, <2>2, <2>3
    <3>2. PICK i \in DOMAIN stack :
            a = stack[i] /\ handler[a] = IF i = 1 THEN current ELSE stack[i - 1]
      BY <3>1, <2>1 DEF SInv, HandlerOK
    <3>3. i \in 2..Len(stack) /\ i - 1 \in 1..(Len(stack) - 1)
      BY <3>1, <3>2, <2>3
    <3>4. (i - 1) + 1 = i /\ (i - 1) - 1 = i - 2
      BY <3>3
    <3>5. i - 1 \in DOMAIN Tail(stack) /\ a = Tail(stack)[i - 1]
      BY <3>2, <3>3, <3>4, <2>3
    <3>6. handler[a] = IF i - 1 = 1 THEN Head(stack) ELSE Tail(stack)[i - 2]
      BY <3>2, <3>3, <2>3
    <3>. QED
      BY <3>1, <3>4, <3>5, <3>6, <2>2
  <2>9. HomeOK'
    BY <2>2, <2>3 DEF HomeOK
  <2>. QED
    BY <2>6, <2>7, <2>8, <2>9 DEF SInv
<1>. QED
  BY <1>4, <1>5, <1>6

\* SInv is kept while an overlay is set aside and put back.
LEMMA ScreensOfBackdrop ==
  IInv /\ SInv /\ (LiftOverlay \/ LowerOverlay) => SInv'
<1> SUFFICES ASSUME IInv, SInv, LiftOverlay \/ LowerOverlay PROVE SInv'
  OBVIOUS
<1> USE NoActivityAssumption, KindsAssumption
<1>1. /\ current \in Activities /\ handler \in [Activities -> MaybeActivity]
      /\ held \in MaybeActivity /\ stack \in Seq(Activities)
      /\ pc = "popped" => held = NoActivity
      /\ pc = "swapBack" => held \in Activities
      /\ pendingAction = "none" => pendingActivity = NoActivity
  BY DEF IInv, TypeOK, ScreensTypeOK, TasksTypeOK, MaybeActivity, ControlOK,
         PendingIsOpenable, LiftOverlay, LowerOverlay
<1>2. NoActivity \notin InStack
  BY <1>1 DEF InStack
<1>3. CASE LiftOverlay
  <2>1. /\ stack # <<>> /\ held = NoActivity /\ pendingActivity = NoActivity
        /\ held' = current /\ current' = Head(stack) /\ stack' = Tail(stack)
        /\ UNCHANGED <<pendingActivity, handler, entered, dropped>>
    BY <1>1, <1>3 DEF LiftOverlay, NowCurrent, PopBack
  <2>2. /\ Tail(stack) \in Seq(Activities) /\ Head(stack) \in Activities
        /\ DOMAIN stack = 1..Len(stack) /\ Len(stack) \in Nat /\ Len(stack) >= 1
        /\ DOMAIN Tail(stack) = 1..(Len(stack) - 1)
        /\ Head(stack) = stack[1]
        /\ \A i \in 1..(Len(stack) - 1) : Tail(stack)[i] = stack[i + 1]
        /\ \A i \in 2..Len(stack) : stack[i - 1] =
             IF i - 1 = 1 THEN Head(stack) ELSE Tail(stack)[i - 2]
    BY <1>1, <2>1, Popped
  <2>3. InStack = {Head(stack)} \cup InStack'
    <3>1. \A x : Among(x, stack) <=> x = Head(stack) \/ Among(x, stack')
      BY <1>1, <2>1, PoppedRange
    <3>. QED
      BY <3>1 DEF InStack, Among
  <2>4. Head(stack) \notin InStack' /\ Distinct(stack')
    <3>1. Distinct(stack)
      BY DEF SInv, OneOwner, Distinct
    <3>2. ~Among(Head(stack), stack') /\ Distinct(stack')
      BY <1>1, <2>1, <3>1, PoppedRange
    <3>. QED
      BY <3>2 DEF InStack, Among
  <2>5. OneOwner'
    BY <1>1, <1>2, <2>1, <2>2, <2>3, <2>4 DEF SInv, OneOwner, Distinct
  <2>6. LifecyclePaired'
    BY <1>1, <1>2, <2>1, <2>2, <2>3 DEF SInv, LifecyclePaired, OnScreenStack
  <2>7. HandlerOK'
    <3> SUFFICES ASSUME ~dropped, NEW a \in Activities, handler[a] # NoActivity
                 PROVE \/ a = Head(stack) /\ handler[a] = current
                       \/ \E i \in DOMAIN Tail(stack) :
                            a = Tail(stack)[i] /\ handler[a] =
                              IF i = 1 THEN Head(stack) ELSE Tail(stack)[i - 1]
      BY <1>1, <2>1 DEF HandlerOK
    <3>1. PICK i \in DOMAIN stack :
            a = stack[i] /\ handler[a] = IF i = 1 THEN current ELSE stack[i - 1]
      BY <2>1 DEF SInv, HandlerOK
    <3>2. CASE i = 1
      BY <3>1, <3>2, <2>2
    <3>3. CASE i # 1
      <4>1. i \in 2..Len(stack) /\ i - 1 \in 1..(Len(stack) - 1)
        BY <3>1, <3>3, <2>2
      <4>2. (i - 1) + 1 = i /\ (i - 1) - 1 = i - 2
        BY <4>1
      <4>3. i - 1 \in DOMAIN Tail(stack) /\ a = Tail(stack)[i - 1]
        BY <3>1, <4>1, <4>2, <2>2
      <4>4. handler[a] = IF i - 1 = 1 THEN Head(stack) ELSE Tail(stack)[i - 2]
        BY <3>1, <3>3, <4>1, <2>2
      <4>. QED
        BY <4>2, <4>3, <4>4
    <3>. QED
      BY <3>2, <3>3
  <2>8. HomeOK'
    BY <2>1, <2>2 DEF HomeOK
  <2>. QED
    BY <2>5, <2>6, <2>7, <2>8 DEF SInv
<1>4. CASE LowerOverlay
  <2>1. /\ held \in Activities /\ held' = NoActivity /\ current' = held
        /\ stack' = <<current>> \o stack
        /\ UNCHANGED <<pendingActivity, handler, entered, dropped>>
    BY <1>1, <1>4 DEF LowerOverlay, NowCurrent, PushBack
  <2>2. /\ stack' \in Seq(Activities)
        /\ DOMAIN stack = 1..Len(stack) /\ Len(stack) \in Nat
        /\ DOMAIN stack' = 1..(Len(stack) + 1)
        /\ stack'[1] = current
        /\ \A i \in 1..Len(stack) :
             /\ stack'[i + 1] = stack[i]
             /\ stack'[i] = IF i = 1 THEN current ELSE stack[i - 1]
    BY <1>1, <2>1, Pushed
  <2>3. InStack' = {current} \cup InStack
    <3>1. \A x : Among(x, stack') <=> x = current \/ Among(x, stack)
      BY <1>1, <2>1, PushedRange
    <3>. QED
      BY <3>1 DEF InStack, Among
  <2>4. OneOwner'
    <3>1. Distinct(stack) /\ ~Among(current, stack)
      BY DEF SInv, OneOwner, Distinct, Among, InStack
    <3>2. Distinct(stack')
      BY <1>1, <2>1, <3>1, PushedRange
    <3>. QED
      BY <1>1, <1>2, <2>1, <2>3, <3>2 DEF SInv, OneOwner, Distinct
  <2>5. LifecyclePaired'
    BY <1>1, <1>2, <2>1, <2>3 DEF SInv, LifecyclePaired, OnScreenStack
  <2>6. HandlerOK'
    <3> SUFFICES ASSUME ~dropped, NEW a \in Activities, handler'[a] # NoActivity
                 PROVE \E i \in DOMAIN stack' : a = stack'[i] /\ handler'[a] =
                         IF i = 1 THEN current' ELSE stack'[i - 1]
      BY <2>1 DEF HandlerOK
    <3> handler' = handler /\ current' = held
      BY <2>1
    <3>1. CASE a = current /\ handler[a] = held
      <4>1. 1 \in DOMAIN stack' /\ stack'[1] = a
        BY <3>1, <2>2
      <4>. QED
        BY <3>1, <4>1
    <3>2. ASSUME NEW i \in DOMAIN stack, a = stack[i],
                 handler[a] = IF i = 1 THEN current ELSE stack[i - 1]
          PROVE  \E k \in DOMAIN stack' : a = stack'[k] /\ handler[a] =
                         IF k = 1 THEN held ELSE stack'[k - 1]
      <4>1. i \in 1..Len(stack) /\ i + 1 \in 1..(Len(stack) + 1)
            /\ i + 1 # 1 /\ (i + 1) - 1 = i
        BY <2>2
      <4>2. i + 1 \in DOMAIN stack' /\ stack'[i + 1] = stack[i]
            /\ handler[a] = stack'[i]
        BY <3>2, <4>1, <2>2
      <4>. QED
        BY <4>1, <4>2, <3>2
    <3>. QED
      BY <1>1, <2>1, <3>1, <3>2 DEF SInv, HandlerOK
  <2>7. HomeOK'
    BY <2>1 DEF HomeOK
  <2>. QED
    BY <2>4, <2>5, <2>6, <2>7 DEF SInv
<1>. QED
  BY <1>3, <1>4

\* SInv is kept by the opening of a screen, on top of the others or in their
\* place.
LEMMA ScreensOfSwap == IInv /\ SInv /\ (SwapPush \/ SwapReplace) => SInv'
<1> SUFFICES ASSUME IInv, SInv, SwapPush \/ SwapReplace PROVE SInv'
  OBVIOUS
<1> USE NoActivityAssumption, KindsAssumption
<1>1. /\ current \in Activities /\ held = NoActivity
      /\ pendingActivity \in Activities
      /\ handler \in [Activities -> MaybeActivity] /\ stack \in Seq(Activities)
  BY DEF IInv, TypeOK, ScreensTypeOK, TasksTypeOK, MaybeActivity, ControlOK,
         PendingIsOpenable, SwapPush, SwapReplace
<1>2. NoActivity \notin InStack
  BY <1>1 DEF InStack
<1>3. CASE SwapPush
  <2>1. /\ current' = pendingActivity /\ stack' = <<current>> \o stack
        /\ held' = NoActivity /\ pendingActivity' = NoActivity
        /\ entered' = entered \cup {pendingActivity}
        /\ UNCHANGED <<handler, dropped>>
    BY <1>1, <1>3 DEF SwapPush, NowCurrent, PushBack, PendingTaken
  <2>2. /\ stack' \in Seq(Activities)
        /\ DOMAIN stack = 1..Len(stack) /\ Len(stack) \in Nat
        /\ DOMAIN stack' = 1..(Len(stack) + 1)
        /\ stack'[1] = current
        /\ \A i \in 1..Len(stack) :
             /\ stack'[i + 1] = stack[i]
             /\ stack'[i] = IF i = 1 THEN current ELSE stack[i - 1]
    BY <1>1, <2>1, Pushed
  <2>3. InStack' = {current} \cup InStack
    <3>1. \A x : Among(x, stack') <=> x = current \/ Among(x, stack)
      BY <1>1, <2>1, PushedRange
    <3>. QED
      BY <3>1 DEF InStack, Among
  <2>4. OneOwner'
    <3>1. Distinct(stack) /\ ~Among(current, stack)
      BY DEF SInv, OneOwner, Distinct, Among, InStack
    <3>2. Distinct(stack')
      BY <1>1, <2>1, <3>1, PushedRange
    <3>. QED
      BY <1>1, <1>2, <2>1, <2>3, <3>2 DEF SInv, OneOwner, Distinct
  <2>5. LifecyclePaired'
    BY <1>1, <1>2, <2>1, <2>3 DEF SInv, LifecyclePaired, OnScreenStack
  <2>6. HandlerOK'
    <3> SUFFICES ASSUME ~dropped, NEW a \in Activities, handler'[a] # NoActivity
                 PROVE \E i \in DOMAIN stack' : a = stack'[i] /\ handler'[a] =
                         IF i = 1 THEN current' ELSE stack'[i - 1]
      BY <2>1 DEF HandlerOK
    <3> handler' = handler /\ current' = pendingActivity
      BY <2>1
    <3>1. CASE a = current /\ handler[a] = pendingActivity
      <4>1. 1 \in DOMAIN stack' /\ stack'[1] = a
        BY <3>1, <2>2
      <4>. QED
        BY <3>1, <4>1
    <3>2. ASSUME NEW i \in DOMAIN stack, a = stack[i],
                 handler[a] = IF i = 1 THEN current ELSE stack[i - 1]
          PROVE  \E k \in DOMAIN stack' : a = stack'[k] /\ handler'[a] =
                         IF k = 1 THEN current' ELSE stack'[k - 1]
      <4>1. i \in 1..Len(stack) /\ i + 1 \in 1..(Len(stack) + 1)
            /\ i + 1 # 1 /\ (i + 1) - 1 = i
        BY <2>2
      <4>2. i + 1 \in DOMAIN stack' /\ stack'[i + 1] = stack[i]
            /\ handler[a] = stack'[i]
        BY <3>2, <4>1, <2>2
      <4>. QED
        BY <4>1, <4>2, <3>2
    <3>. QED
      BY <1>1, <3>1, <3>2 DEF SInv, HandlerOK
  <2>7. HomeOK'
    BY <1>1, <2>1 DEF HomeOK
  <2>. QED
    BY <2>4, <2>5, <2>6, <2>7 DEF SInv
<1>4. CASE SwapReplace
  <2>1. /\ current' = pendingActivity /\ stack' = <<>>
        /\ held' = NoActivity /\ pendingActivity' = NoActivity
        /\ entered' = (entered \ AllScreens) \cup {pendingActivity}
        /\ dropped' = dropped
        /\ handler' = [a \in Activities |->
                         IF a \in AllScreens THEN NoActivity ELSE handler[a]]
    BY <1>1, <1>4 DEF SwapReplace, Destroyed, PendingTaken
  <2>2. InStack' = {}
    BY <2>1 DEF InStack
  <2>3. OneOwner'
    BY <1>1, <2>1, <2>2 DEF OneOwner
  <2>4. LifecyclePaired'
    BY <1>1, <2>1, <2>2
       DEF SInv, OneOwner, LifecyclePaired, OnScreenStack, AllScreens
  <2>5. HandlerOK'
    BY <1>1, <2>1 DEF SInv, HandlerOK, AllScreens, InStack
  <2>6. HomeOK'
    BY <2>1 DEF HomeOK
  <2>. QED
    BY <2>3, <2>4, <2>5, <2>6 DEF SInv
<1>. QED
  BY <1>3, <1>4

\* SInv is kept by the end of a pass, which may push an alert.
LEMMA ScreensOfFinish == IInv /\ SInv /\ FinishPass => SInv'
<1> SUFFICES ASSUME IInv, SInv, FinishPass PROVE SInv'
  OBVIOUS
<1> USE NoActivityAssumption, KindsAssumption
<1>1. /\ current \in Activities /\ held = NoActivity
      /\ pendingActivity = NoActivity
      /\ handler \in [Activities -> MaybeActivity] /\ stack \in Seq(Activities)
  BY DEF IInv, TypeOK, ScreensTypeOK, TasksTypeOK, MaybeActivity, ControlOK,
         PendingIsOpenable, FinishPass
<1>2. UNCHANGED <<current, stack, held, handler, entered, dropped>>
  BY DEF FinishPass, historyVars
<1>3. pendingActivity' = NoActivity \/ pendingActivity' \in Alerts \ Live
  BY <1>1 DEF FinishPass
<1>4. OneOwner'
  BY <1>1, <1>2, <1>3 DEF SInv, OneOwner, InStack, Live, OnScreenStack
<1>5. LifecyclePaired' /\ HomeOK'
  BY <1>2 DEF SInv, LifecyclePaired, HomeOK, OnScreenStack, InStack
<1>6. HandlerOK'
  BY <1>1, <1>2 DEF SInv, HandlerOK
<1>. QED
  BY <1>4, <1>5, <1>6 DEF SInv

\* SInv is kept by the dispatch loop.
LEMMA ScreensOfDispatch == IInv /\ SInv /\ Dispatch => SInv'
<1>1. ASSUME SInv, DeferScreenChange \/ StartScreenChange \/ PaintBackdrop
             \/ AfterPop \/ PaintUnderOverlay \/ SleepQuickResume
             \/ SleepSetPolarity \/ SleepDraw \/ UsbPaint \/ UsbDetach
      PROVE  SInv'
  BY <1>1, Untouched
     DEF DeferScreenChange, StartScreenChange, PaintBackdrop, AfterPop,
         PaintUnderOverlay, SleepQuickResume, SleepSetPolarity, SleepDraw,
         UsbPaint, UsbDetach, Goto, RequestUpdateAndWait, screenVars,
         historyVars, ownVars
<1>. QED
  BY <1>1, ScreensOfPop, ScreensOfBackdrop, ScreensOfSwap, ScreensOfFinish
     DEF Dispatch

\* SInv holds after boot.
LEMMA ScreensOfBoot == Init => SInv
  BY NoActivityAssumption, KindsAssumption
     DEF Init, SInv, OneOwner, LifecyclePaired, HandlerOK, HomeOK, InStack,
         OnScreenStack

\* SInv holds after a reboot.
LEMMA ScreensOfReboot == Reboot => SInv'
  BY NoActivityAssumption, KindsAssumption
     DEF Reboot, SInv, OneOwner, LifecyclePaired, HandlerOK, HomeOK, InStack,
         OnScreenStack

\* SInv is kept by every step of both tasks.
LEMMA ScreensOfStep == IInv /\ SInv /\ [Next]_vars => SInv'
<1> SUFFICES ASSUME IInv, SInv, [Next]_vars PROVE SInv'
  OBVIOUS
<1>1. CASE Render \/ RenderAnswered
  BY <1>1, Untouched
     DEF Render, RenderTake, RenderLock, RenderPaint, RenderPublish,
         RenderRelease, RenderAnswered, mainVars, screenVars, historyVars,
         ownVars
<1>2. CASE Wake \/ UsbRestart
  BY <1>2, ScreensOfReboot DEF Wake, UsbRestart
<1>3. CASE UNCHANGED vars
  BY <1>3, Untouched DEF vars, mainVars, screenVars, historyVars, ownVars
<1>. QED
  BY <1>1, <1>2, <1>3, ScreensOfCallback, ScreensOfPass, ScreensOfDispatch
     DEF Next

-----------------------------------------------------------------------------
(* The theorems.                                                            *)

\* In every behaviour of the two tasks IInv and SInv hold throughout.
THEOREM ScreensInvariance == Spec => [](IInv /\ SInv)
  BY Boot, Step, ScreensOfBoot, ScreensOfStep, PTL DEF Spec

\* Every activity object has exactly one owner, also while it is moved between
\* the stack, the front, a local variable and the pending change.
THEOREM ExactlyOneOwner == Spec => []OneOwner
<1>1. SInv => OneOwner
  BY DEF SInv
<1>. QED
  BY <1>1, ScreensInvariance, PTL

\* Exactly the activities on screen or under it have been entered and not exited,
\* however they were opened, closed, replaced or discarded.
THEOREM EnteredAndExited == Spec => []LifecyclePaired
<1>1. SInv => LifecyclePaired
  BY DEF SInv
<1>. QED
  BY <1>1, ScreensInvariance, PTL

\* The result of a closed activity goes to the handler made for it.
THEOREM ResultsArrive == Spec => ResultReachesItsHandler
<1>1. ASSUME IInv, SInv, [Next]_vars
      PROVE  [pc = "pop" /\ pc' = "handler" /\ ~dropped
                => handler[current'] = current]_vars
  <2> SUFFICES ASSUME Next, pc = "pop", pc' = "handler", ~dropped
               PROVE  handler[current'] = current
    BY <1>1
  <2> USE NoActivityAssumption, KindsAssumption
  <2>1. PopToParent
    <3>1. ~Callback
      BY DEF Callback, TakeRenderLock, DropRenderLock, ChangeState, RaiseAlert,
         RequestUpdate, RequestUpdateNow, AskRender, Finish, OpenChild,
         OpenRoot, GlobalShortcut, RestoreLightPanel, Requesting, InCallback,
         Callbacks
    <3>2. ~Pass
      BY DEF Pass, BeginPass, RouteToExclusive, RouteToGesture,
         RouteToActivity, Routing, HomeGesture, EnterDeepSleep,
         FrontlightGesture, CallbackReturns, SetupDone, ActivityDone,
         HandlerDone, OnEnterDone, GestureDone, ExclusiveDone, ReturnTo
    <3>3. ~Render
      BY DEF Render, RenderTake, RenderLock, RenderPaint, RenderPublish,
         RenderRelease, mainVars
    <3>4. ~(RenderAnswered \/ Wake \/ UsbRestart)
      BY DEF RenderAnswered, Wake, UsbRestart
    <3>5. Dispatch => PopToParent
      BY DEF Dispatch, DeferScreenChange, StartScreenChange, PaintBackdrop,
         PopLast, GoHomeDirectly, AfterPop, LiftOverlay, PaintUnderOverlay,
         LowerOverlay, SwapPush, SwapReplace, FinishPass, SleepQuickResume,
         SleepSetPolarity, SleepDraw, UsbPaint, UsbDetach, RequestUpdateAndWait
    <3>. QED
      BY <3>1, <3>2, <3>3, <3>4, <3>5 DEF Next
  <2>2. /\ stack # <<>> /\ held = NoActivity /\ pendingActivity = NoActivity
        /\ current' = Head(stack) /\ handler[Head(stack)] # NoActivity
        /\ stack \in Seq(Activities)
    BY <2>1, <1>1
       DEF PopToParent, IInv, TypeOK, ScreensTypeOK, MaybeActivity, ControlOK,
           PendingIsOpenable
  <2>3. /\ Head(stack) \in Activities /\ Head(stack) = stack[1]
        /\ 1 \in DOMAIN stack
    BY <2>2, Popped
  <2>4. PICK i \in DOMAIN stack : Head(stack) = stack[i]
          /\ handler[Head(stack)] = IF i = 1 THEN current ELSE stack[i - 1]
    BY <1>1, <2>2, <2>3 DEF SInv, HandlerOK
  <2>5. i = 1
    BY <1>1, <2>3, <2>4 DEF SInv, OneOwner
  <2>. QED
    BY <2>2, <2>4, <2>5
<1>. QED
  BY <1>1, ScreensInvariance, PTL DEF Spec, ResultReachesItsHandler

-----------------------------------------------------------------------------
(* ActivityManager implements NavStack.                                     *)

\* The screens shown while no overlay is set aside.
LEMMA ShownPlain ==
  ASSUME NEW c \in Activities, NEW s \in Seq(Activities)
  PROVE  InFront(NoActivity) \o InFront(c) \o s = <<c>> \o s
<1>1. InFront(NoActivity) = <<>> /\ InFront(c) = <<c>>
  BY NoActivityAssumption DEF InFront
<1>2. <<>> \o <<c>> = <<c>>
  OBVIOUS
<1>. QED
  BY <1>1, <1>2

\* The screens shown while the overlay h is set aside.
LEMMA ShownLifted ==
  ASSUME NEW h \in Activities, NEW c \in Activities, NEW s \in Seq(Activities)
  PROVE  InFront(h) \o InFront(c) \o s = <<h>> \o (<<c>> \o s)
<1>1. InFront(h) = <<h>> /\ InFront(c) = <<c>>
  BY NoActivityAssumption DEF InFront
<1>2. <<h>> \in Seq(Activities) /\ <<c>> \in Seq(Activities)
  OBVIOUS
<1>3. (<<h>> \o <<c>>) \o s = <<h>> \o (<<c>> \o s)
  BY <1>2, ConcatAssociative
<1>. QED
  BY <1>1, <1>3

\* Nothing is in front only inside goHome(), with no overlay and no stack.
LEMMA ShownNothing ==
  InFront(NoActivity) \o InFront(NoActivity) \o <<>> = <<>>
  BY DEF InFront

\* Every step is one of NavStack's or leaves the shown screens alone.
LEMMA NavStep ==
  IInv /\ SInv /\ [Next]_vars => [Nav!Next]_ShownScreens
<1> SUFFICES ASSUME IInv, SInv, [Next]_vars
             PROVE  [Nav!Next]_ShownScreens
  OBVIOUS
<1> USE NoActivityAssumption
<1>1. /\ current \in MaybeActivity /\ held \in MaybeActivity
      /\ pendingActivity \in MaybeActivity /\ stack \in Seq(Activities)
  BY DEF IInv, TypeOK, ScreensTypeOK, TasksTypeOK
<1>2. UNCHANGED <<held, current, stack>> => UNCHANGED ShownScreens
  BY DEF ShownScreens
<1>3. CASE PopLast
  <2>1. /\ current \in Activities /\ held = NoActivity /\ stack = <<>>
        /\ held' = NoActivity /\ current' = NoActivity /\ stack' = <<>>
    BY <1>1, <1>3 DEF PopLast, IInv, ControlOK, MaybeActivity
  <2>2. ShownScreens = <<current>> \o <<>> /\ ShownScreens' = <<>>
    BY <1>1, <2>1, ShownPlain, ShownNothing DEF ShownScreens
  <2>3. Len(ShownScreens) = 1
    BY <2>1, <2>2
  <2>. QED
    BY <2>2, <2>3 DEF Nav!Next, Nav!CloseLast
<1>4. CASE GoHomeDirectly
  <2>1. PICK h \in Homes \ Live : NowCurrent(h)
    BY <1>4 DEF GoHomeDirectly
  <2>2. /\ current = NoActivity /\ held = NoActivity /\ stack = <<>>
        /\ held' = NoActivity /\ current' = h /\ stack' = <<>>
    BY <1>4, <2>1
       DEF GoHomeDirectly, NowCurrent, IInv, ControlOK, SInv, HomeOK
  <2>3. ShownScreens = <<>> /\ ShownScreens' = <<h>> \o <<>>
    <3>1. h \in Activities /\ <<>> \in Seq(Activities)
      BY <2>1, KindsAssumption
    <3>. QED
      BY <2>2, <3>1, ShownPlain, ShownNothing DEF ShownScreens
  <2>4. ShownScreens' = <<h>>
    BY <2>3
  <2>. QED
    BY <2>1, <2>3, <2>4 DEF Nav!Next, Nav!GoHome
<1>5. CASE PopToParent
  <2>1. /\ current \in Activities /\ held = NoActivity /\ stack # <<>>
        /\ held' = NoActivity /\ current' = Head(stack) /\ stack' = Tail(stack)
    BY <1>1, <1>5
       DEF PopToParent, PopBack, IInv, ControlOK, MaybeActivity
  <2>2. Head(stack) \in Activities /\ Tail(stack) \in Seq(Activities)
    BY <1>1, <2>1, Popped
  <2>3. ShownScreens = <<current>> \o stack
        /\ ShownScreens' = <<Head(stack)>> \o Tail(stack)
    BY <1>1, <2>1, <2>2, ShownPlain DEF ShownScreens
  <2>4. ShownScreens' = stack
    BY <1>1, <2>1, <2>3, Rejoined
  <2>5. Len(<<current>> \o stack) > 1 /\ Tail(<<current>> \o stack) = stack
    BY <1>1, <2>1
  <2>. QED
    BY <2>3, <2>4, <2>5 DEF Nav!Next, Nav!Pop
<1>6. CASE LiftOverlay
  <2>1. /\ current \in Activities /\ held = NoActivity /\ stack # <<>>
        /\ held' = current /\ current' = Head(stack) /\ stack' = Tail(stack)
    BY <1>1, <1>6
       DEF LiftOverlay, NowCurrent, PopBack, IInv, ControlOK, MaybeActivity
  <2>2. Head(stack) \in Activities /\ Tail(stack) \in Seq(Activities)
    BY <1>1, <2>1, Popped
  <2>3. ShownScreens = <<current>> \o stack
        /\ ShownScreens' = <<current>> \o (<<Head(stack)>> \o Tail(stack))
    BY <1>1, <2>1, <2>2, ShownPlain, ShownLifted DEF ShownScreens
  <2>. QED
    BY <1>1, <2>1, <2>3, Rejoined
<1>7. CASE LowerOverlay
  <2>1. /\ current \in Activities /\ held \in Activities
        /\ held' = NoActivity /\ current' = held
        /\ stack' = <<current>> \o stack
    BY <1>1, <1>7
       DEF LowerOverlay, NowCurrent, PushBack, IInv, ControlOK, MaybeActivity
  <2>2. stack' \in Seq(Activities)
    BY <1>1, <2>1, Pushed
  <2>3. ShownScreens = <<held>> \o (<<current>> \o stack)
        /\ ShownScreens' = <<held>> \o stack'
    BY <1>1, <2>1, <2>2, ShownPlain, ShownLifted DEF ShownScreens
  <2>. QED
    BY <2>1, <2>3
<1>8. CASE SwapPush
  <2>1. /\ current \in Activities /\ held = NoActivity
        /\ pendingActivity \in Activities
        /\ held' = NoActivity /\ current' = pendingActivity
        /\ stack' = <<current>> \o stack
    BY <1>1, <1>8
       DEF SwapPush, NowCurrent, PushBack, IInv, ControlOK, PendingIsOpenable,
           MaybeActivity
  <2>2. stack' \in Seq(Activities)
    BY <1>1, <2>1, Pushed
  <2>3. ShownScreens = <<current>> \o stack
        /\ ShownScreens' = <<pendingActivity>> \o stack'
    BY <1>1, <2>1, <2>2, ShownPlain DEF ShownScreens
  <2>4. pendingActivity \notin Nav!Open
    <3>1. ~Among(pendingActivity, <<current>> \o stack)
      BY <1>1, <2>1, PushedRange DEF SInv, OneOwner, InStack, Among
    <3>. QED
      BY <3>1, <2>3 DEF Nav!Open, Among
  <2>. QED
    BY <2>1, <2>3, <2>4 DEF Nav!Next, Nav!Push
<1>9. CASE SwapReplace
  <2>1. /\ current \in Activities /\ held = NoActivity
        /\ pendingActivity \in Activities
        /\ held' = NoActivity /\ current' = pendingActivity /\ stack' = <<>>
    BY <1>1, <1>9
       DEF SwapReplace, IInv, ControlOK, PendingIsOpenable, MaybeActivity
  <2>2. ShownScreens = <<current>> \o stack
        /\ ShownScreens' = <<pendingActivity>> \o <<>>
    <3>1. <<>> \in Seq(Activities)
      OBVIOUS
    <3>. QED
      BY <1>1, <2>1, <3>1, ShownPlain DEF ShownScreens
  <2>3. ShownScreens # <<>> /\ ShownScreens' = <<pendingActivity>>
    BY <1>1, <2>1, <2>2
  <2>4. pendingActivity \notin Nav!Open
    <3>1. ~Among(pendingActivity, <<current>> \o stack)
      BY <1>1, <2>1, PushedRange DEF SInv, OneOwner, InStack, Among
    <3>. QED
      BY <3>1, <2>2 DEF Nav!Open, Among
  <2>. QED
    BY <2>1, <2>3, <2>4 DEF Nav!Next, Nav!Replace
<1>10. CASE Wake \/ UsbRestart
  <2>1. PICK a \in Homes \cup Readers : current' = a
    BY <1>10 DEF Wake, UsbRestart, Reboot
  <2>2. held' = NoActivity /\ stack' = <<>>
    BY <1>10 DEF Wake, UsbRestart, Reboot
  <2>3. ShownScreens' = <<a>> \o <<>>
    <3>1. a \in Activities /\ <<>> \in Seq(Activities)
      BY KindsAssumption
    <3>. QED
      BY <2>1, <2>2, <3>1, ShownPlain DEF ShownScreens
  <2>4. ShownScreens' = <<a>>
    BY <2>3
  <2>. QED
    BY <2>1, <2>4 DEF Nav!Next, Nav!Restart
<1>11. CASE Callback
  BY <1>2, <1>11
     DEF Callback, TakeRenderLock, DropRenderLock, ChangeState, RaiseAlert,
         RequestUpdate, RequestUpdateNow, AskRender, RequestUpdateAndWait,
         Finish, OpenChild, OpenRoot, GlobalShortcut, RestoreLightPanel,
         StartActivityForResult, mainVars, screenVars
<1>12. CASE Pass
  BY <1>2, <1>12
     DEF Pass, BeginPass, RouteToExclusive, RouteToGesture, RouteToActivity,
         Goto, HomeGesture, EnterDeepSleep, FrontlightGesture,
         StartActivityForResult, CallbackReturns, SetupDone, ActivityDone,
         HandlerDone, OnEnterDone, GestureDone, ExclusiveDone, ReturnTo,
         screenVars
<1>13. CASE \/ DeferScreenChange \/ StartScreenChange \/ PaintBackdrop
            \/ AfterPop \/ PaintUnderOverlay \/ FinishPass \/ SleepQuickResume
            \/ SleepSetPolarity \/ SleepDraw \/ UsbPaint \/ UsbDetach
  BY <1>2, <1>13
     DEF DeferScreenChange, StartScreenChange, PaintBackdrop, AfterPop,
         PaintUnderOverlay, FinishPass, SleepQuickResume, SleepSetPolarity,
         SleepDraw, UsbPaint, UsbDetach, Goto, RequestUpdateAndWait, screenVars
<1>14. CASE Render \/ RenderAnswered \/ UNCHANGED vars
  BY <1>2, <1>14
     DEF Render, RenderTake, RenderLock, RenderPaint, RenderPublish,
         RenderRelease, RenderAnswered, vars, mainVars, screenVars
<1>. QED
  BY <1>3, <1>4, <1>5, <1>6, <1>7, <1>8, <1>9, <1>10, <1>11, <1>12, <1>13,
     <1>14 DEF Next, Dispatch

\* Whatever the tasks do, the user sees a stack of screens that only opening,
\* closing, replacing and restarting change.
THEOREM Refinement == Spec => ImplementsNavStack
<1>1. Init => Nav!Init
  <2> SUFFICES ASSUME Init PROVE Nav!Init
    OBVIOUS
  <2>1. current \in Homes \cup Readers /\ held = NoActivity /\ stack = <<>>
    BY DEF Init
  <2>2. ShownScreens = <<current>> \o <<>>
    <3>1. current \in Activities /\ <<>> \in Seq(Activities)
      BY <2>1, KindsAssumption
    <3>. QED
      BY <2>1, <3>1, ShownPlain DEF ShownScreens
  <2>3. ShownScreens = <<current>>
    BY <2>2
  <2>. QED
    BY <2>1, <2>3 DEF Nav!Init
<1>. QED
  BY <1>1, NavStep, ScreensInvariance, PTL
     DEF Spec, ImplementsNavStack, Nav!Spec

=============================================================================
