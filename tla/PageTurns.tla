------------------------------ MODULE PageTurns ------------------------------
(***************************************************************************)
(* Turning the pages of a book (EpubReaderActivity) and keeping its place. *)
(* The main loop takes presses, queues those that come while a page is     *)
(* being painted, and turns the page without RenderLock; the render task   *)
(* paints, leaves anti-aliasing and images out of a page that a queued     *)
(* turn is about to replace, and saves the place every few pages.          *)
(*                                                                         *)
(* A step of either task goes up to its next access to something the other *)
(* one writes.  The book is in front until it is left, slept or loses      *)
(* power; its end-of-book screen, footnotes and relayouts are left out.    *)
(***************************************************************************)
EXTENDS Integers, Sequences

CONSTANTS
  Chapters,       \* of the book
  ChapterPages,   \* pages of each
  MaxPending,     \* MAX_PENDING_TURNS
  SaveEvery       \* PAGE_CHANGE_INTERVAL

ASSUME BookAssumption == Chapters \in Nat \ {0} /\ ChapterPages \in Nat \ {0}
ASSUME QueueAssumption == MaxPending \in Nat \ {0}
ASSUME SaveAssumption == SaveEvery \in Nat \ {0}

Forward == 1
Back == -1
Directions == {Forward, Back}
NoTurn == 0
NoSpot == -1

\* Every page of the book, in reading order.
Spots == 0..(Chapters * ChapterPages - 1)
ChapterOf(s) == s \div ChapterPages
FirstOf(c) == c * ChapterPages

VARIABLES
  hand,        \* the main loop: where it stands between two accesses
  heading,     \* the direction of the turn it is carrying out
  spot,        \* currentSpineIndex and currentPage
  sectionOpen,      \* section is not null
  turns,       \* pendingManualPageTurns: the entries
  dispatched,  \* dispatchedTurn's direction, NoTurn without one
  quality,     \* queuedTurnRendering: "idle", "deciding", "deferred"
  gapOver,     \* MIN_MANUAL_PAGE_TURN_GAP_MS have passed since lastPageTurnTime
  asked,       \* a render has been requested
  brush,       \* the render task, which holds RenderLock unless "idle"
  drawn,       \* the page it is drawing
  more,        \* its second look at the queue
  crisp,       \* it draws with anti-aliasing and images
  panel, panelCrisp,                  \* what is on the panel
  progress,        \* the place in progress.bin
  lastSaved,   \* lastSavedSpineIndex and lastSavedPage
  observed, unsaved, changes,         \* progressSaveDebouncer
  \* history
  lastPress,   \* the direction last pressed
  recoveryLost,\* a deferred page lost its redraw
  diskBefore,  \* lastSaved when the book was left
  left         \* "open", "kept" (left, place saved), "turning" (the same, before the page
               \* turned to was painted), "lost" (save failed or power lost)

mainVars == <<hand, heading, spot, sectionOpen, turns, dispatched, gapOver, lastPress>>
renderVars == <<brush, drawn, more, crisp, panel, panelCrisp>>
placeVars == <<progress, lastSaved, observed, unsaved, changes>>
turnVars == <<mainVars, quality, asked, renderVars, placeVars, recoveryLost, diskBefore, left>>

RenderIdle == brush = "idle"
AtInput == hand = "input"

-----------------------------------------------------------------------------
(* ManualPageTurnQueue *)

BrokenReverses(d) == dispatched = -d
\* enqueue() answers Cancelled: the press takes back what is waiting.
Reverses(d) ==
  (turns # <<>> /\ Head(turns) # d) \/ dispatched = -d

ClearTurns == turns' = <<>> /\ dispatched' = NoTurn

Enqueue(d) ==
  IF Reverses(d) THEN ClearTurns /\ hand' = "cancel"
  ELSE /\ turns' = IF Len(turns) < MaxPending THEN Append(turns, d) ELSE turns
       /\ hand' = "input" /\ UNCHANGED dispatched

-----------------------------------------------------------------------------
(* The main loop *)

MainUnchanged == UNCHANGED <<renderVars, placeVars, diskBefore, left>>

\* finishManualPageTurnBrakeIfReady()
FinishBrake ==
  /\ AtInput /\ dispatched # NoTurn /\ RenderIdle /\ gapOver
  /\ dispatched' = NoTurn
  /\ UNCHANGED <<hand, heading, spot, sectionOpen, turns, gapOver, lastPress, quality, asked, recoveryLost>>
  /\ MainUnchanged

\* A page button, with the book on screen.  The end of the book is out of reach:
\* there is a page left for every turn that waits.
Press(d) ==
  /\ AtInput
  /\ d = Forward => spot + Len(turns) + 1 \in Spots
  /\ lastPress' = d
  /\ IF ~sectionOpen
     THEN ClearTurns /\ hand' = "cancelAndAsk" /\ UNCHANGED heading
     ELSE /\ hand' = "press" /\ heading' = d
          /\ dispatched' = IF RenderIdle /\ gapOver THEN NoTurn ELSE dispatched
          /\ UNCHANGED turns
  /\ UNCHANGED <<spot, sectionOpen, gapOver, quality, asked, recoveryLost>>
  /\ MainUnchanged

\* requestManualPageTurn(), after the brake.
RouteTurn ==
  /\ hand = "press"
  /\ IF dispatched = -heading
     THEN turns' = <<heading>> /\ dispatched' = NoTurn /\ hand' = "forget"
     ELSE IF turns # <<>> \/ ~RenderIdle \/ ~gapOver THEN Enqueue(heading)
     ELSE hand' = "turn" /\ UNCHANGED <<turns, dispatched>>
  /\ UNCHANGED <<heading, spot, sectionOpen, gapOver, lastPress, quality, asked, recoveryLost>>
  /\ MainUnchanged

\* queueReversalOfDispatched(), then cancelDeferred() with its answer unused.
ForgetDeferred ==
  /\ hand = "forget" /\ hand' = "input"
  /\ quality' = "idle"
  /\ recoveryLost' = (recoveryLost \/ quality = "deferred")
  /\ UNCHANGED <<heading, spot, sectionOpen, turns, dispatched, gapOver, lastPress, asked>>
  /\ MainUnchanged

BrokenAsksAgain == FALSE
\* cancelDeferred(): a render that has left quality out is made up for.
AsksAgain == quality = "deferred"

CancelDeferred ==
  /\ hand \in {"cancel", "cancelAndAsk"} /\ hand' = "input"
  /\ quality' = "idle"
  /\ asked' = (asked \/ AsksAgain \/ hand = "cancelAndAsk")
  /\ UNCHANGED <<heading, spot, sectionOpen, turns, dispatched, gapOver, lastPress, recoveryLost>>
  /\ MainUnchanged

\* clearPendingManualPageTurns() by the input lock, the frontlight panel, a menu.
ClearPending ==
  /\ AtInput
  /\ ClearTurns /\ hand' = "cancel"
  /\ UNCHANGED <<heading, spot, sectionOpen, gapOver, lastPress, quality, asked, recoveryLost>>
  /\ MainUnchanged

\* No section to turn in, or no page before this one.
Refused(d) == ~sectionOpen \/ (d = Back /\ spot = 0)

\* drainPendingManualPageTurn(), up to takeNext() and what follows a refusal.
Drain ==
  /\ AtInput /\ turns # <<>> /\ RenderIdle /\ gapOver
  /\ IF Refused(Head(turns))
     THEN ClearTurns /\ hand' = "cancel" /\ UNCHANGED heading
     ELSE /\ turns' = Tail(turns) /\ heading' = Head(turns) /\ hand' = "drain"
          /\ UNCHANGED dispatched
  /\ UNCHANGED <<spot, sectionOpen, gapOver, lastPress, quality, asked, recoveryLost>>
  /\ MainUnchanged

\* The successor replaces the page on screen: a deferred pass is not missed.
Dispatch ==
  /\ hand = "drain" /\ hand' = "turn"
  /\ quality' = "idle" /\ dispatched' = heading
  /\ UNCHANGED <<heading, spot, sectionOpen, turns, gapOver, lastPress, asked, recoveryLost>>
  /\ MainUnchanged

\* pageTurn(): inside the chapter without the lock; into another one under it,
\* with the section dropped.
TurnPage ==
  LET to == spot + heading
      crosses == to \in Spots /\ ChapterOf(to) # ChapterOf(spot)
  IN /\ hand = "turn" /\ hand' = "input"
     /\ crosses => RenderIdle
     /\ spot' = IF to \in Spots THEN to ELSE spot
     /\ sectionOpen' = (sectionOpen /\ ~crosses)
     /\ gapOver' = FALSE /\ asked' = TRUE
     /\ UNCHANGED <<heading, turns, dispatched, lastPress, quality, recoveryLost>>
     /\ MainUnchanged

\* A chapter is skipped: what waits is cleared first.
SkipChapter(d) ==
  /\ AtInput
  /\ d = Forward => ChapterOf(spot) < Chapters - 1
  /\ ClearTurns /\ hand' = "skip" /\ heading' = d
  /\ UNCHANGED <<spot, sectionOpen, gapOver, lastPress, quality, asked, recoveryLost>>
  /\ MainUnchanged

Jump ==
  LET c == ChapterOf(spot)
      toStart == heading = Back /\ sectionOpen /\ spot # FirstOf(c)
  IN /\ hand = "skip" /\ hand' = "input"
     /\ quality' = "idle" /\ asked' = TRUE
     /\ toStart \/ RenderIdle
     /\ spot' = IF toStart THEN FirstOf(c)
                ELSE IF heading = Forward THEN FirstOf(c + 1)
                ELSE IF c > 0 THEN FirstOf(c - 1) ELSE FirstOf(c)
     /\ sectionOpen' = toStart
     /\ UNCHANGED <<heading, turns, dispatched, gapOver, lastPress, recoveryLost>>
     /\ MainUnchanged

GapPasses ==
  /\ ~gapOver /\ gapOver' = TRUE
  /\ UNCHANGED <<hand, heading, spot, sectionOpen, turns, dispatched, lastPress, quality, asked, recoveryLost>>
  /\ MainUnchanged

-----------------------------------------------------------------------------
(* ReaderProgressSaveDebouncer and saveProgress() *)

\* markPersisted(): only the position it knows is no longer pending.
MarkPersisted(s, seen, cnt) ==
  IF seen \in {s, NoSpot}
  THEN observed' = s /\ unsaved' = FALSE /\ changes' = 0
  ELSE observed' = seen /\ unsaved' = TRUE /\ changes' = cnt

\* One save of place s: the card takes it or not.
SavePlace(s, seen, cnt, ok) ==
  IF ok THEN progress' = s /\ lastSaved' = s /\ MarkPersisted(s, seen, cnt)
  ELSE observed' = seen /\ unsaved' = TRUE /\ changes' = cnt /\ UNCHANGED <<progress, lastSaved>>

BrokenCountsAsChange(s) == observed = NoSpot
\* observe() takes note of a page other than the last one it was shown.
CountsAsChange(s) == s # observed

\* queueProgressSave() after a page was painted; late: MAX_SAVE_INTERVAL_MS have
\* passed.  The count is not told apart beyond SaveEvery.
QueueSave(s, late, ok) ==
  LET cnt == IF CountsAsChange(s) /\ changes < SaveEvery THEN changes + 1 ELSE changes
      pend == unsaved \/ CountsAsChange(s)
  IN IF s = lastSaved THEN UNCHANGED placeVars
     ELSE IF observed # NoSpot /\ pend /\ (cnt >= SaveEvery \/ late)
     THEN SavePlace(s, IF CountsAsChange(s) THEN s ELSE observed, cnt, ok)
     ELSE /\ observed' = IF CountsAsChange(s) THEN s ELSE observed
          /\ unsaved' = pend /\ changes' = cnt
          /\ UNCHANGED <<progress, lastSaved>>

-----------------------------------------------------------------------------
(* The render task *)

PainterUnchanged ==
  UNCHANGED <<hand, heading, turns, dispatched, gapOver, lastPress, diskBefore, left>>

\* It takes the lock, opens the section if there is none and reads the page.
BeginPaint ==
  /\ RenderIdle /\ asked /\ left = "open"
  /\ asked' = FALSE /\ brush' = "look"
  /\ sectionOpen' = TRUE /\ drawn' = spot /\ recoveryLost' = FALSE
  /\ UNCHANGED <<spot, quality, more, crisp, panel, panelCrisp, placeVars>>
  /\ PainterUnchanged

LookAtQueue ==
  /\ brush = "look"
  /\ IF turns # <<>> THEN brush' = "begin" /\ UNCHANGED <<quality, crisp>>
     ELSE brush' = "paint" /\ quality' = "idle" /\ crisp' = TRUE
  /\ UNCHANGED <<spot, sectionOpen, asked, drawn, more, panel, panelCrisp, placeVars, recoveryLost>>
  /\ PainterUnchanged

BeginDecision ==
  /\ brush = "begin" /\ brush' = "again" /\ quality' = "deciding"
  /\ UNCHANGED <<spot, sectionOpen, asked, drawn, more, crisp, panel, panelCrisp, placeVars, recoveryLost>>
  /\ PainterUnchanged

LookAgain ==
  /\ brush = "again" /\ brush' = "decide" /\ more' = (turns # <<>>)
  /\ UNCHANGED <<spot, sectionOpen, quality, asked, drawn, crisp, panel, panelCrisp, placeVars, recoveryLost>>
  /\ PainterUnchanged

\* finishDecision(): a cancellation in between keeps the quality.
FinishDecision ==
  /\ brush = "decide" /\ brush' = "paint"
  /\ crisp' = ~(more /\ quality = "deciding")
  /\ quality' = IF quality = "deciding" THEN (IF more THEN "deferred" ELSE "idle") ELSE quality
  /\ more' = FALSE
  /\ UNCHANGED <<spot, sectionOpen, asked, drawn, panel, panelCrisp, placeVars, recoveryLost>>
  /\ PainterUnchanged

PaintPage ==
  /\ brush = "paint" /\ brush' = "save"
  /\ panel' = drawn /\ panelCrisp' = crisp
  /\ drawn' = NoSpot /\ crisp' = TRUE
  /\ UNCHANGED <<spot, sectionOpen, quality, asked, more, placeVars, recoveryLost>>
  /\ PainterUnchanged

\* It reads the place again and lets go of the lock.
SaveAfterPaint ==
  /\ brush = "save" /\ brush' = "idle"
  /\ \E late, ok \in BOOLEAN : QueueSave(spot, late, ok)
  /\ UNCHANGED <<spot, sectionOpen, quality, asked, drawn, more, crisp, panel, panelCrisp, recoveryLost>>
  /\ PainterUnchanged

-----------------------------------------------------------------------------
(* Leaving and opening the book *)

\* onExit(), under RenderLock: the pending place is flushed.
Leave ==
  /\ AtInput /\ RenderIdle /\ left = "open"
  /\ hand' = "away" /\ ClearTurns /\ quality' = "idle" /\ asked' = FALSE
  /\ diskBefore' = lastSaved
  /\ \E ok \in BOOLEAN :
       /\ IF unsaved THEN SavePlace(observed, observed, changes, ok) ELSE UNCHANGED placeVars
       /\ left' = IF unsaved /\ ~ok THEN "lost" ELSE IF asked THEN "turning" ELSE "kept"
  /\ UNCHANGED <<heading, spot, sectionOpen, gapOver, lastPress, renderVars, recoveryLost>>

PowerCut ==
  /\ left = "open"
  /\ hand' = "away" /\ ClearTurns /\ quality' = "idle" /\ asked' = FALSE
  /\ brush' = "idle" /\ drawn' = NoSpot /\ more' = FALSE /\ crisp' = TRUE /\ left' = "lost"
  /\ UNCHANGED <<heading, spot, sectionOpen, gapOver, lastPress, panel, panelCrisp,
                 placeVars, recoveryLost, diskBefore>>

\* What a new EpubReaderActivity starts from: the place in progress.bin.
Opened(place) ==
  /\ hand' = "input" /\ heading' = Forward /\ spot' = place /\ sectionOpen' = FALSE
  /\ gapOver' = TRUE /\ asked' = TRUE /\ lastPress' = Forward /\ recoveryLost' = FALSE
  /\ lastSaved' = NoSpot /\ observed' = NoSpot /\ unsaved' = FALSE /\ changes' = 0
  /\ drawn' = NoSpot /\ more' = FALSE /\ crisp' = TRUE /\ panel' = NoSpot /\ panelCrisp' = TRUE
  /\ left' = "open" /\ diskBefore' = NoSpot

Open ==
  /\ hand = "away" /\ Opened(progress)
  /\ UNCHANGED <<turns, dispatched, quality, brush, progress>>

-----------------------------------------------------------------------------
TurnsInit ==
  /\ hand = "input" /\ heading = Forward /\ spot = 0 /\ sectionOpen = FALSE
  /\ turns = <<>> /\ dispatched = NoTurn /\ quality = "idle" /\ gapOver = TRUE /\ asked = TRUE
  /\ brush = "idle" /\ drawn = NoSpot /\ more = FALSE /\ crisp = TRUE /\ panel = NoSpot /\ panelCrisp = TRUE
  /\ progress = 0 /\ lastSaved = NoSpot /\ observed = NoSpot /\ unsaved = FALSE /\ changes = 0
  /\ lastPress = Forward /\ recoveryLost = FALSE /\ diskBefore = NoSpot /\ left = "open"

Keys ==
  \/ \E d \in Directions : Press(d) \/ SkipChapter(d)
  \/ ClearPending \/ Leave \/ Open
ReaderLoop == RouteTurn \/ ForgetDeferred \/ CancelDeferred \/ FinishBrake \/ Drain \/ Dispatch \/ TurnPage \/ Jump
Painter ==
  \/ BeginPaint \/ LookAtQueue \/ BeginDecision \/ LookAgain \/ FinishDecision \/ PaintPage
  \/ SaveAfterPaint

TurnsNext == Keys \/ ReaderLoop \/ Painter \/ GapPasses \/ PowerCut

TurnsSpec == TurnsInit /\ [][TurnsNext]_turnVars

-----------------------------------------------------------------------------
(* Properties *)

TurnsTypeOK ==
  /\ hand \in {"input", "press", "turn", "forget", "cancel", "cancelAndAsk", "drain", "skip", "away"}
  /\ heading \in Directions /\ lastPress \in Directions /\ dispatched \in Directions \cup {NoTurn}
  /\ {sectionOpen, gapOver, asked, more, crisp, panelCrisp, unsaved, recoveryLost} \subseteq BOOLEAN
  /\ spot \in Spots /\ progress \in Spots
  /\ {drawn, panel, lastSaved, observed, diskBefore} \subseteq Spots \cup {NoSpot}
  /\ turns \in Seq(Directions) /\ Len(turns) <= MaxPending
  /\ quality \in {"idle", "deciding", "deferred"}
  /\ brush \in {"idle", "look", "begin", "again", "decide", "paint", "save"}
  /\ changes \in Nat /\ left \in {"open", "kept", "turning", "lost"}

\* The turns that wait all go the way the reader pressed last: no press is
\* followed by a turn the other way.
TurnsFollowLastPress ==
  hand # "press" => \A i \in 1..Len(turns) : turns[i] = lastPress

\* A turn never finds the book without its section.
TurnHasSection == hand = "turn" => sectionOpen

\* Nothing under way and nothing waiting.
Quiet ==
  left = "open" /\ AtInput /\ RenderIdle /\ ~asked /\ turns = <<>>

\* Once everything has come to rest the panel shows the page the book is at, and
\* in full quality unless a reversal threw its redraw away.
RestShowsThePage == Quiet => panel = spot /\ (panelCrisp \/ recoveryLost)

\* A book that was left with a working card opens again at the page on the panel,
\* unless that is the page the save before had recorded.
PlaceIsKept == left = "kept" /\ panel \notin {NoSpot, diskBefore} => progress = panel
=============================================================================
