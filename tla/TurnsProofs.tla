----------------------------- MODULE TurnsProofs -----------------------------
(***************************************************************************)
(* Theorems about the turning of pages, for books and queues of any size:  *)
(* what waits goes the way the reader pressed last, a turn finds its       *)
(* section, what is on the panel when everything has come to rest is the   *)
(* page the book is at, in full quality, and a book that was left opens    *)
(* again at the page that was shown.                                       *)
(***************************************************************************)
EXTENDS PageTurns, TLAPS

-----------------------------------------------------------------------------
(* The queue *)

QueueInv ==
  /\ turns \in Seq(Directions) /\ heading \in Directions /\ lastPress \in Directions
  /\ \A i \in 1..Len(turns) : turns[i] = turns[1]
  /\ TurnsFollowLastPress
  /\ hand = "press" => heading = lastPress
  /\ hand = "away" => turns = <<>>
  /\ hand \in {"press", "drain", "turn"} => sectionOpen

LEMMA Empty == <<>> \in Seq(Directions) /\ Len(<<>>) = 0
OBVIOUS

LEMMA Cleared ==
  ASSUME ClearTurns, UNCHANGED <<heading, lastPress, sectionOpen>>, QueueInv,
         hand' \notin {"press", "drain", "turn"}
  PROVE  QueueInv'
BY Empty DEF ClearTurns, QueueInv, TurnsFollowLastPress

\* A press that is let in goes the way of those that wait.
LEMMA Enqueued ==
  ASSUME QueueInv, hand = "press", Enqueue(heading), UNCHANGED <<heading, lastPress, sectionOpen>>
  PROVE  QueueInv'
<1>1. CASE Reverses(heading)
  BY <1>1, Cleared DEF Enqueue
<1>2. CASE ~Reverses(heading) /\ Len(turns) < MaxPending
  <2>1. turns' = Append(turns, heading) /\ hand' = "input"
    BY <1>2 DEF Enqueue
  <2>2. /\ turns' \in Seq(Directions) /\ Len(turns') = Len(turns) + 1 /\ Len(turns) \in Nat
        /\ \A i \in 1..Len(turns) : turns'[i] = turns[i]
        /\ turns'[Len(turns) + 1] = heading
    BY <2>1 DEF QueueInv
  <2>3. turns # <<>> => Len(turns) > 0 /\ turns[1] = heading
    BY <1>2 DEF QueueInv, Reverses
  <2>4. \A i \in 1..Len(turns') : turns'[i] = heading
    BY <2>2, <2>3 DEF QueueInv
  <2>. QED
    BY <2>1, <2>2, <2>4 DEF QueueInv, TurnsFollowLastPress
<1>3. CASE ~Reverses(heading) /\ ~(Len(turns) < MaxPending)
  <2>1. turns' = turns /\ hand' = "input"
    BY <1>3 DEF Enqueue
  <2>2. Len(turns) \in Nat /\ Len(turns) > 0
    BY <1>3, QueueAssumption DEF QueueInv
  <2>3. turns[1] = heading
    BY <1>3, <2>2 DEF QueueInv, Reverses
  <2>. QED
    BY <2>1, <2>3 DEF QueueInv, TurnsFollowLastPress
<1>. QED
  BY <1>1, <1>2, <1>3

LEMMA QueueKeys ==
  ASSUME QueueInv, Keys
  PROVE  QueueInv'
<1>1. ASSUME NEW d \in Directions, Press(d) PROVE QueueInv'
  <2>1. CASE ~sectionOpen
    BY <1>1, <2>1, Empty DEF Press, ClearTurns, QueueInv, TurnsFollowLastPress
  <2>2. CASE sectionOpen
    BY <1>1, <2>2 DEF Press, QueueInv, TurnsFollowLastPress
  <2>. QED
    BY <2>1, <2>2
<1>2. ASSUME NEW d \in Directions, SkipChapter(d) PROVE QueueInv'
  BY <1>2, Empty DEF SkipChapter, ClearTurns, QueueInv, TurnsFollowLastPress
<1>3. CASE ClearPending
  BY <1>3, Cleared DEF ClearPending
<1>4. CASE Leave
  BY <1>4, Cleared DEF Leave
<1>5. CASE Open
  BY <1>5 DEF Open, Opened, QueueInv, TurnsFollowLastPress, Directions, Forward
<1>. QED
  BY <1>1, <1>2, <1>3, <1>4, <1>5 DEF Keys

LEMMA QueueLoop ==
  ASSUME QueueInv, ReaderLoop
  PROVE  QueueInv'
<1>1. CASE RouteTurn
  <2>1. CASE dispatched = -heading
    <3>1. /\ turns' = <<heading>> /\ hand' = "forget"
          /\ UNCHANGED <<heading, lastPress, sectionOpen>>
          /\ heading = lastPress /\ heading \in Directions
      BY <1>1, <2>1 DEF RouteTurn, QueueInv
    <3>2. turns' \in Seq(Directions) /\ Len(turns') = 1 /\ turns'[1] = heading
      BY <3>1
    <3>3. \A i \in 1..Len(turns') : turns'[i] = heading
      BY <3>2
    <3>. QED
      BY <3>1, <3>2, <3>3 DEF QueueInv, TurnsFollowLastPress
  <2>2. CASE Enqueue(heading)
    BY <1>1, <2>2, Enqueued DEF RouteTurn
  <2>3. CASE hand' = "turn" /\ UNCHANGED turns /\ turns = <<>>
    BY <1>1, <2>3 DEF RouteTurn, QueueInv, TurnsFollowLastPress
  <2>. QED
    BY <1>1, <2>1, <2>2, <2>3 DEF RouteTurn
<1>2. CASE ForgetDeferred
  BY <1>2 DEF ForgetDeferred, QueueInv, TurnsFollowLastPress
<1>3. CASE CancelDeferred
  BY <1>3 DEF CancelDeferred, QueueInv, TurnsFollowLastPress
<1>4. CASE FinishBrake
  BY <1>4 DEF FinishBrake, QueueInv, TurnsFollowLastPress
<1>5. CASE Drain
  <2>1. CASE Refused(Head(turns))
    BY <1>5, <2>1, Cleared DEF Drain
  <2>2. CASE ~Refused(Head(turns))
    <3>1. /\ turns # <<>> /\ turns' = Tail(turns) /\ heading' = Head(turns) /\ hand' = "drain"
          /\ hand = "input" /\ UNCHANGED <<lastPress, sectionOpen>> /\ sectionOpen
      BY <1>5, <2>2 DEF Drain, AtInput, Refused
    <3>2. /\ turns' \in Seq(Directions) /\ heading' \in Directions
          /\ Len(turns) \in Nat /\ Len(turns) > 0 /\ Len(turns') = Len(turns) - 1
          /\ \A i \in 1..Len(turns') : i + 1 \in 1..Len(turns) /\ turns'[i] = turns[i + 1]
      BY <3>1 DEF QueueInv
    <3>3. \A i \in 1..Len(turns') : turns'[i] = lastPress
      BY <3>1, <3>2 DEF QueueInv, TurnsFollowLastPress
    <3>4. \A i \in 1..Len(turns') : 1 \in 1..Len(turns')
      BY <3>2
    <3>. QED
      BY <3>1, <3>2, <3>3, <3>4 DEF QueueInv, TurnsFollowLastPress
  <2>. QED
    BY <2>1, <2>2
<1>6. CASE Dispatch
  BY <1>6 DEF Dispatch, QueueInv, TurnsFollowLastPress
<1>7. CASE TurnPage
  BY <1>7 DEF TurnPage, QueueInv, TurnsFollowLastPress
<1>8. CASE Jump
  BY <1>8 DEF Jump, QueueInv, TurnsFollowLastPress
<1>. QED
  BY <1>1, <1>2, <1>3, <1>4, <1>5, <1>6, <1>7, <1>8 DEF ReaderLoop

LEMMA QueueStep == QueueInv /\ [TurnsNext]_turnVars => QueueInv'
<1> SUFFICES ASSUME QueueInv, [TurnsNext]_turnVars PROVE QueueInv'
  OBVIOUS
<1>1. CASE Painter
  <2>1. UNCHANGED <<turns, heading, lastPress,
                    hand>> /\ (sectionOpen' = sectionOpen \/ sectionOpen')
    BY <1>1 DEF Painter, BeginPaint, LookAtQueue, BeginDecision, LookAgain, FinishDecision,
       PaintPage, SaveAfterPaint, PainterUnchanged
  <2>. QED
    BY <2>1 DEF QueueInv, TurnsFollowLastPress
<1>2. CASE GapPasses
  BY <1>2 DEF GapPasses, QueueInv, TurnsFollowLastPress
<1>3. CASE PowerCut
  BY <1>3, Cleared DEF PowerCut
<1>4. CASE UNCHANGED turnVars
  BY <1>4 DEF turnVars, mainVars, QueueInv, TurnsFollowLastPress
<1>. QED
  BY <1>1, <1>2, <1>3, <1>4, QueueKeys, QueueLoop DEF TurnsNext

LEMMA QueueInit == TurnsInit => QueueInv
BY Empty DEF TurnsInit, QueueInv, TurnsFollowLastPress, Directions, Forward

\* A press the other way takes back what waits before it is queued itself.
THEOREM TurnsFollow == TurnsSpec => []TurnsFollowLastPress
<1>1. QueueInv => TurnsFollowLastPress
  BY DEF QueueInv
<1>. QED
  BY <1>1, QueueInit, QueueStep, PTL DEF TurnsSpec

\* The main loop, which does not hold the lock, dereferences the section only
\* where it has looked for it: the render task never takes one away.
THEOREM SectionIsThere == TurnsSpec => []TurnHasSection
<1>1. QueueInv => TurnHasSection
  BY DEF QueueInv, TurnHasSection
<1>. QED
  BY <1>1, QueueInit, QueueStep, PTL DEF TurnsSpec

-----------------------------------------------------------------------------
(* What is on the panel                                                     *)

OnPanel == {"idle", "save"}
InHand == {"look", "begin", "again", "decide", "paint"}
\* The main loop is about to replace the page, to ask for it again or to own up.
Mending == {"cancel", "cancelAndAsk", "skip", "drain", "forget"}

\* Without a render asked for, the page that is drawn, then shown, is the book's.
PageIsCurrent ==
  /\ brush \in OnPanel \cup InHand
  /\ left = "open" <=> hand # "away"
  /\ hand = "away" => brush = "idle" /\ quality = "idle"
  /\ ~asked /\ hand # "away" => /\ brush \in OnPanel => panel = spot
                                /\ brush \in InHand => drawn = spot

\* Quality is left out only for a turn that waits or is being carried out; where
\* that turn is taken back, something mends it.
QualityIsOwed ==
  /\ quality = "deferred" => turns # <<>> \/ hand \in Mending
  /\ brush = "decide" /\ more /\ quality = "deciding" => turns # <<>> \/ hand \in Mending

\* A page without its quality has one of these to thank for it.
PlainIsExcused ==
  ~asked /\ ~recoveryLost /\ hand # "away" =>
    /\ brush \in OnPanel /\ ~panelCrisp => quality = "deferred" \/ hand = "turn"
    /\ brush = "paint" /\ ~crisp => quality = "deferred" \/ hand = "turn"

RestInv == PageIsCurrent /\ QualityIsOwed /\ PlainIsExcused

LEMMA RestInit == TurnsInit => RestInv
BY DEF TurnsInit, RestInv, PageIsCurrent, QualityIsOwed, PlainIsExcused, OnPanel, InHand, Mending

LEMMA RestKeys ==
  ASSUME QueueInv, RestInv, Keys
  PROVE  RestInv'
<1>. USE DEF RestInv, PageIsCurrent, QualityIsOwed, PlainIsExcused, Mending, MainUnchanged,
             renderVars, AtInput
<1>1. ASSUME NEW d \in Directions, Press(d) PROVE RestInv'
  BY <1>1 DEF Press
<1>2. ASSUME NEW d \in Directions, SkipChapter(d) PROVE RestInv'
  BY <1>2 DEF SkipChapter
<1>3. CASE ClearPending
  BY <1>3 DEF ClearPending
<1>4. CASE Leave
  BY <1>4 DEF Leave, RenderIdle
<1>5. CASE Open
  BY <1>5 DEF Open, Opened
<1>. QED
  BY <1>1, <1>2, <1>3, <1>4, <1>5 DEF Keys

LEMMA RestLoop ==
  ASSUME QueueInv, RestInv, ReaderLoop
  PROVE  RestInv'
<1>. USE DEF RestInv, PageIsCurrent, QualityIsOwed, PlainIsExcused, Mending, MainUnchanged,
             renderVars, AtInput
<1>1. CASE RouteTurn
  <2>1. CASE dispatched = -heading
    BY <1>1, <2>1 DEF RouteTurn
  <2>2. CASE Enqueue(heading)
    <3>1. turns' # <<>> \/ hand' = "cancel"
      BY <2>2, QueueAssumption DEF Enqueue, QueueInv
    <3>2. hand' \in {"input", "cancel"}
      BY <2>2 DEF Enqueue
    <3>. QED
      BY <1>1, <3>1, <3>2 DEF RouteTurn
  <2>3. CASE hand' = "turn" /\ UNCHANGED turns /\ turns = <<>>
    BY <1>1, <2>3 DEF RouteTurn
  <2>. QED
    BY <1>1, <2>1, <2>2, <2>3 DEF RouteTurn
<1>2. CASE ForgetDeferred
  BY <1>2 DEF ForgetDeferred
<1>3. CASE CancelDeferred
  BY <1>3 DEF CancelDeferred, AsksAgain
<1>4. CASE FinishBrake
  BY <1>4 DEF FinishBrake
<1>5. CASE Drain
  BY <1>5 DEF Drain, RenderIdle
<1>6. CASE Dispatch
  BY <1>6 DEF Dispatch
<1>7. CASE TurnPage
  BY <1>7 DEF TurnPage
<1>8. CASE Jump
  BY <1>8 DEF Jump
<1>. QED
  BY <1>1, <1>2, <1>3, <1>4, <1>5, <1>6, <1>7, <1>8 DEF ReaderLoop

LEMMA RestPainter ==
  ASSUME RestInv, Painter
  PROVE  RestInv'
<1>. USE DEF RestInv, PageIsCurrent, QualityIsOwed, PlainIsExcused, Mending, OnPanel, InHand,
             PainterUnchanged
<1>1. CASE BeginPaint
  BY <1>1 DEF BeginPaint
<1>2. CASE LookAtQueue
  BY <1>2 DEF LookAtQueue
<1>3. CASE BeginDecision
  BY <1>3 DEF BeginDecision
<1>4. CASE LookAgain
  BY <1>4 DEF LookAgain
<1>5. CASE FinishDecision
  BY <1>5 DEF FinishDecision
<1>6. CASE PaintPage
  BY <1>6 DEF PaintPage
<1>7. CASE SaveAfterPaint
  BY <1>7 DEF SaveAfterPaint
<1>. QED
  BY <1>1, <1>2, <1>3, <1>4, <1>5, <1>6, <1>7 DEF Painter

LEMMA RestStep == QueueInv /\ RestInv /\ [TurnsNext]_turnVars => RestInv'
<1> SUFFICES ASSUME QueueInv, RestInv, [TurnsNext]_turnVars PROVE RestInv'
  OBVIOUS
<1>. USE DEF RestInv, PageIsCurrent, QualityIsOwed, PlainIsExcused
<1>1. CASE GapPasses
  BY <1>1 DEF GapPasses, MainUnchanged, renderVars
<1>2. CASE PowerCut
  BY <1>2 DEF PowerCut, OnPanel
<1>3. CASE UNCHANGED turnVars
  BY <1>3 DEF turnVars, mainVars, renderVars
<1>. QED
  BY <1>1, <1>2, <1>3, RestKeys, RestLoop, RestPainter DEF TurnsNext

\* Deferred quality is made up for by the turn that waits or by a redraw, in every
\* interleaving of the two tasks but the reversal's, which is accounted for.
THEOREM RestShows == TurnsSpec => []RestShowsThePage
<1>1. RestInv => RestShowsThePage
  <2> SUFFICES ASSUME RestInv, Quiet PROVE panel = spot /\ (panelCrisp \/ recoveryLost)
    BY DEF RestShowsThePage
  <2>1. hand = "input" /\ brush = "idle" /\ ~asked /\ turns = <<>>
    BY Zenon DEF Quiet, AtInput, RenderIdle
  <2>2. hand # "away" /\ hand # "turn" /\ hand \notin Mending /\ brush \in OnPanel
    BY <2>1 DEF OnPanel, Mending
  <2>3. panel = spot
    BY <2>1, <2>2, Zenon DEF RestInv, PageIsCurrent
  <2>4. quality # "deferred"
    BY <2>1, <2>2 DEF RestInv, QualityIsOwed
  <2>5. panelCrisp \/ recoveryLost
    BY <2>1, <2>2, <2>4, Zenon DEF RestInv, PlainIsExcused
  <2>. QED
    BY <2>3, <2>5
<1>. QED
  BY <1>1, QueueInit, QueueStep, RestInit, RestStep, PTL DEF TurnsSpec

-----------------------------------------------------------------------------
(* The types                                                                *)

\* A chapter before another one ends where that one begins, at the latest.
LEMMA Times ==
  ASSUME NEW a \in Nat, NEW b \in Nat, NEW p \in Nat \ {0}, a < b
  PROVE  (a + 1) * p <= b * p
<1>1. b - a - 1 \in Nat
  OBVIOUS
<1>2. (b - a - 1) * p \in Nat
  BY <1>1
<1>3. (b - a - 1) * p = b * p - (a + 1) * p
  OBVIOUS
<1>4. (a + 1) * p \in Nat /\ b * p \in Nat
  OBVIOUS
<1>. QED
  BY <1>2, <1>3, <1>4

\* What division says of a page and its chapter.
LEMMA Divides ==
  ASSUME NEW s \in Nat, NEW p \in Nat \ {0}
  PROVE  /\ s \div p \in Nat
         /\ (s \div p) * p <= s
         /\ s < ((s \div p) + 1) * p
OBVIOUS

\* Every page is in one of the chapters, and each of them has a first page.
LEMMA ChapterFacts ==
  ASSUME NEW s \in Spots
  PROVE  /\ ChapterOf(s) \in 0..(Chapters - 1)
         /\ \A c \in 0..(Chapters - 1) : FirstOf(c) \in Spots
<1>. DEFINE c == ChapterOf(s)
<1>1. Chapters \in Nat \ {0} /\ ChapterPages \in Nat \ {0} /\ Chapters * ChapterPages \in Nat
  BY BookAssumption
<1>2. c \in Nat /\ c * ChapterPages <= s
  BY <1>1, Divides DEF ChapterOf, Spots
<1>3. s < Chapters * ChapterPages /\ s \in Nat
  BY <1>1 DEF Spots
<1>4. c < Chapters
  <2>1. SUFFICES ASSUME Chapters <= c PROVE FALSE
    BY <1>1, <1>2
  <2>2. c = Chapters \/ (Chapters + 1) * ChapterPages <= c * ChapterPages
    BY <1>1, <1>2, <2>1, Times
  <2>3. (Chapters + 1) * ChapterPages = Chapters * ChapterPages + ChapterPages
    BY <1>1
  <2>4. c * ChapterPages \in Nat
    BY <1>1, <1>2
  <2>. QED
    BY <1>1, <1>2, <1>3, <2>2, <2>3, <2>4
<1>5. ASSUME NEW k \in 0..(Chapters - 1) PROVE FirstOf(k) \in Spots
  <2>1. (k + 1) * ChapterPages <= Chapters * ChapterPages
    BY <1>1, <1>5, Times
  <2>2. (k + 1) * ChapterPages = k * ChapterPages + ChapterPages /\ k * ChapterPages \in Nat
    BY <1>1, <1>5
  <2>. QED
    BY <1>1, <2>1, <2>2 DEF FirstOf, Spots
<1>. QED
  BY <1>1, <1>2, <1>4, <1>5

TurnFlagsOK ==
  /\ sectionOpen \in BOOLEAN /\ gapOver \in BOOLEAN /\ asked \in BOOLEAN /\ more \in BOOLEAN
  /\ crisp \in BOOLEAN /\ panelCrisp \in BOOLEAN /\ unsaved \in BOOLEAN
  /\ recoveryLost \in BOOLEAN

\* Where the book is and what it knows of its pages.  A place that is still to be
\* saved is one of the book's, and a chapter is skipped only to another one.
PagesOK ==
  /\ spot \in Spots /\ progress \in Spots
  /\ drawn \in Spots \cup {NoSpot} /\ panel \in Spots \cup {NoSpot}
  /\ lastSaved \in Spots \cup {NoSpot} /\ observed \in Spots \cup {NoSpot}
  /\ diskBefore \in Spots \cup {NoSpot} /\ changes \in Nat
  /\ unsaved => observed \in Spots
  /\ brush \in {"look", "begin", "again", "decide", "paint"} => drawn \in Spots
  /\ hand = "skip" /\ heading = Forward => ChapterOf(spot) < Chapters - 1

TurnPlacesOK ==
  /\ hand \in {"input", "press", "turn", "forget", "cancel", "cancelAndAsk", "drain", "skip",
              "away"}
  /\ dispatched \in Directions \cup {NoTurn}
  /\ quality \in {"idle", "deciding", "deferred"}
  /\ brush \in {"idle", "look", "begin", "again", "decide", "paint", "save"}
  /\ left \in {"open", "kept", "turning", "lost"}
  /\ Len(turns) <= MaxPending

BookInv == QueueInv /\ RestInv /\ TurnFlagsOK /\ PagesOK /\ TurnPlacesOK

\* A save leaves places of the book.
LEMMA SaveTypes ==
  ASSUME NEW s \in Spots, NEW seen \in Spots, NEW cnt \in Nat, NEW ok, SavePlace(s, seen, cnt,
  ok),
         progress \in Spots, lastSaved \in Spots \cup {NoSpot}
  PROVE  /\ progress' \in Spots /\ lastSaved' \in Spots \cup {NoSpot} /\ observed' \in Spots
         /\ changes' \in Nat /\ unsaved' \in BOOLEAN
<1>1. CASE ok
  <2>1. progress' = s /\ lastSaved' = s /\ MarkPersisted(s, seen, cnt)
    BY <1>1 DEF SavePlace
  <2>2. observed' \in Spots /\ changes' \in Nat
    BY <2>1 DEF MarkPersisted
  <2>3. unsaved' \in BOOLEAN
    BY <2>1, Zenon DEF MarkPersisted
  <2>. QED
    BY <2>1, <2>2, <2>3
<1>2. CASE ~ok
  BY <1>2 DEF SavePlace
<1>. QED
  BY <1>1, <1>2

\* So does what follows a paint, saved or only taken note of.
LEMMA QueueSaveTypes ==
  ASSUME NEW s \in Spots, NEW late, NEW ok, QueueSave(s, late, ok), PagesOK, unsaved \in BOOLEAN
  PROVE  /\ progress' \in Spots /\ lastSaved' \in Spots \cup {NoSpot}
         /\ observed' \in Spots \cup {NoSpot} /\ (unsaved' => observed' \in Spots)
         /\ changes' \in Nat /\ unsaved' \in BOOLEAN
<1>. DEFINE seen == IF CountsAsChange(s) THEN s ELSE observed
            cnt == IF CountsAsChange(s) /\ changes < SaveEvery THEN changes + 1 ELSE changes
            pend == unsaved \/ CountsAsChange(s)
<1>. USE DEF PagesOK
<1>1. seen = s /\ cnt \in Nat
  BY DEF CountsAsChange
<1>2. CASE UNCHANGED placeVars
  BY <1>2 DEF placeVars
<1>3. CASE SavePlace(s, seen, cnt, ok)
  BY <1>1, <1>3, SaveTypes
<1>4. CASE /\ observed' = seen /\ unsaved' = pend /\ changes' = cnt
           /\ UNCHANGED <<progress, lastSaved>>
  <2>1. unsaved' \in BOOLEAN
    BY <1>4, Zenon
  <2>. QED
    BY <1>1, <1>4, <2>1
<1>. QED
  BY <1>2, <1>3, <1>4 DEF QueueSave

\* A book just opened is in order.
LEMMA TurnsTypeInit == TurnsInit => BookInv
<1>. SUFFICES ASSUME TurnsInit PROVE BookInv
  OBVIOUS
<1>1. 0 \in Spots
  BY BookAssumption DEF Spots
<1>2. PagesOK
  BY <1>1 DEF TurnsInit, PagesOK
<1>3. TurnFlagsOK
  BY Zenon DEF TurnsInit, TurnFlagsOK
<1>4. TurnPlacesOK
  BY Empty, QueueAssumption DEF TurnsInit, TurnPlacesOK
<1>. QED
  BY <1>2, <1>3, <1>4, QueueInit, RestInit DEF BookInv

\* The two tasks stand at their places, and the queue has room for what it holds.
LEMMA PlacesKeys == ASSUME QueueInv, TurnPlacesOK, Keys PROVE TurnPlacesOK'
<1>. USE Empty, QueueAssumption DEF TurnPlacesOK, ClearTurns, MainUnchanged, renderVars
<1>1. ASSUME NEW d \in Directions, Press(d) PROVE TurnPlacesOK'
  BY <1>1 DEF Press
<1>2. ASSUME NEW d \in Directions, SkipChapter(d) PROVE TurnPlacesOK'
  BY <1>2 DEF SkipChapter
<1>3. CASE ClearPending
  BY <1>3 DEF ClearPending
<1>4. CASE Leave
  BY <1>4 DEF Leave
<1>5. CASE Open
  BY <1>5 DEF Open, Opened
<1>. QED
  BY <1>1, <1>2, <1>3, <1>4, <1>5 DEF Keys

LEMMA PlacesLoop == ASSUME QueueInv, TurnPlacesOK, ReaderLoop PROVE TurnPlacesOK'
<1>. USE QueueAssumption DEF TurnPlacesOK, ClearTurns, MainUnchanged, renderVars
<1>1. CASE RouteTurn
  <2>1. CASE dispatched = -heading
    <3>1. turns' = <<heading>> /\ dispatched' = NoTurn /\ hand' = "forget"
          /\ UNCHANGED <<quality, brush, left>>
      BY <1>1, <2>1 DEF RouteTurn
    <3>2. Len(turns') = 1
      BY <3>1
    <3>. QED
      BY <3>1, <3>2
  <2>2. CASE Enqueue(heading)
    <3>1. turns \in Seq(Directions) /\ heading \in Directions
      BY DEF QueueInv
    <3>2. Len(Append(turns, heading)) = Len(turns) + 1 /\ Len(turns) \in Nat
      BY <3>1
    <3>. QED
      BY <1>1, <2>2, <3>2, Empty DEF RouteTurn, Enqueue
  <2>3. CASE hand' = "turn" /\ UNCHANGED <<turns, dispatched>>
    BY <1>1, <2>3 DEF RouteTurn
  <2>. QED
    BY <1>1, <2>1, <2>2, <2>3 DEF RouteTurn
<1>2. CASE Drain
  <2>1. turns # <<>> /\ turns \in Seq(Directions)
    BY <1>2 DEF Drain, QueueInv
  <2>2. Len(Tail(turns)) = Len(turns) - 1 /\ Len(turns) \in Nat
    BY <2>1
  <2>. QED
    BY <1>2, <2>2, Empty DEF Drain
<1>3. CASE Dispatch
  BY <1>3 DEF Dispatch, QueueInv
<1>4. CASE ForgetDeferred \/ CancelDeferred \/ FinishBrake \/ TurnPage \/ Jump
  BY <1>4 DEF ForgetDeferred, CancelDeferred, FinishBrake, TurnPage, Jump
<1>. QED
  BY <1>1, <1>2, <1>3, <1>4 DEF ReaderLoop

LEMMA PlacesStep == ASSUME QueueInv, TurnPlacesOK, [TurnsNext]_turnVars PROVE TurnPlacesOK'
<1>. USE DEF TurnPlacesOK
<1>1. CASE Painter
  BY <1>1 DEF Painter, BeginPaint, LookAtQueue, BeginDecision, LookAgain, FinishDecision,
     PaintPage, SaveAfterPaint, PainterUnchanged
<1>2. CASE GapPasses
  BY <1>2 DEF GapPasses, MainUnchanged, renderVars
<1>3. CASE PowerCut
  BY <1>3, Empty, QueueAssumption DEF PowerCut, ClearTurns
<1>4. CASE UNCHANGED turnVars
  BY <1>4 DEF turnVars, mainVars, renderVars
<1>. QED
  BY <1>1, <1>2, <1>3, <1>4, PlacesKeys, PlacesLoop DEF TurnsNext

\* Each step leaves the book and its bookkeeping on pages that exist.
LEMMA PagesStep ==
  ASSUME QueueInv, RestInv, TurnFlagsOK, PagesOK, [TurnsNext]_turnVars
  PROVE  PagesOK'
<1>. USE DEF PagesOK
<1>0. unsaved \in BOOLEAN /\ heading \in Directions
  BY DEF TurnFlagsOK, QueueInv
<1>1. ASSUME NEW d \in Directions, Press(d) PROVE PagesOK'
  BY <1>1 DEF Press, MainUnchanged, renderVars, placeVars
<1>2. ASSUME NEW d \in Directions, SkipChapter(d) PROVE PagesOK'
  BY <1>2 DEF SkipChapter, MainUnchanged, renderVars, placeVars
<1>3. CASE ClearPending \/ RouteTurn \/ ForgetDeferred \/ CancelDeferred \/ FinishBrake \/ Drain
             \/ Dispatch \/ GapPasses
  <2>1. UNCHANGED <<spot, drawn, panel, brush, placeVars, diskBefore>>
    BY <1>3 DEF ClearPending, RouteTurn, ForgetDeferred, CancelDeferred, FinishBrake, Drain,
       Dispatch,
       GapPasses, MainUnchanged, renderVars
  <2>2. hand' = "skip" => hand = "skip" /\ heading' = heading
    BY <1>3 DEF ClearPending, RouteTurn, Enqueue, ForgetDeferred, CancelDeferred, FinishBrake,
       Drain,
       Dispatch, GapPasses
  <2>. QED
    BY <2>1, <2>2 DEF placeVars
<1>4. CASE TurnPage
  BY <1>4 DEF TurnPage, MainUnchanged, renderVars, placeVars
<1>5. CASE Jump
  <2>1. ChapterOf(spot) \in 0..(Chapters - 1) /\ \A c \in 0..(Chapters - 1) : FirstOf(c) \in Spots
    BY ChapterFacts
  <2>2. spot' \in Spots
    BY <1>5, <2>1, BookAssumption DEF Jump
  <2>. QED
    BY <1>5, <2>2 DEF Jump, MainUnchanged, renderVars, placeVars
<1>6. CASE Leave
  <2>1. CASE unsaved
    <3>1. PICK ok \in BOOLEAN : SavePlace(observed, observed, changes, ok)
      BY <1>6, <2>1 DEF Leave
    <3>2. /\ progress' \in Spots /\ lastSaved' \in Spots \cup {NoSpot} /\ observed' \in Spots
          /\ changes' \in Nat
      BY <2>1, <3>1, SaveTypes
    <3>. QED
      BY <1>6, <3>2 DEF Leave, renderVars
  <2>2. CASE ~unsaved
    BY <1>6, <2>2 DEF Leave, renderVars, placeVars
  <2>. QED
    BY <2>1, <2>2
<1>7. CASE Open
  <2>1. /\ spot' = progress /\ progress' = progress /\ brush' = brush /\ hand' = "input"
        /\ lastSaved' = NoSpot /\ observed' = NoSpot /\ unsaved' = FALSE /\ changes' = 0
        /\ drawn' = NoSpot /\ panel' = NoSpot /\ diskBefore' = NoSpot
    BY <1>7 DEF Open, Opened
  <2>2. brush = "idle"
    BY <1>7 DEF Open, RestInv, PageIsCurrent
  <2>. QED
    BY <2>1, <2>2
<1>8. CASE BeginPaint \/ LookAtQueue \/ BeginDecision \/ LookAgain \/ FinishDecision \/ PaintPage
  BY <1>8 DEF BeginPaint, LookAtQueue, BeginDecision, LookAgain, FinishDecision, PaintPage,
     PainterUnchanged, placeVars, RenderIdle
<1>9. CASE SaveAfterPaint
  <2>1. PICK late \in BOOLEAN, ok \in BOOLEAN : QueueSave(spot, late, ok)
    BY <1>9 DEF SaveAfterPaint
  <2>2. /\ progress' \in Spots /\ lastSaved' \in Spots \cup {NoSpot}
        /\ observed' \in Spots \cup {NoSpot} /\ (unsaved' => observed' \in Spots)
        /\ changes' \in Nat
    BY <1>0, <2>1, QueueSaveTypes
  <2>. QED
    BY <1>9, <2>2 DEF SaveAfterPaint, PainterUnchanged
<1>10. CASE PowerCut
  BY <1>10 DEF PowerCut, placeVars
<1>11. CASE UNCHANGED turnVars
  BY <1>11 DEF turnVars, mainVars, renderVars, placeVars
<1>. QED
  BY <1>1, <1>2, <1>3, <1>4, <1>5, <1>6, <1>7, <1>8, <1>9, <1>10, <1>11
     DEF TurnsNext, Keys, ReaderLoop, Painter

\* The flags stay flags.
LEMMA TurnFlagsStep ==
  ASSUME TurnFlagsOK, QueueInv, PagesOK, [TurnsNext]_turnVars
  PROVE  TurnFlagsOK'
<1>. USE DEF TurnFlagsOK
<1>1. CASE \E d \in Directions : Press(d) \/ SkipChapter(d)
  BY <1>1 DEF Press, SkipChapter, MainUnchanged, renderVars, placeVars
<1>2. CASE ClearPending \/ RouteTurn \/ FinishBrake \/ Drain \/ Dispatch
  <2>1. UNCHANGED <<sectionOpen, gapOver, asked, recoveryLost>> /\ MainUnchanged
    BY <1>2 DEF ClearPending, RouteTurn, FinishBrake, Drain, Dispatch
  <2>. QED
    BY <2>1 DEF MainUnchanged, renderVars, placeVars
<1>3. CASE GapPasses
  BY <1>3 DEF GapPasses, MainUnchanged, renderVars, placeVars
<1>4. CASE ForgetDeferred
  <2>1. recoveryLost' \in BOOLEAN
    BY <1>4, Zenon DEF ForgetDeferred
  <2>. QED
    BY <1>4, <2>1 DEF ForgetDeferred, MainUnchanged, renderVars, placeVars
<1>5. CASE CancelDeferred
  <2>1. asked' \in BOOLEAN
    BY <1>5, Zenon DEF CancelDeferred
  <2>. QED
    BY <1>5, <2>1 DEF CancelDeferred, MainUnchanged, renderVars, placeVars
<1>6. CASE TurnPage
  <2>1. sectionOpen' \in BOOLEAN /\ gapOver' \in BOOLEAN /\ asked' \in BOOLEAN
    BY <1>6, Zenon DEF TurnPage
  <2>. QED
    BY <1>6, <2>1 DEF TurnPage, MainUnchanged, renderVars, placeVars
<1>7. CASE Jump
  <2>1. sectionOpen' \in BOOLEAN /\ asked' \in BOOLEAN
    BY <1>7, Zenon DEF Jump
  <2>. QED
    BY <1>7, <2>1 DEF Jump, MainUnchanged, renderVars, placeVars
<1>8. CASE Leave
  <2>1. UNCHANGED <<sectionOpen, gapOver, more, crisp, panelCrisp,
                    recoveryLost>> /\ asked' = FALSE
    BY <1>8 DEF Leave, renderVars
  <2>2. unsaved' \in BOOLEAN
    BY <1>8 DEF Leave, SavePlace, MarkPersisted, placeVars
  <2>. QED
    BY <2>1, <2>2
<1>9. CASE Open
  BY <1>9 DEF Open, Opened
<1>10. CASE SaveAfterPaint
  <2>1. PICK late \in BOOLEAN, ok \in BOOLEAN : QueueSave(spot, late, ok)
    BY <1>10 DEF SaveAfterPaint
  <2>2. spot \in Spots
    BY DEF PagesOK
  <2>3. unsaved' \in BOOLEAN
    BY <2>1, <2>2, QueueSaveTypes
  <2>. QED
    BY <1>10, <2>3 DEF SaveAfterPaint, PainterUnchanged
<1>11. CASE LookAgain
  <2>1. more' \in BOOLEAN
    BY <1>11, Zenon DEF LookAgain
  <2>. QED
    BY <1>11, <2>1 DEF LookAgain, PainterUnchanged, placeVars
<1>12. CASE FinishDecision
  <2>1. more' \in BOOLEAN /\ crisp' \in BOOLEAN
    BY <1>12, Zenon DEF FinishDecision
  <2>. QED
    BY <1>12, <2>1 DEF FinishDecision, PainterUnchanged, placeVars
<1>13. CASE BeginPaint \/ LookAtQueue \/ BeginDecision \/ PaintPage
  BY <1>13 DEF BeginPaint, LookAtQueue, BeginDecision, PaintPage, PainterUnchanged, placeVars
<1>14. CASE PowerCut
  BY <1>14 DEF PowerCut, placeVars
<1>15. CASE UNCHANGED turnVars
  BY <1>15 DEF turnVars, mainVars, renderVars, placeVars
<1>. QED
  BY <1>1, <1>2, <1>3, <1>4, <1>5, <1>6, <1>7, <1>8, <1>9, <1>10, <1>11, <1>12, <1>13, <1>14,
     <1>15
     DEF TurnsNext, Keys, ReaderLoop, Painter

LEMMA TurnsTypeStep == BookInv /\ [TurnsNext]_turnVars => BookInv'
BY QueueStep, RestStep, TurnFlagsStep, PagesStep, PlacesStep DEF BookInv

\* The book never leaves its pages, whatever is skipped, turned, saved or lost,
\* and no more turns wait than there is room for.
THEOREM TurnsTypes == TurnsSpec => []TurnsTypeOK
<1>1. BookInv => TurnsTypeOK
  BY DEF BookInv, QueueInv, TurnFlagsOK, PagesOK, TurnPlacesOK, TurnsTypeOK
<1>. QED
  BY <1>1, TurnsTypeInit, TurnsTypeStep, PTL DEF TurnsSpec

-----------------------------------------------------------------------------
(* The place in the book                                                    *)

\* Nothing is pending that the last save does not cover; a page that rests on the
\* panel has been saved or is the one that is pending; and a book that was left
\* with a working card has its page in progress.bin.
PlaceInv ==
  /\ ~unsaved => observed = lastSaved
  /\ ~asked /\ brush = "idle" /\ hand # "away" =>
       \/ spot = lastSaved
       \/ unsaved /\ observed = spot
  /\ left = "kept" => hand = "away"
  /\ PlaceIsKept

LEMMA PlaceInit == TurnsInit => PlaceInv
BY DEF TurnsInit, PlaceInv, PlaceIsKept

\* After QueueSave the page is the one saved last, or pending.
LEMMA QueueSaveKeeps ==
  ASSUME NEW s \in Spots, NEW late, NEW ok, QueueSave(s, late, ok), ~unsaved => observed =
  lastSaved
  PROVE  /\ ~unsaved' => observed' = lastSaved'
         /\ s = lastSaved' \/ (unsaved' /\ observed' = s)
<1>. USE DEF CountsAsChange
<1>1. CASE s = lastSaved
  BY <1>1 DEF QueueSave, placeVars
<1>2. CASE s # lastSaved
  <2>1. CASE \E cnt : SavePlace(s, s, cnt, ok)
    BY <2>1 DEF SavePlace, MarkPersisted
  <2>2. CASE observed' = s /\ unsaved'
    BY <2>2
  <2>3. (IF CountsAsChange(s) THEN s ELSE observed) = s /\ (unsaved \/ CountsAsChange(s))
    BY <1>2
  <2>. QED
    BY <1>2, <2>1, <2>2, <2>3 DEF QueueSave
<1>. QED
  BY <1>1, <1>2

\* A turn asks for a render, a render ends in QueueSave, and the book is left between renders.
LEMMA PlaceStep ==
  BookInv /\ PlaceInv /\ [TurnsNext]_turnVars => PlaceInv'
<1> SUFFICES ASSUME BookInv, PlaceInv, [TurnsNext]_turnVars PROVE PlaceInv'
  OBVIOUS
<1>0. spot \in Spots /\ RestInv
  BY DEF BookInv, PagesOK
<1>1. ASSUME hand # "away" => hand' # "away", ~asked' => ~asked /\ spot' = spot,
             brush' = brush, hand = "away" => hand' = "away",
             UNCHANGED <<placeVars, panel, diskBefore, left>>
      PROVE  PlaceInv'
  BY <1>1 DEF PlaceInv, PlaceIsKept, placeVars
<1>2. CASE \/ ReaderLoop \/ ClearPending \/ GapPasses
             \/ \E d \in Directions : Press(d) \/ SkipChapter(d)
  <2>1. hand # "away" => hand' # "away"
    BY <1>2 DEF ReaderLoop, RouteTurn, Enqueue, ForgetDeferred, CancelDeferred, FinishBrake,
       Drain,
       Dispatch, TurnPage, Jump, ClearPending, GapPasses, Press, SkipChapter
  <2>2. hand = "away" => hand' = "away"
    BY <1>2 DEF ReaderLoop, RouteTurn, ForgetDeferred, CancelDeferred, FinishBrake, Drain,
       Dispatch, TurnPage, Jump, ClearPending, GapPasses, Press, SkipChapter, AtInput
  <2>3. ~asked' => ~asked /\ spot' = spot
    BY <1>2 DEF ReaderLoop, RouteTurn, ForgetDeferred, CancelDeferred, FinishBrake, Drain,
       Dispatch, TurnPage, Jump, ClearPending, GapPasses, Press, SkipChapter
  <2>4. UNCHANGED <<brush, placeVars, panel, diskBefore, left>>
    BY <1>2 DEF ReaderLoop, RouteTurn, ForgetDeferred, CancelDeferred, FinishBrake, Drain,
       Dispatch, TurnPage, Jump, ClearPending, GapPasses, Press, SkipChapter, MainUnchanged,
       renderVars
  <2>. QED
    BY <1>1, <2>1, <2>2, <2>3, <2>4
<1>3. CASE Leave
  <2>1. /\ brush = "idle" /\ hand = "input" /\ hand' = "away" /\ diskBefore' = lastSaved
        /\ panel' = panel /\ left' # "open"
    BY <1>3 DEF Leave, renderVars, RenderIdle, AtInput
  <2>2. ~unsaved' => observed' = lastSaved'
    BY <1>3 DEF Leave, SavePlace, MarkPersisted, placeVars, PlaceInv
  <2>3. ASSUME left' = "kept", panel # lastSaved, panel # NoSpot PROVE progress' = panel
    <3>1. ~asked
      BY <1>3, <2>3 DEF Leave
    <3>2. panel = spot
      BY <1>0, <2>1, <3>1 DEF RestInv, PageIsCurrent, OnPanel
    <3>3. unsaved /\ observed = panel
      BY <2>1, <2>3, <3>1, <3>2 DEF PlaceInv
    <3>. QED
      BY <1>3, <2>3, <3>3 DEF Leave, SavePlace
  <2>. QED
    BY <2>1, <2>2, <2>3 DEF PlaceInv, PlaceIsKept
<1>4. CASE Open
  BY <1>4 DEF Open, Opened, PlaceInv, PlaceIsKept
<1>5. CASE BeginPaint \/ LookAtQueue \/ BeginDecision \/ LookAgain \/ FinishDecision \/ PaintPage
  <2>1. UNCHANGED <<hand, diskBefore, left, placeVars>> /\ brush' # "idle"
    BY <1>5 DEF BeginPaint, LookAtQueue, BeginDecision, LookAgain, FinishDecision, PaintPage,
       PainterUnchanged
  <2>2. left # "kept"
    <3>1. brush # "idle" => hand # "away"
      BY <1>0 DEF RestInv, PageIsCurrent
    <3>. QED
      BY <1>5, <3>1 DEF BeginPaint, LookAtQueue, BeginDecision, LookAgain, FinishDecision,
         PaintPage,
         PlaceInv, RenderIdle
  <2>. QED
    BY <2>1, <2>2 DEF PlaceInv, PlaceIsKept, placeVars
<1>6. CASE SaveAfterPaint
  <2>1. PICK late \in BOOLEAN, ok \in BOOLEAN : QueueSave(spot, late, ok)
    BY <1>6 DEF SaveAfterPaint
  <2>2. ~unsaved' => observed' = lastSaved'
    BY <1>0, <2>1, QueueSaveKeeps DEF PlaceInv
  <2>3. spot = lastSaved' \/ (unsaved' /\ observed' = spot)
    BY <1>0, <2>1, QueueSaveKeeps DEF PlaceInv
  <2>4. left # "kept" /\ UNCHANGED <<spot, hand, left>>
    BY <1>0, <1>6 DEF SaveAfterPaint, PainterUnchanged, RestInv, PageIsCurrent
  <2>. QED
    BY <2>2, <2>3, <2>4 DEF PlaceInv, PlaceIsKept
<1>7. CASE PowerCut
  BY <1>7 DEF PowerCut, PlaceInv, PlaceIsKept, placeVars
<1>8. CASE UNCHANGED turnVars
  BY <1>8, <1>1 DEF turnVars, mainVars, renderVars
<1>. QED
  BY <1>2, <1>3, <1>4, <1>5, <1>6, <1>7, <1>8 DEF TurnsNext, Keys, Painter

\* A book left with a working card opens at the page on the panel, unless the save
\* before had that one: between saves the debouncer keeps the page that is shown.
THEOREM PlaceKept == TurnsSpec => []PlaceIsKept
<1>1. PlaceInv => PlaceIsKept
  BY DEF PlaceInv
<1>. QED
  BY <1>1, TurnsTypeInit, TurnsTypeStep, PlaceInit, PlaceStep, PTL DEF TurnsSpec
=============================================================================
