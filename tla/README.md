# VARAGH: a TLA+ model of the reader firmware

VARAGH is firmware for ESP32 e-ink readers. This directory holds TLA+ models of
its control logic, the TLC configurations that check them on small instances, and
TLAPS proofs of the results that hold for every instance. Paths such as
`src/main.cpp` below are relative to the repository; the definition-by-definition
correspondence is the `map` of `PROJECT.json`.

## 1. The system

| Component | State it keeps | Operations | Hard behaviour | What makes it correct |
|---|---|---|---|---|
| **ActivityManager** (`src/activities/ActivityManager.cpp`, `Activity`, `RenderLock`) | current activity, stack, pending change, request flags, waiter, rendering mutex | push / pop / replace, request a frame, wait for a frame, the pass of `loop()`, the render task | two tasks share the current object and the stack; waits across tasks; callbacks that call back in; early returns | nothing used after deletion, one owner per screen, paired `onEnter`/`onExit`, no lost wake-up, no self-deadlock, results reach their handler, fresh frames and backdrops |
| **Main loop, boot, sleep** (`src/main.cpp`) | wake reason, sleep latch, shortcut state | shortcuts, idle sleep, deep sleep, silent restart, first screen | sleep is a nested pass of the manager; a restart may come between any two steps | sleep screen is up, every screen has been exited, restart resumes where it should |
| **Sleep, USB drive and file transfer screens** (`boot_sleep/`, `network/`) | display polarity, card ownership | draw directly, detach and re-attach the card | work beside the render task | card owner stays alone, polarity of what is retained |
| **Bluetooth page turner** (`lib/BlePageTurner`, `src/BlePageTurnerGlue.cpp`) | start in flight, cancelled, held for a chapter build, retry and restart memo | start task, suspend, chapter build hand-over, tick | start against suspend, try-lock against build, bounded restart | heap is given back before a screen change, no start left behind, no circle of waits |
| **Crash-safe files** (`PersistableStore`, reading stats, backups, library index, section cache) | live, temporary and backup file | write, publish, recover | power loss or failed rename between any two steps | a complete old or new version can always be read |
| **Readers** (`activities/reader`) | page position, queue of turns, save debouncer | page turn, reversal, deferred quality, save | input loop against render task | every turn is honoured once, quality is redrawn, newest position is saved |
| **Dictionary worker** (`util/DictionaryLookup*`) | owner of the worker, done and cancel flags | start, cancel, finish, leave | hand-over of the owner between tasks | no lookup refused or result shown by mistake, no use after free |
| **Firmware update** (`network/Ota*`, `FirmwareFlasher`) | boot record slots, flashed length | stream, switch | power loss | a bootable image is always selected |
| **Network, Nearby, KOReader sync** | sessions, frames, acknowledgements | transfer, sync | lost and repeated frames | progress is never set back |
| **Power layer** (`lib/hal`) | clock, locks, panel wait | lock, panel wait, background job | several tasks share the clock | work never runs at the low clock |
| **Policies** (`SleepWakePolicy`, `QuickLock*`, `ButtonShortcutController`, ...) | small automata | edges and timeouts | order of edges and screen changes | one press, one action |
| **Rendering, fonts, parsers, games, UI** | buffers, tables | draw, parse | data, not control | outside this project |

How they interact: `main.cpp`'s `loop()` is the main task. Each round it handles
shortcuts, ticks the Bluetooth runtime, then calls `ActivityManager::loop()`,
which runs one callback of the current activity and afterwards carries out the
change of screen it asked for. Changing screens asks the Bluetooth runtime to
give back its heap and may therefore be put off. The render task is woken by a
task notification, takes the rendering mutex (`RenderLock`) and calls `render()`
of the current activity. Activities, the readers above all, use the stores, the
dictionary worker and the book cache. Deep sleep and the silent restart end the
program; boot starts it again from what the stores kept.

The hazards of each part, with the line at which each bites, are listed in
`PROJECT.json` under `hazards`.

## 2. Plan

Most important first; a module was written once the ones above it stood.

| Step | Modules | State |
|---|---|---|
| 1 | `ActivityManager`, `NavStack`, `ActivityManagerProofs`, `ScreenProofs`, `DeviceProofs`: every other part runs inside this one's callbacks and depends on its locks | done |
| 2 | `BleRadio`, `TaskProofs`: start task, suspend, chapter build and render lock | done |
| 3 | `FileReplace`, `DurableCell`, `StorageProofs`: six protocols over a card that can fail and lose power | done |
| 4 | `PageTurns`, `TurnsProofs`: turn queue, quality decision, saved place | done |
| 5 | `LookupWorker`, `TaskProofs`: owner hand-over and cancellation | done |
| 6 | `FirmwareUpdate`, `FirmwareProofs`: flash, boot record, power loss | done |
| 7 | `NearbyTransfer`, `NearbyProofs`: file transfer between two readers | done |
| 8 | framed serial transfer, clock arbitration of `HalPowerManager`, Nearby statistics and position sync | candidates |

Every safety property the passing runs check is also proved (section 5). What is
left to prove would come with the candidates of step 8.

No module that is proved about uses a RECURSIVE operator.

## 3. Modules

| Module | Contents |
|---|---|
| `NavStack` | the abstract promise: a stack of screens that only opening, closing, replacing and restarting change |
| `ActivityManager` | main task, manager and render task; invariants, action property, liveness, refinement mapping to `NavStack` |
| `ActivityManagerProofs`, `ScreenProofs`, `DeviceProofs` | the inductive invariants `IInv`, `SInv`, `CInv` and `PInv`, the theorems on tasks, screens, card and panel, the refinement of `NavStack` |
| `BleRadio` | the page turner's radio: main loop, start task, render task |
| `LookupWorker` | dictionary lookups: controllers and their shared worker task |
| `TaskProofs` | the theorems on both, and on `MCTasks` |
| `DurableCell` | the abstract promise of a saved file: one value that survives the device |
| `FileReplace`, `StorageProofs` | the six ways of replacing a file; refinement mapping to `DurableCell`; inductive invariant `StorageInv`; the theorems on `MCStorage` |
| `FirmwareUpdate`, `FirmwareProofs` | flashing the other partition and switching the boot record |
| `PageTurns`, `TurnsProofs` | page turns of a book and its saved place |
| `NearbyTransfer`, `NearbyProofs` | a file sent from one reader to another |
| `MCActivityManager`, `MCPageTurns`, `MCNearby` | the statements the refuting runs check |
| `MCStorage` | `FileReplace`, `FirmwareUpdate`, `PageTurns` and `NearbyTransfer` in one instance: what has to survive |
| `MCTasks` | `BleRadio` and `LookupWorker` in one instance: the tasks beside the main loop and the render task |

The parts joined by `MCStorage` and `MCTasks` share no variable. The variable
`front` (`task` in `MCTasks`) says which one a behaviour is about and the others
stand still; the joint instance saves a run, it claims no interaction.

### ActivityManager

*Main task.* `pc` says where it stands. In the states of `Callbacks` it runs
activity code and may do, in any order and any number of times, whatever the
manager offers: take and drop the `RenderLock`, change what it shows, ask for a
frame now or at the end of the pass, wait for a frame, open a child with a result
handler, replace the screen, finish, raise an alert. The callbacks are kept apart
because they return to different places: `setup` (boot), `input` (the shortcuts
of `main.cpp`), `gesture`, `activity` (`loop()`), `handler` (a result handler),
`onEnter`, `exclusive` (the USB drive's loop). `onExit()` and the hooks called
under the lock are part of the step that calls them; of what they can do, raising
an alert and asking for a frame are kept. In the states of `ManagerSteps` the task
runs the manager's own code; there is one action per stretch of code that no
other task can see inside, and a new one wherever the mutex is taken or given,
where the task blocks, and where the render task reads or writes what is shared.

*Pass.* `BeginPass` to `FinishPass` follow `ActivityManager::loop()`: exclusive
branch (`RouteToExclusive`, `ExclusiveDone`, and on to the rest when it asks for
a change), gestures that return before the dispatch loop (`GestureDone`,
`FrontlightGesture`), the Home gesture that skips the callback but not the
dispatch (`HomeGesture`), the callback itself, then the dispatch loop with the
Bluetooth runtime's right to defer (`DeferScreenChange`), the visit number
(`StartScreenChange`), pop, result handler, backdrop, push and replace, and the
alert and request at the end. Deep sleep (`EnterDeepSleep`) is the same pass,
nested, which ends in `asleep` however it ends.

*Render task.* `RenderTake` (`ulTaskNotifyTake`, which clears the count),
`RenderLock` (mutex and the reads under it), `RenderPaint`, `RenderPublish`
(critical section, waiter, notification), `RenderRelease` (end of the iteration's
scope; `render()` is handed the lock and keeps it).

*Kinds of screens* are constants: `Homes`, `Readers`, `Overlays`
(`requiresFreshBackdrop`), `LightPanels`, `SleepScreens`, `Exclusives` (USB drive),
`FileTransfers`, `Alerts`, `AlertRaisers`, `Pickers`, `GlobalPushes` and
`LockedWriters`, the screens that follow the documented rule of changing what
they show under `RenderLock`. Their assumptions are the code's. Home and the books
are no overlays, sleep screens or exclusive screens, and Home never waits for its
own frame. The USB drive's screen, file transfer and the sleep screen are three
classes; none of them, nor Home or a book, is what a gesture, a global shortcut or
an alert pushes. The list of modes that file transfer opens (`Pickers`) is
neither Home nor a book. What raises alerts is no file transfer, USB drive,
frontlight panel, alert or globally pushed screen, and file transfer opens no such
screen (`OpenChild`). The USB drive opens in file transfer's result handler alone,
for an answer of its list (`OpenRoot`): nothing but `onNetworkModeSelected()` calls
`goToUsbDrive()`. `result` is the local `pendingResult` of the dispatch loop, by the
screen it came from, as long as its handler runs.

*History variables* (`entered`, `stale`, `panel`, `seen`, `seenNow`, `dropped`) are
read by properties only.

Abstractions and bounds:

- `screenVisit` and `paintedVisit` are only compared; the model keeps whether they
  agree. Task notifications are taken with "clear on exit"; the model keeps
  whether the count is positive.
- An activity object is a member of `Activities`, and a deleted one may be opened
  again as a new object. An object is opened only while it does not exist
  (`Live`). The number of activities bounds the depth of the stack.
- In `requestUpdateAndWait()` the registration of the waiter and the notification
  that follows it are one step: between the two the caller does nothing else, and
  a render that answers it early leaves a notification behind that only causes
  one more frame, which other actions produce too. A call the code rejects
  (`RejectedLockHeld`, a second waiter) changes nothing and is a stutter.
- The alert at the end of a pass needs an object to show: an alert is raised only
  while a member of `Alerts` is free (one bound, one alert).
- What the Bluetooth runtime answers is a free choice; `BleRadio` models the runtime
  with the manager reduced to the screen in front and the one asked for.
- Other takers of the `RenderLock` (the radio start task's try-lock, the speed
  log's flush, the panel's idle power-off inside the render task) hold it for a
  bounded time and touch nothing modelled here; they are left out.
- Boot opens Home or a book; the other first screens (crash report, network
  targets, apps) are root screens like these.
- The Bluetooth, idle and wake timers of `main.cpp` are choices of the main task.

### BleRadio

Three tasks share the radio without a lock: `mainPc` is the main loop inside
`tick()`, the screen's `loop()` and the change of screens; `startPc` the start
task inside `beginOwned()` and `finishAttempt()`; `renderPc` the render task in
`settleStart()` and in the gate before a chapter build, both under `RenderLock`.
A step goes up to the next access to what another task writes, so the windows
inside `startAsync()` (`ClaimStart`, `SpawnStart`), `suspend()` as the render task
runs it (`CancelForBuild`, `StopForBuild`) and `beforeChapterBuild()` are there.
The heap is a free choice at both of its checks; the tracker of heaps in pieces
with its memo in RTC memory is kept (`inRow`, `wanted`, `spent`), and so is the
restart of the device. `radio` has the state "stopped" for a stop that NimBLE has
finished and nobody has collected. A remote has been chosen. Bounds:
`RetryLimit` 2 (6 in the code) and `RefusalsBeforeRestart` 2 (3); both are only
counted to.

### LookupWorker

Controllers are numbered by the depth of their screens; `owner` is `owner_`,
`notified` the worker's task notification. A word is a model value; what is found
is the word it answers, so that a stale answer shows. `FinishExit` is the end of
`waitForOwner()` and destroys the controller. A lookup that begins while the
worker has published but not yet cleared `owner_` is refused as busy and shows a
memory error (`ClaimWorker`); this is reachable and harmless, and no property
forbids it.

### FileReplace

`proto` picks the place, and with it the order of calls, the clean-up and the
recovery:

| `proto` | Code | Old file | Recovery |
|---|---|---|---|
| `store` | `PersistableStore.cpp`; settings and recent books | to `.bak`, dropped afterwards | read the `.bak` |
| `bookStats` | `BookReadingStats.cpp` | to `.bak`, dropped afterwards | whole `.tmp`, then `.bak`, then the older format |
| `globalStats` | `GlobalReadingStats.cpp` | to `.bak`, which stays; removed on a reset | read the `.bak` |
| `statsBackup` | `StatsBackup.cpp` | removed | none |
| `libraryIndex` | `LibraryBuilder.cpp` | to the backup, dropped afterwards | `recoverInterruptedInstall()` before a rebuild |
| `section` | `Section.cpp` | to the backup, dropped afterwards | `recoverSectionCacheBackup()` in the constructor, which also drops a backup beside a live file |

The build of a chapter can fail on any card: on its text, on a page, for want of
memory. A build in one go (`createSectionFile()`), one that `suspendBuild()` finds
not worth keeping and one that cannot be committed discard what they wrote
(`discard`). An incremental build that fails otherwise goes to `abandonBuild()`,
which removes the live file too (`AbandonBuild`). `clearCache()` of one section
(`StartClear`, then the steps of an erasure) removes the temporary file, the backup
and the live file, and answers only for the last. Both drop saved pages on purpose:
from then on `blank`, the version that no file stands for, is theirs.

A step is one call that changes the card. The power can go between any two of
them and, if `faulty`, any call can fail. Assumed of the card: `rename` and
`remove` are atomic, a file that was synced and closed stays, and a rename over an
existing file fails, as SdFat's does. The initial card holds whatever an earlier
firmware or an interrupted save can have left. The place in an EPUB
(`EpubReaderUtils.h`, `saveProgress`) is replaced in the order of `globalStats`
and exposed in the same way.

### FirmwareUpdate

The image is validated before; the model has the partition's blocks, the two
sectors of the boot record and the bootloader's choice among them (external, from
how `OtaBootSwitch.cpp` reproduces it). A sector that is erased or half written is
`Unusable`. Sequence numbers are bounded by `MaxSeq`, enough for a second update on
top of a first one and for the number that skips one.

### PageTurns

`hand` is the main loop between two of its accesses to what the render task also
uses, `brush` the render task. The queue, the turn dispatched last and the state of
`QueuedTurnRendering` are as in `ManualPageTurnQueue.h`. A place is a page number
through the book. `ReaderProgressSaveDebouncer` is kept with its count cut off at
`SaveEvery`. `panel`, `panelCrisp` are what the reader sees. Bounds: two chapters
of two pages, a queue of 2 (5 in the code), a save every 2 pages (10).

### NearbyTransfer

The same activity as sender and as receiver. `air` holds every packet ever sent
and any of them may arrive at any time and any number of times: loss, repetition,
delay and reordering in one. `Strays` adds packets of a session before.
The receiver may be left and entered again and lose power at any step, also
between the renames of `finishReceivedFile()`. A file is the sequence of its
chunks, so the size and checksum comparison is equality. Bounds: one session, two
chunks, one retry (12), no repeated offer (60); an instance with two sessions ran
past 5 million states without an error and is too long for a run, and the
theorems hold for every bound.

## 4. What the runs check

| Run | Instance | What it shows |
|---|---|---|
| `screens` | Home, book, overlay, child (child also pushed by a shortcut) | `TypeOK`, `NoUseAfterFree`, `PendingIsOpenable`, `OneOwner`, `LifecyclePaired`, `NoSelfDeadlock`, `WakeupOnTheWay`, `WaitShowsNewState`, `ResultReachesItsHandler`, `ImplementsNavStack` |
| `devices` | Home, book, frontlight panel, child, sleep screen, Night Mode | `FreshBackdrop` with gestures and deep sleep |
| `card` | Home, book that raises alerts, file transfer, picker, USB drive, alert, sleep screen | `CardOwnerStaysAlone` |
| `live` | Home and a child, fair scheduling | `WaitReturns`, `ChangeHappens`, `RequestIsPainted`, `RestoredIsRepainted` |
| `storage` | six protocols with 4 saves; an image of 3 blocks, 5 sequence numbers; a book of 4 pages; one transfer of 2 chunks | `StorageTypesOK`; files: `NeverTorn`, `NoSaveIsLost`, `ReadsDoNotGoBack`, `ImplementsDurableCell`; firmware: `AlwaysBoots`, `SwitchTakesEffect`; book: `TurnsFollowLastPress`, `RestShowsThePage`, `PlaceIsKept`; transfer: `InstalledIsWhole`, `NameKeepsAFile`, `SentMeansInstalled` |
| `tasks` | radio of the S3 profile with four screens; two nested lookup screens, two words | `TaskTypesOK`; radio: `BuildRunsAlone`, `PaintsApart`, `RadioOffOnUsb`, `OneRestartPerRadioUp`, `SettleEnds`, `HoldEnds`, `ChangeGoesThrough`; dictionary: `WorkerOwnsItsLookup`, `AnswersThisLookup`, `LookupsEnd` |
| `shown_reader` | Home, book | refutes `ShownReaderIsPainted` |
| `sleep_screen` | Home, book, sleep screen | refutes `SleepScreenUp` |
| `last_copy` | all-time statistics, 3 saves | refutes `BackupStandsIn` |
| `turn_recovery` | a book of 4 pages | refutes `RestIsCrisp` |
| `exit_position` | a book of 4 pages | refutes `ReopensAtLastPage` |
| `late_cancel` | one transfer of 2 chunks | refutes `FailedKeepsTheOldFile` |

Deadlock is checked in every run. The instances have one object of each kind the
question is about: two objects of one kind differ in no guard, and stacks of three
and four screens occur, so that an overlay over a child over a book over Home, a
replace from there, and a result handler that opens the next child are all
reached. `screens`, `devices` and `card` are three instances because one with
all kinds of screens has too many states; each has every kind its questions are
about. Three saves let one be acknowledged,
the next be cut and a third meet what was left behind; that is the depth at which
`last_copy` appears. `live` is small because liveness is; it has the shortest system in which
a child is opened, waits, is closed and uncovers a screen.

What some of the less obvious properties say:

- `FreshBackdrop`: once an overlay has come to rest on the panel, the pixels
  around it are those of the screen below it. It speaks of a screen below that
  has been painted since its `onEnter()`; opening an overlay over a screen that
  was never painted is possible in the code and shows whatever was there. It says so
  whenever the main task is about to take input, whatever the render task has
  queued or under way.
- `CardOwnerStaysAlone` has one exception, `sleeping => dropped`. Deep sleep entered
  over the list of file transfer runs that list's `loop()` in its nested pass; if it
  answers "USB drive" there, the pending sleep screen is discarded, the card is handed
  over and the device then goes to sleep. It is the cause of `sleep_screen` with
  another effect, and the only way to sleep with the card given away.
- `ResultReachesItsHandler` is stated for histories in which no pending activity
  was discarded. With a discard (`ActivityManager.cpp:1103`, "Should never happen
  in practice") the handler registered for the discarded child stays and takes
  the result of the next one; the discard itself is reachable through
  `main.cpp`'s shortcuts.
- `WaitShowsNewState` is the promise of `requestUpdateAndWait()` to screens that
  write under `RenderLock`. It fails for the others: `DictionaryWordSelectActivity`
  (1487-1497) and `DictionaryDefinitionActivity` (1331-1337) select the touched word
  without the lock and wait for a frame, and the frame that answers may be older
  than the selection.
- `NoSaveIsLost` holds where the order of calls keeps the last saved version at
  every point: for `store` and `libraryIndex` on any card; for `bookStats` except
  after an erasure that failed on a faulty card; for `section` until an incremental
  build is abandoned or the cache cleared, which drops the saved pages, and after
  that, on a card that refuses no call, in the sense that no older pages come back
  (on a faulty card they can, until the chapter is saved again: see below); for
  `globalStats` while the live file is there when a save that keeps a backup
  begins (`last_copy` is what happens otherwise). `statsBackup` and `resetLocal()`
  remove the old file before the new one has its name; only `NeverTorn` speaks of
  them.
- `ImplementsDurableCell` and `ReadsDoNotGoBack` speak of what is read, across any
  number of power losses, for the places in `Kept`: `store` and `libraryIndex` on any
  card, `bookStats` and `section` on one that refuses no call. For `section` an
  abandoned build counts as a newer version, which is read as "build it again".
- `RestShowsThePage` allows a page without its full quality only where the reversal
  of `turn_recovery` threw its redraw away, and `PlaceIsKept` a wrong place only in
  the case of `exit_position`.
- `PaintsApart` excuses a paint whose task waited its 3 s for the start in vain.

### Findings

1. `shown_reader`: `screenVisit` moves on before the screen does
   (`ActivityManager.cpp:610` against `612`/`676`), so a queued render of the old
   screen can count as the new book's first paint, and a remote's press is taken
   before the book is visible.
2. `sleep_screen`: `goToSleep()` relies on one nested `loop()`, which can return
   before its dispatch loop; the device then sleeps without the sleep screen and
   without `onExit()`, or even with the card handed over to the USB host.
3. `last_copy`: a save of the all-time statistics that was cut between its renames
   leaves them in the backup alone; the next save removes the backup before it
   moves anything into its place (`GlobalReadingStats.cpp:242`).
4. `turn_recovery`: a reversal of the turn that is being painted cancels the
   deferral without looking at it (`EpubReaderActivity.cpp:6118`); if the reversal is
   then dropped, the page keeps its reduced quality.
5. `exit_position`: a return to the page saved last is not shown to the debouncer
   (`EpubReaderActivity.cpp:7086`), and leaving saves the page turned away to.
6. `late_cancel`: a receiver takes a Cancel after it has replaced the file
   (`NearbyBookTransferActivity.cpp:385`) and reports the transfer as cancelled.

Met while modelling, without a run: a sender whose receiver is gone after the last
chunk repeats Complete for ever, since `sendComplete()` resets the retry counter
that `updateTimers()` counts with (`NearbyBookTransferActivity.cpp:623-630`); each
side answers a Cancel by a Cancel; nothing restores a `.crossink-backup` after a
power loss between the renames. When the card refuses to remove the backup of a
section after a promotion (`Section.cpp:123`) and again in the constructor (100), an
abandoned build removes the newer live file, and the next constructor gives the older
backup its name (104); the comment at 1403-1404 wants any partial dropped. A radio start that is won just after the render
task looked stands at the render lock with nobody telling it to give up, so the
chapter build waits its 5 s in vain and is refused. The end of the render task's
`suspend()` may clear the full-speed hold that a start has just set.

### Fairness

`live` uses `FairSpec`. The scheduler runs both tasks (weak fairness of the
render task's own steps and of the manager's). The mutex is a FreeRTOS mutex with
priority inheritance and the main task sleeps between its passes with the mutex
free, so the render task gets it (strong fairness of `RenderLock`). A callback
returns, however often it waited in between (strong fairness of
`CallbackReturns`). Passes go on (`BeginPass`, `RouteToExclusive`), not every pass
is swallowed by a gesture (`RouteToActivity`), and a radio start settles, as its
own timeouts ensure, so a change is not deferred for ever (`StartScreenChange`).
Nothing is assumed about what activities ask for.

`tasks` uses, of the radio, weak fairness of the main loop, the start task, the
render task's steps and NimBLE's stop, each a task of its own that the scheduler
runs, and strong fairness of `SwapScreens`, which waits for the mutex as above. Of
the time limits only the last one is relied on (`RefuseBuild`, weak fairness): the
others may or may not expire first. Of the lookup it uses weak fairness of the main
loop's part and of the worker. What the reader presses, the pairing switch and
`AskScreen` are under no fairness. `storage` checks safety only.

## 5. What is proved

`ActivityManagerProofs` proves, for every set of activities and every assignment
of kinds within the assumptions, and for every interleaving:

| Theorem | Statement |
|---|---|
| `TypeCorrect` | `Spec => []TypeOK` |
| `NeverUsedAfterFree` | `Spec => []NoUseAfterFree` |
| `AlwaysOpenable` | `Spec => []PendingIsOpenable` |
| `NeverSelfDeadlocks` | `Spec => []NoSelfDeadlock` |
| `NoLostWakeup` | `Spec => []WakeupOnTheWay` |
| `AnswerIsFresh` | `Spec => []WaitShowsNewState` |

They follow from one inductive invariant, `IInv` (`Invariance`). The properties
alone are not inductive. `ControlOK` adds what a control point implies: there is no
current screen only inside `goHome()`, an overlay is set aside only around its
backdrop's repaint, and a pop or swap is under way only with the pending action
that started it. `MutexOK` ties the holder of the mutex to the render task's
control point and to the object it paints. `SignalOK` says who can be waiting and
that an answer is outstanding to nobody else. `FreshOK` is the reason
`WaitShowsNewState` holds: while a frame is painted or an answer is on its way, a
screen that writes only under the lock is not stale, since it can neither write
while the render task holds the mutex nor run while it waits. The proof that a
step keeps `IInv` has one lemma per group of actions (`CallbackStep`, `PassStep`,
`DispatchStep`, `RenderStep`, `RebootStep`) and one case per action.

`ScreenProofs` builds on that and proves, just as generally:

| Theorem | Statement |
|---|---|
| `ExactlyOneOwner` | `Spec => []OneOwner` |
| `EnteredAndExited` | `Spec => []LifecyclePaired` |
| `ResultsArrive` | `Spec => ResultReachesItsHandler` |
| `Refinement` | `Spec => ImplementsNavStack` |

Its inductive invariant is `SInv`, preserved together with `IInv`
(`ScreensInvariance`). To `OneOwner` and `LifecyclePaired` it adds `HandlerOK`, that
a handler that is set waits for the screen directly above its owner, or for the
pending one, so that whatever closes next is what the handler was made for; and
`HomeOK`, that no screen is current only when the stack is empty, so that
`goHome()` after the last pop buries nothing. The lemmas at its head say what
pushing and popping do to the elements of a stack of any depth. The refinement
mapping `ShownScreens` puts the overlay that is set aside back in front of the
screen repainted under it: that repaint is a stutter of `NavStack`, and
one step of the manager is at most one step of it.

`DeviceProofs` takes up what the manager drives:

| Theorem | Statement |
|---|---|
| `HostKeepsTheCard` | `Spec => []CardOwnerStaysAlone` |
| `BackdropIsFresh` | `Spec => []FreshBackdrop` |

The card's invariant is `CInv` (`CardInvariance`). That no alert is waiting when the
USB drive opens is the end of a chain of steps. Nothing that raises alerts is on
screen together with file transfer (`RaisersOK`); an alert raised before file
transfer came is shown at the end of the pass that opened its list, and until
then the list has asked for nothing (`PickersOK`); so none waits when the list's
answer is handled (`ResultOK`, for which `result` is kept), which is the only place
that opens the USB drive (`PendingKinds`). From then on that screen's own code runs
alone (`CardOK`), but for a deep sleep that began before (`SleepOK`). The panel's
invariant is `PInv` (`PanelInvariance`): a painted full-screen activity in front is on
the panel unless it was just uncovered (`FrontOK`); an overlay lies over the screen
below but between a closing and what the handler asks for (`BehindOK`); the
frame that answers a backdrop's request is one of the screen asked for, because
the screen below the overlay is current all the while (`BackdropOK`, `LiftedOK`); and
the screen painted under the mutex is still current when it is published
(`PublishedOK`). It needs `ControlOK`, `MutexOK` and `SignalOK` of `IInv` and the owners of
`SInv`, but none of `CInv`.

The other proof modules each prove their invariants by one step per action, for every
value of the constants:

| Theorem (module) | Statement | Argument |
|---|---|---|
| `BuildAlone`, `PagesPaintApart`, `UsbFindsRadioOff`, `RestartsOnce` (`TaskProofs`) | `BuildRunsAlone`, `PaintsApart`, `RadioOffOnUsb`, `OneRestartPerRadioUp` | `BleInv`: the render task holds the lock from `settle` to `paint` and the start task passes that lock only when it is free, so a start past it has begun before; the USB screen comes in only through a suspend that has succeeded and nothing begins while it is in front; the memo is spent while a restart is counted |
| `BleTypes`, `NoCircleOfWaits`, `HoldIsGivenBack` (`TaskProofs`) | `BleTypeOK`, `WaitsAreServed`, `HoldIsOwed` | `BleTypeInv`, which adds that a change of screens under way has one asked for; `ClaimIsMains`: a start that was claimed is still the main loop's to spawn; `PagesAreBooks`: a build is only asked for by a book, whose leaving gives the radio back |
| `LookupTypes`, `WorkerOwns`, `AnswersMatch` (`TaskProofs`) | `LookupTypeOK`, `WorkerOwnsItsLookup`, `AnswersThisLookup` | `LookupInv`: the worker's job is the owner, the owner is waited for until it is cleared, and a notification is outstanding only with an owner |
| `NoLostLookup` (`TaskProofs`) | `WorkIsOnItsWay` | the owner has a notification on its way or the worker at work, and the worker lets go only of what it has answered |
| `FwTypes`, `BootsAlways`, `SwitchAllOrNothing`, `SwitchWorks` (`FirmwareProofs`) | `FwTypeOK`, `AlwaysBoots`, `SwitchIsAtomic`, `SwitchTakesEffect` | `FwInv`: the written partition is never the running one; the erased sector is never the one the bootloader takes; a number of the right parity above the active one exists among the next two |
| `TurnsFollow`, `SectionIsThere`, `RestShows` (`TurnsProofs`) | `TurnsFollowLastPress`, `TurnHasSection`, `RestShowsThePage` | `QueueInv`, `RestInv`: what waits has one direction and the dispatched turn does not oppose it; a page that is not on the panel has a render asked for or under way; a page in reduced quality has a successor, a deferral or a recorded loss |
| `TurnsTypes` (`TurnsProofs`) | `TurnsTypeOK` | `BookInv`: chapters tile the book (`ChapterFacts`), and a chapter is skipped only to another one |
| `PlaceKept` (`TurnsProofs`) | `PlaceIsKept` | `PlaceInv`: nothing is pending that the last save does not cover, and at rest the page the book is at is the one saved last, or the one pending |
| `WholeIsRead`, `SavesLast`, `ReadsKeepTheirOrder`, `CellImplemented` (`StorageProofs`) | `NeverTorn`, `NoSaveIsLost`, `ReadsDoNotGoBack`, `ImplementsDurableCell` | `StorageInv`, see below |
| `InstalledWhole`, `NameKept`, `SentIsInstalled` (`NearbyProofs`) | `InstalledIsWhole`, `NameKeepsAFile`, `SentMeansInstalled` | `NearbyInv`: a Done on the air belongs to a session whose file was put in place; in the middle of `finishReceivedFile()` the temporary file is all of the session's file, and between its renames the backup is whole |
| `NearbyTypes` (`NearbyProofs`) | `NearbyTypeOK` | `NearbyTypeInv`: the air, the sender and the receiver, each by itself |
| `StorageTypes`, `StorageSafe` (`StorageProofs`) | the properties of `storage`, of the composition | `StorageIsEach`: a behaviour of the composition is one of each part |
| `TaskTypes`, `TasksSafe` (`TaskProofs`) | the safety properties of `tasks`, of the composition | `TasksAreEach`, likewise |

`StorageInv` covers all six places that replace a file at once. That the next read
gives at least the last saved version is not inductive: it depends on what the
steps to come will remove. `NotBelow(n)` therefore also asks it of the card without
the temporary file, which the next save of a book's statistics begins by removing;
`BackedUp` says where the all-time statistics have their backup while the live file
has stepped aside, and when a left-over one may go; `Erasing` that an erasure without
a failure has removed every fallback before its place, so that none of them comes
back; `InPlace` what a clean-up relies on; `NoStaleBackup` that on a card which
refuses no call an opened chapter has a backup only while its live file steps aside,
so that an abandoned build or a cleared cache leaves nothing older to be read. The same invariant with the version last
shown in place of the last saved one gives the order of reads, and the two together
the refinement. TLC has found `StorageInv` inductive on every state of a small
instance before it was proved.

Assumptions: the named `ASSUME`s of the modules, which TLC also evaluates on each
instance; nothing else is assumed.

Only model-checked: liveness, that is `WaitReturns`, `ChangeHappens`,
`RequestIsPainted`, `RestoredIsRepainted`, `SettleEnds`, `HoldEnds`, `ChangeGoesThrough`
and `LookupsEnd`; the prover has neither fairness nor ENABLED. Of four of them the
safety half is proved, that what is waited for is on its way in every reachable
state: `NoLostWakeup` for `WaitReturns`, `NoCircleOfWaits` for `SettleEnds`, `HoldIsGivenBack`
for `HoldEnds`, `NoLostLookup` for `LookupsEnd`. The statements of the refuting runs are false and have no theorem.

## 6. Not modelled

- Of the main loop: idle timers, wake sources, splash handling, the silent-restart
  snapshot.
- Of the radio: `beforeSleep()` and `stopNow()`, chapter builds run by the main
  loop, the link note, reconnection and the remote's presses, scanning and
  pairing, windowed builds, the 250 ms pace of `tick()`.
- Of files: stores written in place (`writeDocToFile`), pruning of dated backups,
  the refusal to overwrite a newer format, the clearing of a book's whole cache
  directory, the formats themselves.
- Of the reader: footnotes, relayouts, the end of the book, automatic turns, clip
  selection, the text and comic readers.
- Of lookups: what is searched, the phrase fallback, suggestions, the online
  dictionary.
- Of updates: validation, download, the screens.
- Of the Nearby protocols: discovery, empty files, failures to send other than of
  the acceptance, the statistics and position syncs; KOReader sync.
- The network servers and clients, `HalPowerManager` and the rest of `lib/hal`, the
  small sequential policies over button edges, memory budgets.
- Rendering, fonts, parsers, localisation tables, vendored libraries, the games'
  rules, the settings screens' own state and the simulator are data or I/O without
  the control this project is about. They are most of the repository's lines, so
  the share of lines the `map` names is small.
