---------------------------- MODULE FileReplace ----------------------------
(***************************************************************************)
(* How the firmware replaces a file on the card so that a power loss or a  *)
(* failing call leaves something to read: a new version is written beside  *)
(* the live file, the live file steps aside, the new one takes its name.   *)
(* Six places do this, each with its own order, its own clean-up and its   *)
(* own recovery:                                                           *)
(*                                                                         *)
(*   store         PersistableStore: settings, recent books                *)
(*   bookStats     BookReadingStats: one book's statistics                 *)
(*   globalStats   GlobalReadingStats: all-time statistics                 *)
(*   statsBackup   StatsBackup: dated copies of the all-time statistics    *)
(*   libraryIndex  LibraryBuilder: the index behind the shelf              *)
(*   section       Section: the laid-out pages of a chapter                *)
(*                                                                         *)
(* A step is one call that changes the card; the power can go before and   *)
(* after each.  The tests for a file's existence in between belong to the  *)
(* step they guard: one task saves a file, and nothing else writes it.     *)
(* A complete file is the number of the save it came from.                 *)
(***************************************************************************)
EXTENDS Integers

CONSTANTS
  Protocols,   \* the places this instance is about
  MaxSaves,    \* saves and erasures in a behaviour (bound)
  Missing,     \* no file of that name
  Partial      \* a file that does not hold a whole version

AllProtocols ==
  {"store", "bookStats", "globalStats", "statsBackup", "libraryIndex", "section"}
Files == {"live", "tmp", "bak", "older"}
Saves == 0..MaxSaves
Contents == Saves \cup {Missing, Partial}

ASSUME ProtocolsAssumption == Protocols \subseteq AllProtocols
ASSUME SavesAssumption == MaxSaves \in Nat
ASSUME ContentsAssumption == Missing # Partial /\ {Missing, Partial} \cap Nat = {}

VARIABLES
  proto,     \* whose file this is
  faulty,    \* calls of the card may fail, not only the power
  disk,      \* what stands under each name of it on the card
  pc,        \* where the task that saves, erases or reads stands
  rotates,   \* backupPath # nullptr (globalStats)
  had,       \* hadOriginal, hadPrevious: there is a live file to step aside
  faulted,   \* a call has failed in this operation (remove()'s local ok, negated)
  loaded,    \* the program has read the file since it started
  \* history, read by no action
  started,   \* number of the newest save or erasure
  acked,     \* number of the newest one that reported success
  blank,     \* the version that having no file stands for
  shown      \* the version last read

vars == <<proto, faulty, disk, pc, rotates, had, faulted, loaded, started, acked, blank, shown>>
history == <<started, acked, blank, shown>>

-----------------------------------------------------------------------------
(* The card *)

Exists(f) == disk[f] # Missing
Complete(c) == c \in Nat

Writes(f, c) == disk' = [disk EXCEPT ![f] = c]
Fails(next) == pc' = next /\ faulted' = TRUE /\ UNCHANGED disk
Skips(next) == pc' = next /\ UNCHANGED <<disk, faulted>>

\* Storage.remove of a file that is there.
Remove(f, ok, failed) ==
  \/ pc' = ok /\ Writes(f, Missing) /\ UNCHANGED faulted
  \/ faulty /\ Fails(failed)

\* Storage.rename does not overwrite: over an existing file it fails by itself.
Rename(from, to, ok, failed) ==
  IF Exists(from) /\ ~Exists(to)
  THEN \/ /\ pc' = ok
          /\ disk' = [disk EXCEPT ![to] = disk[from], ![from] = Missing]
          /\ UNCHANGED faulted
       \/ faulty /\ Fails(failed)
  ELSE Skips(failed)

\* "if (exists(f) && !remove(f)) ..."
RemoveIfThere(f, ok, failed) == IF Exists(f) THEN Remove(f, ok, failed) ELSE Skips(ok)

BrokenTmpIsSafe(d) == d["tmp"] # Missing   \* the name alone decides

\* Is a left-over temporary file as good as a finished one?  BookReadingStats
\* looks at its size, its length on reading and its version byte.
TmpIsSafe(d) == Complete(d["tmp"])

\* What the program would read if it started now.
Value(p, d, none) ==
  CASE p = "bookStats" ->
         IF d["live"] # Missing THEN d["live"]
         ELSE IF TmpIsSafe(d) THEN d["tmp"]
         ELSE IF d["bak"] # Missing THEN d["bak"]
         ELSE IF d["older"] # Missing THEN d["older"] ELSE none
    [] p \in {"globalStats", "libraryIndex"} ->
         IF Complete(d["live"]) THEN d["live"]
         ELSE IF Complete(d["bak"]) THEN d["bak"] ELSE none
    [] p = "statsBackup" -> IF d["live"] # Missing THEN d["live"] ELSE none
    [] OTHER ->
         IF d["live"] # Missing THEN d["live"]
         ELSE IF d["bak"] # Missing THEN d["bak"] ELSE none

-----------------------------------------------------------------------------
(* Saving *)

Begins(next) ==
  /\ pc = "idle" /\ started < MaxSaves
  /\ started' = started + 1
  /\ faulted' = FALSE
  /\ had' = Exists("live")
  /\ pc' = next

\* A save of data that was read, or built, before.  resetLocal() alone replaces
\* the all-time statistics without their backup and without having read them.
StartSave ==
  /\ Begins(CASE proto = "libraryIndex" -> "recover" [] proto = "section" -> "open"
              [] OTHER -> "stale")
  /\ \E r \in BOOLEAN : rotates' = r /\ (r \/ proto = "globalStats")
  /\ loaded \/ proto \in {"statsBackup", "libraryIndex"} \/ ~rotates'
  /\ UNCHANGED <<proto, faulty, disk, loaded, acked, blank, shown>>

\* recoverInterruptedInstall(), which a rebuild of the index begins with.  After
\* an invalid live index is removed the backup takes its name.
LibraryRecover ==
  /\ pc = "recover"
  /\ \/ ~Exists("bak") /\ Skips("open")
     \/ Exists("bak") /\ ~Exists("live") /\ Rename("bak", "live", "open", "failed")
     \/ Exists("bak") /\ Complete(disk["live"]) /\ Remove("bak", "open", "failed")
     \/ /\ Exists("bak") /\ disk["live"] = Partial
        /\ IF Complete(disk["bak"]) THEN Remove("live", "recover", "failed")
                                    ELSE Remove("bak", "open", "failed")
     \/ faulty /\ Exists("bak") /\ Exists("live") /\ Fails("failed")   \* ioFailed()
  /\ UNCHANGED <<proto, faulty, rotates, had, loaded>> /\ UNCHANGED history

RemoveStale ==
  /\ pc = "stale"
  /\ RemoveIfThere("tmp", "open", "failed")
  /\ UNCHANGED <<proto, faulty, rotates, had, loaded>> /\ UNCHANGED history

\* The new file is created, or truncated, ...
OpenTmp ==
  /\ pc = "open"
  /\ \/ pc' = "writing" /\ Writes("tmp", Partial) /\ UNCHANGED faulted
     \/ faulty /\ Fails("failed")
  /\ UNCHANGED <<proto, faulty, rotates, had, loaded>> /\ UNCHANGED history

\* ... written, synced, closed and, where the code does so, measured.  A store
\* leaves what it could not write; the index does when it cannot be closed.  The
\* build of a chapter also fails by itself, on its text or for want of memory: a
\* build in one go, a suspended one and one that cannot be committed discard what
\* they wrote; one made page by page, which fails on a page too, is abandoned.
BrokenWriteTmp ==   \* a short write goes unnoticed
  /\ pc = "writing"
  /\ \/ pc' = "drop" /\ Writes("tmp", started) /\ UNCHANGED faulted
     \/ faulty /\ Fails("drop")
  /\ UNCHANGED <<proto, faulty, rotates, had, loaded>> /\ UNCHANGED history

WriteTmp ==
  /\ pc = "writing"
  /\ \/ pc' = "drop" /\ Writes("tmp", started) /\ UNCHANGED faulted
     \/ faulty /\ proto # "store" /\ Fails("discard")
     \/ faulty /\ proto \in {"store", "libraryIndex"} /\ Fails("failed")
     \/ proto = "section" /\ \E after \in {"discard", "abandon"} : Skips(after)
  /\ UNCHANGED <<proto, faulty, rotates, had, loaded>> /\ UNCHANGED history

\* abandonBuild(): what was written goes and so does the live file, since the next
\* build would stop at the same place.  The card's answers are not looked at.
\* From then on no file is what an abandoned build leaves.
AbandonBuild ==
  /\ \/ pc = "abandon" /\ RemoveIfThere("tmp", "abandonLive", "abandonLive") /\ UNCHANGED blank
     \/ /\ pc = "abandonLive" /\ RemoveIfThere("live", "failed", "failed")
        /\ blank' = IF disk'["live"] # disk["live"] THEN started ELSE blank
  /\ UNCHANGED <<proto, faulty, rotates, had, loaded, started, acked, shown>>

BrokenDropsBackup == TRUE        \* also when it is the only copy

\* Does a save remove the backup before the live file steps aside?
DropsBackup ==
  CASE proto \in {"store", "bookStats"} -> Exists("live")
    [] proto = "globalStats" -> rotates
    [] proto = "libraryIndex" -> TRUE
    [] OTHER -> FALSE

\* recoverSectionCacheBackup(): a backup beside a live file is stale, one alone
\* takes the live name.  The answers of the card are only logged.
SectionRecover(next) ==
  IF Exists("bak") /\ ~Exists("live") THEN Rename("bak", "live", next, next)
  ELSE RemoveIfThere("bak", next, next)

DropBackup ==
  /\ pc = "drop"
  /\ IF proto = "section" THEN SectionRecover("rotate")
     ELSE IF DropsBackup THEN RemoveIfThere("bak", "rotate", "discard")
     ELSE Skips("rotate")
  /\ UNCHANGED <<proto, faulty, rotates, had, loaded>> /\ UNCHANGED history

\* The live file becomes the backup, or goes.
Rotate ==
  /\ pc = "rotate"
  /\ had' = Exists("live")
  /\ IF ~Exists("live") THEN Skips("publish")
     ELSE IF proto = "statsBackup" \/ ~rotates THEN Remove("live", "publish", "discard")
     ELSE Rename("live", "bak", "publish", "discard")
  /\ UNCHANGED <<proto, faulty, rotates, loaded>> /\ UNCHANGED history

\* The answer of the rename is not looked at.
BrokenPublish ==
  /\ pc = "publish"
  /\ Rename("tmp", "live", "cleanup", "cleanup")
  /\ UNCHANGED <<proto, faulty, rotates, had, loaded>> /\ UNCHANGED history

Publish ==
  /\ pc = "publish"
  /\ Rename("tmp", "live", "cleanup", "restore")
  /\ UNCHANGED <<proto, faulty, rotates, had, loaded>> /\ UNCHANGED history

\* The new file did not get its name: the old one takes it back.
GivesBack ==
  CASE proto = "statsBackup" -> FALSE
    [] proto = "globalStats" -> rotates /\ Exists("bak") /\ ~Exists("live")
    [] OTHER -> had
Restore ==
  /\ pc = "restore"
  /\ IF GivesBack THEN Rename("bak", "live", "restored", "restored") ELSE Skips("restored")
  /\ UNCHANGED <<proto, faulty, rotates, had, loaded>> /\ UNCHANGED history

\* bookStats keeps the new file unless the old one is back: it is read next.
KeepsTmp == proto = "bookStats" /\ ~(had /\ Exists("live"))
AfterRestore ==
  /\ pc = "restored"
  /\ Skips(IF KeepsTmp THEN "failed" ELSE "discard")
  /\ UNCHANGED <<proto, faulty, rotates, had, loaded>> /\ UNCHANGED history

Discard ==
  /\ pc = "discard"
  /\ RemoveIfThere("tmp", "failed", "failed")
  /\ UNCHANGED <<proto, faulty, rotates, had, loaded>> /\ UNCHANGED history

\* The all-time statistics keep their backup.
Cleanup ==
  /\ pc = "cleanup"
  /\ IF had /\ proto \notin {"globalStats", "statsBackup"}
     THEN RemoveIfThere("bak", "done", "done") ELSE Skips("done")
  /\ UNCHANGED <<proto, faulty, rotates, had, loaded>> /\ UNCHANGED history

\* The operation returns true or false to its caller.
Return ==
  /\ pc \in {"done", "failed"}
  /\ pc' = "idle"
  /\ acked' = IF pc = "done" THEN started ELSE acked
  /\ faulted' = FALSE
  /\ UNCHANGED <<proto, faulty, disk, rotates, had, loaded, started, blank, shown>>

-----------------------------------------------------------------------------
(* Erasing a book's statistics, clearing the cache of a chapter *)

StartErase ==
  /\ proto = "bookStats"
  /\ Begins("eraseOlder")
  /\ blank' = started'
  /\ UNCHANGED <<proto, faulty, disk, rotates, loaded, acked, shown>>

\* clearCache(), of a chapter whose cache does not fit what is to be shown.
StartClear ==
  /\ proto = "section" /\ loaded
  /\ Begins("eraseTmp")
  /\ blank' = started'
  /\ UNCHANGED <<proto, faulty, disk, rotates, loaded, acked, shown>>

\* The live file first.
BrokenEraseOrder ==
  [eraseOlder |-> "live", eraseTmp |-> "tmp", eraseBak |-> "bak", eraseLive |-> "older"]

\* From the oldest fallback to the newest.  A failure is remembered, except for
\* a chapter: there only the answer for the live file counts.
EraseOrder == [eraseOlder |-> "older", eraseTmp |-> "tmp", eraseBak |-> "bak", eraseLive |-> "live"]
EraseNext(here) ==
  CASE here = "eraseOlder" -> "eraseTmp" [] here = "eraseTmp" -> "eraseBak"
    [] here = "eraseBak" -> "eraseLive" [] OTHER -> "done"

EraseStep ==
  /\ pc \in DOMAIN EraseOrder
  /\ IF pc = "eraseLive" /\ proto = "bookStats" /\ faulted THEN Skips("failed")
     ELSE RemoveIfThere(EraseOrder[pc], EraseNext(pc),
                        IF pc = "eraseLive" THEN "failed" ELSE EraseNext(pc))
  /\ UNCHANGED <<proto, faulty, rotates, had, loaded>> /\ UNCHANGED history

-----------------------------------------------------------------------------
(* Reading *)

\* Before it reads, a program may put a file back under the live name.
RecoveryFile ==
  IF proto = "bookStats" /\ TmpIsSafe(disk) THEN "tmp"
  ELSE IF proto \in {"store", "bookStats"} THEN "bak" ELSE "none"

\* When the card refuses to, the file is read where it is.
Recovers ==
  IF proto = "section" THEN SectionRecover("idle")
  ELSE IF RecoveryFile # "none" /\ ~Exists("live") /\ Exists(RecoveryFile)
       THEN Rename(RecoveryFile, "live", "idle", "idle")
  ELSE Skips("idle")

\* A section cache or an index that is not under its live name is not shown: it
\* is built again.
Load ==
  /\ pc = "idle"
  /\ Recovers
  /\ loaded' = TRUE
  /\ shown' = IF proto \in {"section", "libraryIndex"} /\ ~Complete(disk'["live"])
              THEN shown ELSE Value(proto, disk, blank)
  /\ UNCHANGED <<proto, faulty, rotates, had, started, acked, blank>>

-----------------------------------------------------------------------------
(* The device *)

\* The live name may hold an index that does not validate, and any name of it an
\* old one; every other file is whole when the firmware first meets it.
Init ==
  /\ proto \in Protocols
  /\ faulty \in BOOLEAN
  /\ disk \in [Files -> {Missing, Partial, 0}]
  /\ disk["tmp"] \in {Missing, Partial}
  /\ \A f \in {"live", "bak"} : disk[f] = Partial => proto = "libraryIndex"
  /\ disk["older"] = 0 => proto = "bookStats"
  /\ disk["older"] # Partial
  /\ pc = "off"
  /\ rotates = TRUE /\ had = FALSE /\ faulted = FALSE /\ loaded = FALSE
  /\ started = 0 /\ acked = 0 /\ blank = 0 /\ shown = 0

PowerOn ==
  /\ pc = "off" /\ pc' = "idle"
  /\ UNCHANGED <<proto, faulty, disk, rotates, had, faulted, loaded>> /\ UNCHANGED history

\* At any point; the card keeps what it has.
PowerLoss ==
  /\ pc # "off" /\ pc' = "off"
  /\ loaded' = FALSE /\ faulted' = FALSE
  /\ UNCHANGED <<proto, faulty, disk, rotates, had>> /\ UNCHANGED history

Operations ==
  \/ StartSave \/ LibraryRecover \/ RemoveStale \/ OpenTmp \/ WriteTmp
  \/ AbandonBuild \/ DropBackup \/ Rotate \/ Publish \/ Restore \/ AfterRestore \/ Discard
  \/ Cleanup \/ Return \/ StartErase \/ StartClear \/ EraseStep \/ Load

Next == Operations \/ PowerOn \/ PowerLoss

Spec == Init /\ [][Next]_vars

-----------------------------------------------------------------------------
(* What should hold *)

Controls ==
  {"off", "idle", "recover", "stale", "open", "writing", "drop", "rotate", "publish",
   "restore", "restored", "discard", "abandon", "abandonLive", "cleanup", "done", "failed",
   "eraseOlder", "eraseTmp", "eraseBak", "eraseLive"}

\* Every variable keeps its type, and what is read is a whole version: an
\* unfinished file is never taken for a saved one.
TypeOK ==
  /\ proto \in Protocols
  /\ disk \in [Files -> Contents]
  /\ pc \in Controls
  /\ {faulty, rotates, had, faulted, loaded} \subseteq BOOLEAN
  /\ {started, acked, blank, shown} \subseteq Saves

\* Whatever call the power goes at, and whichever calls fail, the next read gives
\* a whole version, never a file that was being written.
NeverTorn == Value(proto, disk, blank) \in Saves

\* The places whose order of calls keeps the last saved version at every point,
\* on a card that may refuse any call or, for a book's statistics and the cache
\* of a chapter, on one that refuses none.  A build that is abandoned, or a cache
\* that is cleared, takes the place of what was saved before.
Kept == {"store", "libraryIndex"} \cup (IF faulty THEN {} ELSE {"bookStats", "section"})

\* GlobalReadingStats keeps it as long as the live file is there when it saves.
\* On a card that refuses calls, an erasure of a book's statistics may, when a
\* fallback cannot be removed and the live file is missing, bring that fallback
\* back; it then reports failure.  So may an abandoned build and a cleared cache
\* with a backup that could not be removed, and these do not say so: a chapter is
\* kept when it was saved since.
Keeps ==
  \/ proto \in Kept
  \/ proto = "bookStats" /\ blank <= acked
  \/ proto = "section" /\ blank < acked
  \/ proto = "globalStats" /\ rotates /\ had

\* A version whose save reported success is not lost, unless it is dropped on
\* purpose, and nothing older comes back in its place, whatever fails and wherever
\* the power goes afterwards; nor do erased statistics come back.
NoSaveIsLost == Keeps => Value(proto, disk, blank) >= acked

\* What the program has read it does not read an older version of later, in this
\* session or another.
ReadsDoNotGoBack == [][(proto \in Kept) => (shown' >= shown)]_vars

\* A saved file behaves as one durable value: a read returns the last saved
\* version or one whose save began after it.
Cell == INSTANCE DurableCell WITH saved <- IF proto \in Kept THEN acked ELSE 0
ImplementsDurableCell == Cell!Spec
=============================================================================
