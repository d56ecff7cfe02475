---------------------------- MODULE StorageProofs ----------------------------
(***************************************************************************)
(* Theorems about replacing a file, for any number of saves and erasures:  *)
(* what is read is a whole version, a saved one is not lost, reads do not  *)
(* go back, and the places that keep this implement DurableCell.  With     *)
(* firmware, the place in a book and a file received, which the run of     *)
(* MCStorage has side by side, the types of all four.                      *)
(***************************************************************************)
EXTENDS MCStorage, FirmwareProofs, TurnsProofs, NearbyProofs

USE DEF Files

-----------------------------------------------------------------------------
(* The invariant *)

\* Only an index may be broken under a name that is read; a version is never
\* newer than the newest save.
WholeFiles ==
  /\ \A f \in {"live", "bak"} : disk[f] = Partial => proto = "libraryIndex"
  /\ disk["older"] # Partial
  /\ \A f \in Files : disk[f] \in Contents /\ (disk[f] \in Nat => disk[f] <= started)
  /\ acked <= started /\ blank <= started /\ shown <= started

\* From the end of its writing to its new name, the new file is whole.
NewFileIsWhole == pc \in {"drop", "rotate", "publish"} => disk["tmp"] = started

\* Only the all-time statistics are replaced without a backup; a call fails, and a
\* backup is put back, only on a card whose calls may fail; only statistics of a
\* book and chapters are erased, only a chapter is abandoned, and it is not written
\* before it was opened; only an index begins with its recovery.
Modes ==
  /\ proto = "globalStats" \/ rotates
  /\ faulted \/ pc \in {"restore", "restored"} => faulty
  /\ proto \notin {"bookStats", "section"} => blank = 0 /\ pc \notin DOMAIN EraseOrder
  /\ pc = "eraseOlder" => proto = "bookStats"
  /\ pc \in {"abandon", "abandonLive"} => proto = "section"
  /\ proto = "section" => loaded \/ pc \in {"off", "idle"}
  /\ pc = "recover" => proto = "libraryIndex"
  /\ pc = "stale" => proto # "libraryIndex"

\* What has to be in place where for the steps to come.
InPlace ==
  /\ pc = "cleanup" => disk["live"] = started
  /\ pc = "publish" => disk["live"] = Missing
  /\ pc = "done" =>
       \/ disk["live"] = started
       \/ blank = started /\ proto = "bookStats" /\ \A f \in Files : disk[f] = Missing
       \/ blank = started /\ proto = "section" /\ (faulty \/ disk["bak"] = Missing)
          /\ disk["live"] = Missing
  /\ proto = "libraryIndex" /\ pc \in {"open", "writing", "drop", "rotate"} => disk["bak"] = Missing

\* An erasure that has met no failure has removed what comes before its place.
Erasing ==
  /\ pc \in DOMAIN EraseOrder => blank = started /\ acked < started
  /\ ~faulted => /\ proto = "bookStats" /\ pc \in {"eraseTmp", "eraseBak", "eraseLive"}
                      => disk["older"] = Missing
                 /\ pc \in {"eraseBak", "eraseLive"} => disk["tmp"] = Missing
                 /\ pc = "eraseLive" => disk["bak"] = Missing

\* What would be read, with and without the temporary file, is not below n.
NotBelow(n) ==
  /\ Value(proto, disk, blank) >= n
  /\ proto = "bookStats" => Value(proto, [disk EXCEPT !["tmp"] = Missing], blank) >= n

\* The all-time statistics have a backup when they have stepped aside; a save
\* that found none to step aside has none.
BackedUp ==
  proto = "globalStats" =>
    /\ disk["live"] # Missing => disk["live"] >= acked
    /\ rotates /\ had /\ disk["live"] = Missing => disk["bak"] # Missing /\ disk["bak"] >= acked
    /\ pc \in {"stale", "open", "writing", "drop", "rotate"} => (had <=> disk["live"] # Missing)
    /\ rotates /\ pc = "rotate" => disk["bak"] = Missing
    /\ rotates /\ pc \in {"publish", "restore"} /\ ~had => disk["bak"] = Missing

\* On a card that refuses nothing, an opened chapter has a backup only while its
\* live file steps aside: without a live file there is nothing older to be read.
NoStaleBackup ==
  proto = "section" /\ ~faulty /\ loaded /\ ~(pc \in {"publish", "cleanup"} /\ had)
    => disk["bak"] = Missing

\* The places that promise to keep what was saved on any, or on some, card.
Keepers == {"store", "libraryIndex", "section", "bookStats"}

\* No saved version and, where reads are to keep their order, none that was read
\* is above what would be read next.
LossFree ==
  /\ \/ proto \in Kept \/ (proto = "bookStats" /\ blank <= acked)
     \/ proto = "section" /\ blank < acked
     => NotBelow(acked)
  /\ proto \in Kept => NotBelow(shown)

Parts ==
  TypeOK /\ WholeFiles /\ NewFileIsWhole /\ Modes /\ InPlace /\ Erasing /\ BackedUp /\ NoStaleBackup

StorageInv == Parts /\ LossFree

-----------------------------------------------------------------------------
(* The card *)

\* What a step can do to the four names of a file: nothing, with or without a
\* failure; one goes; one takes the name of another.
Stays(fs) == disk' \in [Files -> Contents] /\ \A f \in Files \ fs : disk'[f] = disk[f]
Passed(next) == pc' = next /\ disk' = disk /\ faulted' = faulted
Failing(next) == pc' = next /\ disk' = disk /\ faulty /\ faulted' = TRUE
Removed(f, next) == pc' = next /\ Stays({f}) /\ disk'[f] = Missing /\ faulted' = faulted
Written(f, c, next) == pc' = next /\ Stays({f}) /\ disk'[f] = c /\ faulted' = faulted
Moved(from, to, next) ==
  /\ pc' = next /\ Stays({from, to}) /\ faulted' = faulted
  /\ Exists(from) /\ ~Exists(to)
  /\ disk'[to] = disk[from] /\ disk'[from] = Missing

LEMMA WriteDoes ==
  ASSUME TypeOK, NEW f \in Files, NEW c \in Contents, Writes(f, c)
  PROVE  Stays({f}) /\ disk'[f] = c
BY DEF TypeOK, Writes, Stays

LEMMA RemoveDoes ==
  ASSUME TypeOK, NEW f \in Files, NEW ok, NEW failed, Remove(f, ok, failed)
  PROVE  Removed(f, ok) \/ Failing(failed)
BY WriteDoes DEF Contents, Remove, Removed, Failing, Fails

LEMMA RemoveIfThereDoes ==
  ASSUME TypeOK, NEW f \in Files, NEW ok, NEW failed, RemoveIfThere(f, ok, failed)
  PROVE  Removed(f, ok) \/ (Exists(f) /\ Failing(failed))
<1>1. CASE Exists(f)
  <2>1. Remove(f, ok, failed)
    BY <1>1 DEF RemoveIfThere
  <2>2. Removed(f, ok) \/ Failing(failed)
    BY <2>1, RemoveDoes
  <2>. QED
    BY <1>1, <2>2
<1>2. CASE ~Exists(f)
  BY <1>2 DEF RemoveIfThere, Skips, Exists, Removed, Stays, TypeOK
<1>. QED
  BY <1>1, <1>2

LEMMA RenameDoes ==
  ASSUME TypeOK, NEW from \in Files, NEW to \in Files, from # to, NEW ok, NEW failed,
         Rename(from, to, ok, failed)
  PROVE  \/ Moved(from, to, ok)
         \/ (~Exists(from) \/ Exists(to)) /\ Passed(failed)
         \/ Failing(failed)
BY DEF TypeOK, Contents, Rename, Fails, Skips, Moved, Passed, Failing, Stays, Exists

-----------------------------------------------------------------------------
(* Every step keeps the invariant *)

\* What the calls that replace or recover a file leave alone.
Frame == UNCHANGED <<proto, faulty, rotates, loaded>> /\ UNCHANGED history

LEMMA RemoveStaleStep == ASSUME StorageInv, RemoveStale PROVE StorageInv'
<1>1. /\ pc = "stale" /\ had' = had /\ Frame
      /\ Removed("tmp", "open") \/ Failing("failed")
  BY RemoveIfThereDoes DEF RemoveStale, StorageInv, Parts, Frame
<1>. USE <1>1, ContentsAssumption DEF StorageInv, Parts, Frame, history, Removed, Failing, Stays
<1>2. TypeOK'
  BY DEF TypeOK, Controls
<1>3. WholeFiles'
  BY DEF WholeFiles
<1>4. NewFileIsWhole' /\ Modes'
  BY DEF NewFileIsWhole, Modes, EraseOrder
<1>5. InPlace' /\ Erasing'
  BY DEF InPlace, Modes, Erasing, EraseOrder
<1>6. BackedUp' /\ NoStaleBackup'
  BY DEF BackedUp, NoStaleBackup, Modes
<1>7. LossFree'
  BY DEF LossFree, Kept, NotBelow, Value, TmpIsSafe, TypeOK
<1>. QED
  BY <1>2, <1>3, <1>4, <1>5, <1>6, <1>7

LEMMA OpenTmpStep == ASSUME StorageInv, OpenTmp PROVE StorageInv'
<1>1. /\ pc = "open" /\ had' = had /\ Frame
      /\ Written("tmp", Partial, "writing") \/ Failing("failed")
  BY WriteDoes DEF OpenTmp, StorageInv, Parts, Frame, Contents, Fails, Failing, Written
<1>. USE <1>1, ContentsAssumption DEF StorageInv, Parts, Frame, history, Failing, Written, Stays
<1>2. TypeOK'
  BY DEF TypeOK, Controls
<1>3. WholeFiles'
  BY DEF WholeFiles
<1>4. NewFileIsWhole' /\ Modes'
  BY DEF NewFileIsWhole, Modes, EraseOrder
<1>5. InPlace' /\ Erasing'
  BY DEF InPlace, Erasing, EraseOrder
<1>6. BackedUp' /\ NoStaleBackup'
  BY DEF BackedUp, NoStaleBackup, Modes
<1>7. LossFree'
  BY DEF LossFree, Kept, NotBelow, Value, TmpIsSafe, Complete, TypeOK
<1>. QED
  BY <1>2, <1>3, <1>4, <1>5, <1>6, <1>7

LEMMA WriteTmpStep == ASSUME StorageInv, WriteTmp PROVE StorageInv'
<1>1. /\ pc = "writing" /\ had' = had /\ Frame
      /\ \/ Written("tmp", started, "drop") \/ Failing("discard") \/ Failing("failed")
         \/ proto = "section" /\ (Passed("discard") \/ Passed("abandon"))
  BY WriteDoes DEF WriteTmp, StorageInv, Parts, Frame, Contents, TypeOK, Fails, Failing, Written,
     Skips, Passed
<1>. USE <1>1 DEF StorageInv, Parts, Frame, history, Failing, Passed, Written, Stays
<1>2. TypeOK'
  BY DEF TypeOK, Controls
<1>3. WholeFiles'
  BY DEF WholeFiles
<1>4. NewFileIsWhole' /\ Modes'
  BY DEF NewFileIsWhole, Modes, EraseOrder
<1>5. InPlace' /\ Erasing'
  BY DEF InPlace, Erasing, EraseOrder
<1>6. BackedUp' /\ NoStaleBackup'
  BY DEF BackedUp, NoStaleBackup, Modes
<1>7. LossFree'
  BY DEF LossFree, Kept, NotBelow, Value, TmpIsSafe, Complete, TypeOK, Saves, WholeFiles
<1>. QED
  BY <1>2, <1>3, <1>4, <1>5, <1>6, <1>7

LEMMA AbandonBuildStep == ASSUME StorageInv, AbandonBuild PROVE StorageInv'
<1>1. /\ proto = "section" /\ had' = had
      /\ UNCHANGED <<proto, faulty, rotates, loaded, started, acked, shown>>
      /\ \/ /\ pc = "abandon" /\ blank' = blank
            /\ Removed("tmp", "abandonLive") \/ Failing("abandonLive")
         \/ /\ pc = "abandonLive" /\ Removed("live", "failed")
            /\ blank' = started \/ (disk' = disk /\ blank' = blank)
         \/ pc = "abandonLive" /\ Failing("failed") /\ blank' = blank
  <2>. USE DEF StorageInv, Parts
  <2>1. CASE pc = "abandon"
    BY <2>1, RemoveIfThereDoes DEF AbandonBuild, Modes
  <2>2. CASE pc = "abandonLive"
    <3>1. RemoveIfThere("live", "failed", "failed")
      BY <2>2 DEF AbandonBuild
    <3>2. Removed("live", "failed") \/ Failing("failed")
      BY <3>1, RemoveIfThereDoes
    <3>3. CASE ~Exists("live")
      <4>1. disk' = disk
        BY <3>1, <3>3 DEF RemoveIfThere, Skips
      <4>. QED
        BY <2>2, <3>2, <4>1 DEF AbandonBuild, Modes
    <3>4. CASE Exists("live")
      BY <2>2, <3>2, <3>4 DEF AbandonBuild, Modes, Removed, Failing, Exists
    <3>. QED
      BY <3>3, <3>4
  <2>. QED
    BY <2>1, <2>2 DEF AbandonBuild
<1>. USE <1>1, ContentsAssumption, SavesAssumption
     DEF StorageInv, Parts, Removed, Failing, Stays
<1>2. TypeOK'
  BY DEF TypeOK, Controls
<1>3. WholeFiles'
  BY DEF WholeFiles, TypeOK, Saves
<1>4. NewFileIsWhole' /\ Modes'
  BY DEF NewFileIsWhole, Modes, EraseOrder
<1>5. InPlace' /\ Erasing'
  BY DEF InPlace, Erasing, EraseOrder
<1>6. BackedUp' /\ NoStaleBackup'
  BY DEF BackedUp, NoStaleBackup
<1>7. LossFree'
  <2>1. CASE blank' = blank /\ (pc = "abandon" \/ disk' = disk)
    <3>1. Value(proto, disk, blank)' = Value(proto, disk, blank)
      BY <2>1 DEF Value
    <3>. QED
      BY <2>1, <3>1 DEF LossFree, Kept, NotBelow
  <2>2. CASE blank' = started /\ disk'["live"] = Missing /\ disk'["bak"] = disk["bak"]
    <3>1. ~(blank' < acked') /\ acked \in Nat /\ shown \in Nat /\ acked <= started /\ shown <= started
      BY <2>2 DEF WholeFiles, TypeOK, Saves
    <3>2. proto \in Kept => Value(proto, disk, blank)' = started
      BY <2>2 DEF Kept, NoStaleBackup, Modes, Value
    <3>. QED
      BY <3>1, <3>2 DEF LossFree, Kept, NotBelow
  <2>. QED
    BY <2>1, <2>2
<1>. QED
  BY <1>2, <1>3, <1>4, <1>5, <1>6, <1>7

LEMMA DropBackupStep == ASSUME StorageInv, DropBackup PROVE StorageInv'
<1>1. /\ pc = "drop" /\ had' = had /\ Frame
      /\ \/ Passed("rotate") /\ ~(rotates /\ proto = "globalStats")
         \/ Failing("rotate") /\ proto = "section"
         \/ Moved("bak", "live", "rotate") /\ proto = "section"
         \/ Removed("bak", "rotate") /\ (Exists("live") \/ ~Exists("bak") \/ proto = "globalStats")
         \/ Failing("discard")
  <2>. USE DEF StorageInv, Parts, Frame
  <2>1. CASE proto = "section"
    <3>1. CASE Exists("bak") /\ ~Exists("live")
      BY <2>1, <3>1, RenameDoes DEF DropBackup, SectionRecover
    <3>2. CASE ~(Exists("bak") /\ ~Exists("live"))
      BY <2>1, <3>2, RemoveIfThereDoes DEF DropBackup, SectionRecover
    <3>. QED
      BY <3>1, <3>2
  <2>2. CASE proto # "section" /\ DropsBackup
    <3>1. Exists("live") \/ ~Exists("bak") \/ proto = "globalStats"
      BY <2>2 DEF DropsBackup, DropBackup, InPlace, Exists
    <3>. QED
      BY <2>2, <3>1, RemoveIfThereDoes DEF DropBackup
  <2>3. CASE proto # "section" /\ ~DropsBackup
    BY <2>3 DEF DropBackup, DropsBackup, Skips, Passed
  <2>. QED
    BY <2>1, <2>2, <2>3
<1>. USE <1>1, ContentsAssumption
     DEF StorageInv, Parts, Frame, history, Passed, Removed, Failing, Moved, Stays
<1>2. TypeOK'
  BY DEF TypeOK, Controls
<1>3. WholeFiles'
  BY DEF WholeFiles
<1>4. NewFileIsWhole' /\ Modes'
  BY DEF NewFileIsWhole, Modes, EraseOrder
<1>5. InPlace' /\ Erasing'
  BY DEF InPlace, Erasing, EraseOrder
<1>6. BackedUp' /\ NoStaleBackup'
  BY DEF BackedUp, NoStaleBackup, Modes
<1>7. ASSUME NEW n \in Saves, proto \in Keepers, NotBelow(n) PROVE NotBelow(n)'
  <2>. USE <1>7 DEF Keepers, NotBelow, Value, TmpIsSafe, Exists, TypeOK, InPlace
  <2>1. CASE disk' = disk
    BY <2>1
  <2>2. CASE Moved("bak", "live", "rotate") /\ proto = "section"
    BY <2>2
  <2>3. CASE Removed("bak", "rotate") /\ (Exists("live") \/ ~Exists("bak"))
    <3>1. CASE proto = "store"
      BY <2>3, <3>1
    <3>2. CASE proto = "libraryIndex"
      BY <2>3, <3>2
    <3>3. CASE proto = "section"
      BY <2>3, <3>3
    <3>4. CASE proto = "bookStats"
      BY <2>3, <3>4
    <3>. QED
      BY <3>1, <3>2, <3>3, <3>4
  <2>. QED
    BY <2>1, <2>2, <2>3
<1>8. LossFree'
  BY <1>7 DEF LossFree, Kept, Keepers, TypeOK
<1>. QED
  BY <1>2, <1>3, <1>4, <1>5, <1>6, <1>8

LEMMA RotateStep == ASSUME StorageInv, Rotate PROVE StorageInv'
<1>1. /\ pc = "rotate" /\ had' = Exists("live") /\ had' \in BOOLEAN /\ Frame
      /\ \/ Passed("publish") /\ ~Exists("live")
         \/ Removed("live", "publish") /\ (proto = "statsBackup" \/ ~rotates)
         \/ Moved("live", "bak", "publish")
         \/ Passed("discard") \/ Failing("discard")
  BY RemoveDoes, RenameDoes DEF Rotate, StorageInv, Parts, Frame, Skips, Passed, Exists
<1>. USE <1>1, ContentsAssumption
     DEF StorageInv, Parts, Frame, history, Passed, Removed, Failing, Moved, Stays
<1>2. TypeOK'
  BY DEF TypeOK, Controls
<1>3. WholeFiles'
  BY DEF WholeFiles
<1>4. NewFileIsWhole' /\ Modes'
  BY DEF NewFileIsWhole, Modes, EraseOrder
<1>5. InPlace' /\ Erasing'
  BY DEF InPlace, Erasing, EraseOrder, Exists
<1>6. BackedUp' /\ NoStaleBackup'
  <2>1. BackedUp'
    BY DEF BackedUp, Exists
  <2>2. NoStaleBackup'
    BY DEF NoStaleBackup, Modes
  <2>. QED
    BY <2>1, <2>2
<1>7. ASSUME NEW n \in Saves, proto \in Keepers, NotBelow(n) PROVE NotBelow(n)'
  <2>. USE <1>7
       DEF Keepers, NotBelow, Value, TmpIsSafe, Complete, Exists, Contents, Saves,
         NewFileIsWhole, WholeFiles
  <2>1. CASE disk' = disk
    BY <2>1
  <2>2. CASE Moved("live", "bak", "publish")
    <3>1. CASE proto = "store"
      BY <2>2, <3>1
    <3>2. CASE proto = "libraryIndex"
      BY <2>2, <3>2
    <3>3. CASE proto = "section"
      BY <2>2, <3>3
    <3>4. CASE proto = "bookStats"
      BY <2>2, <3>4
    <3>. QED
      BY <3>1, <3>2, <3>3, <3>4
  <2>. QED
    BY <2>1, <2>2 DEF Modes
<1>8. LossFree'
  BY <1>7 DEF LossFree, Kept, Keepers, TypeOK
<1>. QED
  BY <1>2, <1>3, <1>4, <1>5, <1>6, <1>8

LEMMA PublishStep == ASSUME StorageInv, Publish PROVE StorageInv'
<1>1. /\ pc = "publish" /\ had' = had /\ Frame
      /\ Moved("tmp", "live", "cleanup") \/ Failing("restore")
  <2>1. pc = "publish" /\ Exists("tmp") /\ ~Exists("live")
    BY ContentsAssumption
       DEF Publish, StorageInv, Parts, NewFileIsWhole, InPlace, TypeOK, Saves, Exists
  <2>. QED
    BY <2>1, RenameDoes DEF Publish, StorageInv, Parts, Frame
<1>. USE <1>1, ContentsAssumption
     DEF StorageInv, Parts, Frame, history, Failing, Moved, Stays
<1>2. TypeOK'
  BY DEF TypeOK, Controls
<1>3. WholeFiles'
  BY DEF WholeFiles, Saves, NewFileIsWhole, TypeOK
<1>4. NewFileIsWhole' /\ Modes'
  BY DEF NewFileIsWhole, Modes, EraseOrder
<1>5. InPlace' /\ Erasing'
  BY DEF InPlace, Erasing, EraseOrder, NewFileIsWhole
<1>6. BackedUp' /\ NoStaleBackup'
  BY DEF BackedUp, NoStaleBackup, Modes, NewFileIsWhole, Exists, WholeFiles
<1>7. LossFree'
  BY DEF LossFree, Kept, NotBelow, Value, TmpIsSafe, Complete, TypeOK, Saves, NewFileIsWhole,
     WholeFiles
<1>. QED
  BY <1>2, <1>3, <1>4, <1>5, <1>6, <1>7

LEMMA RestoreStep == ASSUME StorageInv, Restore PROVE StorageInv'
<1>1. /\ pc = "restore" /\ had' = had /\ Frame
      /\ Moved("bak", "live", "restored") \/ Passed("restored") \/ Failing("restored")
      /\ proto = "globalStats" /\ ~rotates => disk' = disk
  BY RenameDoes DEF Restore, StorageInv, Parts, Frame, Skips, Passed, GivesBack
<1>. USE <1>1, ContentsAssumption
     DEF StorageInv, Parts, Frame, history, Passed, Failing, Moved, Stays
<1>2. TypeOK'
  BY DEF TypeOK, Controls
<1>3. WholeFiles'
  BY DEF WholeFiles
<1>4. NewFileIsWhole' /\ Modes'
  BY DEF NewFileIsWhole, Modes, EraseOrder
<1>5. InPlace' /\ Erasing'
  BY DEF InPlace, Erasing, EraseOrder
<1>6. BackedUp' /\ NoStaleBackup'
  BY DEF BackedUp, NoStaleBackup, Modes, Exists
<1>7. ASSUME NEW n \in Saves, proto \in Keepers, NotBelow(n) PROVE NotBelow(n)'
  <2>. USE <1>7
       DEF NotBelow, Value, TmpIsSafe, Complete, Exists, TypeOK, Contents, Saves, Modes,
         WholeFiles
  <2>1. CASE disk' = disk
    BY <2>1
  <2>2. CASE Moved("bak", "live", "restored")
    <3>1. CASE proto = "store"
      BY <2>2, <3>1
    <3>2. CASE proto = "libraryIndex"
      BY <2>2, <3>2
    <3>3. CASE proto = "section"
      BY <2>2, <3>3
    <3>4. CASE proto = "bookStats"
      BY <2>2, <3>4
    <3>. QED
      BY <3>1, <3>2, <3>3, <3>4
  <2>. QED
    BY <2>1, <2>2
<1>8. LossFree'
  BY <1>7 DEF LossFree, Kept, Keepers, TypeOK
<1>. QED
  BY <1>2, <1>3, <1>4, <1>5, <1>6, <1>8

LEMMA AfterRestoreStep == ASSUME StorageInv, AfterRestore PROVE StorageInv'
<1>1. /\ pc = "restored" /\ had' = had /\ Frame
      /\ Passed("failed") \/ Passed("discard")
  BY DEF AfterRestore, Frame, Skips, Passed
<1>. USE <1>1 DEF StorageInv, Parts, Frame, history, Passed
<1>2. TypeOK'
  BY DEF TypeOK, Controls
<1>3. WholeFiles'
  BY DEF WholeFiles
<1>4. NewFileIsWhole' /\ Modes'
  BY DEF NewFileIsWhole, Modes, EraseOrder
<1>5. InPlace' /\ Erasing'
  BY DEF InPlace, Erasing, EraseOrder
<1>6. BackedUp' /\ NoStaleBackup'
  BY DEF BackedUp, NoStaleBackup, Modes
<1>7. LossFree'
  BY DEF LossFree, Kept, NotBelow
<1>. QED
  BY <1>2, <1>3, <1>4, <1>5, <1>6, <1>7

LEMMA DiscardStep == ASSUME StorageInv, Discard PROVE StorageInv'
<1>1. /\ pc = "discard" /\ had' = had /\ Frame
      /\ Removed("tmp", "failed") \/ Failing("failed")
  BY RemoveIfThereDoes DEF Discard, StorageInv, Parts, Frame
<1>. USE <1>1, ContentsAssumption DEF StorageInv, Parts, Frame, history, Removed, Failing, Stays
<1>2. TypeOK'
  BY DEF TypeOK, Controls
<1>3. WholeFiles'
  BY DEF WholeFiles
<1>4. NewFileIsWhole' /\ Modes'
  BY DEF NewFileIsWhole, Modes, EraseOrder
<1>5. InPlace' /\ Erasing'
  BY DEF InPlace, Erasing, EraseOrder
<1>6. BackedUp' /\ NoStaleBackup'
  BY DEF BackedUp, NoStaleBackup, Modes
<1>7. LossFree'
  BY DEF LossFree, Kept, NotBelow, Value, TmpIsSafe, TypeOK
<1>. QED
  BY <1>2, <1>3, <1>4, <1>5, <1>6, <1>7

LEMMA CleanupStep == ASSUME StorageInv, Cleanup PROVE StorageInv'
<1>1. /\ pc = "cleanup" /\ had' = had /\ Frame
      /\ \/ Removed("bak", "done") /\ proto # "globalStats"
         \/ Passed("done") /\ (proto = "section" => ~had)
         \/ Failing("done")
  BY RemoveIfThereDoes DEF Cleanup, StorageInv, Parts, Frame, Skips, Passed
<1>. USE <1>1, ContentsAssumption
     DEF StorageInv, Parts, Frame, history, Passed, Removed, Failing, Stays
<1>2. TypeOK'
  BY DEF TypeOK, Controls
<1>3. WholeFiles'
  BY DEF WholeFiles
<1>4. NewFileIsWhole' /\ Modes'
  BY DEF NewFileIsWhole, Modes, EraseOrder
<1>5. InPlace' /\ Erasing'
  BY DEF InPlace, Erasing, EraseOrder
<1>6. BackedUp' /\ NoStaleBackup'
  BY DEF BackedUp, NoStaleBackup, Modes
<1>7. LossFree'
  BY DEF LossFree, NotBelow, Value, Complete, TypeOK, Saves, InPlace, WholeFiles
<1>. QED
  BY <1>2, <1>3, <1>4, <1>5, <1>6, <1>7

LEMMA LibraryRecoverStep == ASSUME StorageInv, LibraryRecover PROVE StorageInv'
<1>1. /\ pc = "recover" /\ proto = "libraryIndex" /\ had' = had /\ Frame
      /\ \/ Passed("open") /\ ~Exists("bak")
         \/ Moved("bak", "live", "open")
         \/ Removed("bak", "open") /\ (Complete(disk["live"]) \/ ~Complete(disk["bak"]))
         \/ Removed("live", "recover") /\ disk["live"] = Partial
         \/ Passed("failed") \/ Failing("failed")
  BY RemoveDoes, RenameDoes, ContentsAssumption
     DEF LibraryRecover, StorageInv, Parts, Modes, Frame, Fails, Skips, Failing, Passed, Exists
<1>. USE <1>1, ContentsAssumption, SavesAssumption
     DEF StorageInv, Parts, Frame, history, Passed, Removed, Failing, Moved, Stays
<1>2. TypeOK'
  BY DEF TypeOK, Controls
<1>3. WholeFiles'
  BY DEF WholeFiles, Contents, Saves, TypeOK
<1>4. NewFileIsWhole' /\ Modes'
  BY DEF NewFileIsWhole, Modes, EraseOrder
<1>5. InPlace' /\ Erasing'
  BY DEF InPlace, Erasing, EraseOrder, Exists
<1>6. BackedUp' /\ NoStaleBackup'
  BY DEF BackedUp, NoStaleBackup, Modes
<1>7. LossFree'
  BY DEF LossFree, Kept, NotBelow, Value, Complete, Exists, TypeOK, Contents, Saves
<1>. QED
  BY <1>2, <1>3, <1>4, <1>5, <1>6, <1>7

LEMMA StartSaveStep == ASSUME StorageInv, StartSave PROVE StorageInv'
<1>1. /\ pc = "idle" /\ disk' = disk /\ started < MaxSaves /\ started' = started + 1
      /\ had' = Exists("live") /\ had' \in BOOLEAN /\ faulted' = FALSE
      /\ rotates' \in BOOLEAN /\ (rotates' \/ proto = "globalStats")
      /\ \/ pc' = "recover" /\ proto = "libraryIndex"
         \/ pc' = "open" /\ proto = "section"
         \/ pc' = "stale" /\ proto \notin {"libraryIndex", "section"}
      /\ proto = "section" => loaded
      /\ UNCHANGED <<proto, faulty, loaded, acked, blank, shown>>
  BY DEF StartSave, Begins, Exists
<1>. USE <1>1, ContentsAssumption, SavesAssumption DEF StorageInv, Parts
<1>2. TypeOK' /\ WholeFiles'
  <2>0. started' \in Saves
    BY DEF TypeOK, Saves
  <2>1. TypeOK'
    BY <2>0 DEF TypeOK, Controls
  <2>2. WholeFiles'
    BY DEF WholeFiles, TypeOK, Saves, Contents
  <2>. QED
    BY <2>1, <2>2
<1>3. NewFileIsWhole' /\ Modes'
  BY DEF NewFileIsWhole, Modes, EraseOrder
<1>4. InPlace' /\ Erasing'
  BY DEF InPlace, Erasing, EraseOrder
<1>5. BackedUp' /\ NoStaleBackup'
  BY DEF BackedUp, NoStaleBackup, Modes, Exists
<1>6. LossFree'
  BY DEF LossFree, Kept, NotBelow
<1>. QED
  BY <1>2, <1>3, <1>4, <1>5, <1>6

LEMMA StartEraseStep == ASSUME StorageInv, StartErase \/ StartClear PROVE StorageInv'
<1>1. /\ pc = "idle" /\ disk' = disk /\ started < MaxSaves /\ started' = started + 1
      /\ had' \in BOOLEAN /\ faulted' = FALSE
      /\ \/ pc' = "eraseOlder" /\ proto = "bookStats"
         \/ pc' = "eraseTmp" /\ proto = "section" /\ loaded
      /\ blank' = started' /\ UNCHANGED <<proto, faulty, rotates, loaded, acked, shown>>
  BY DEF StartErase, StartClear, Begins, Exists
<1>. USE <1>1, ContentsAssumption, SavesAssumption DEF StorageInv, Parts
<1>2. TypeOK' /\ WholeFiles'
  <2>0. started' \in Saves
    BY DEF TypeOK, Saves
  <2>1. TypeOK'
    BY <2>0 DEF TypeOK, Controls
  <2>2. WholeFiles'
    BY DEF WholeFiles, TypeOK, Saves, Contents
  <2>. QED
    BY <2>1, <2>2
<1>3. NewFileIsWhole' /\ Modes'
  BY DEF NewFileIsWhole, Modes, EraseOrder
<1>4. InPlace' /\ Erasing' /\ BackedUp' /\ NoStaleBackup'
  BY DEF InPlace, Erasing, EraseOrder, BackedUp, NoStaleBackup, WholeFiles, TypeOK, Saves
<1>5. LossFree'
  BY DEF LossFree, Kept, NotBelow, Value, TmpIsSafe, WholeFiles, TypeOK, Saves
<1>. QED
  BY <1>2, <1>3, <1>4, <1>5

LEMMA EraseStepStep == ASSUME StorageInv, EraseStep PROVE StorageInv'
<1>1. /\ proto \in {"bookStats", "section"} /\ had' = had /\ Frame
      /\ \/ pc = "eraseOlder" /\ (Removed("older", "eraseTmp") \/ Failing("eraseTmp"))
         \/ pc = "eraseTmp" /\ (Removed("tmp", "eraseBak") \/ Failing("eraseBak"))
         \/ pc = "eraseBak" /\ (Removed("bak", "eraseLive") \/ Failing("eraseLive"))
         \/ /\ pc = "eraseLive" /\ ~(proto = "bookStats" /\ faulted)
            /\ Removed("live", "done") \/ Failing("failed")
         \/ pc = "eraseLive" /\ faulted /\ Passed("failed")
  <2>1. /\ proto \in {"bookStats", "section"} /\ had' = had /\ Frame
        /\ pc \in {"eraseOlder", "eraseTmp", "eraseBak", "eraseLive"} /\ TypeOK
    BY DEF EraseStep, EraseOrder, StorageInv, Parts, Modes, Frame
  <2>2. CASE pc = "eraseOlder"
    BY <2>1, <2>2, RemoveIfThereDoes DEF EraseStep, EraseOrder, EraseNext
  <2>3. CASE pc = "eraseTmp"
    BY <2>1, <2>3, RemoveIfThereDoes DEF EraseStep, EraseOrder, EraseNext
  <2>4. CASE pc = "eraseBak"
    BY <2>1, <2>4, RemoveIfThereDoes DEF EraseStep, EraseOrder, EraseNext
  <2>5. CASE pc = "eraseLive" /\ ~(proto = "bookStats" /\ faulted)
    BY <2>1, <2>5, RemoveIfThereDoes DEF EraseStep, EraseOrder, EraseNext
  <2>6. CASE pc = "eraseLive" /\ proto = "bookStats" /\ faulted
    BY <2>1, <2>6 DEF EraseStep, Skips, Passed
  <2>. QED
    BY <2>1, <2>2, <2>3, <2>4, <2>5, <2>6 DEF TypeOK
<1>. USE <1>1, ContentsAssumption, SavesAssumption
     DEF StorageInv, Parts, Frame, history, Passed, Removed, Failing, Stays
<1>2. TypeOK' /\ WholeFiles'
  <2>1. TypeOK'
    BY DEF TypeOK, Controls, EraseOrder
  <2>2. WholeFiles'
    BY DEF WholeFiles, Contents
  <2>. QED
    BY <2>1, <2>2
<1>3. NewFileIsWhole' /\ Modes'
  BY DEF NewFileIsWhole, Modes, EraseOrder
<1>4. InPlace' /\ Erasing'
  BY DEF InPlace, Erasing, EraseOrder, Modes, NoStaleBackup
<1>5. BackedUp' /\ NoStaleBackup'
  BY DEF BackedUp, NoStaleBackup, Modes
<1>6. LossFree'
  <2>1. ~(blank <= acked) /\ blank = started /\ blank \in Nat /\ acked \in Nat /\ shown \in Nat
    BY DEF Erasing, EraseOrder, TypeOK, Saves
  <2>2. ASSUME ~faulty, NEW n \in Saves, n <= started, NotBelow(n) PROVE NotBelow(n)'
    BY <2>1, <2>2 DEF NotBelow, Value, TmpIsSafe, Complete, Erasing, NoStaleBackup, EraseOrder, Modes,
       TypeOK, Contents, Saves
  <2>3. proto \in Kept => ~faulty
    BY DEF Kept
  <2>. QED
    BY <2>1, <2>2, <2>3 DEF LossFree, WholeFiles, TypeOK, Kept
<1>. QED
  BY <1>2, <1>3, <1>4, <1>5, <1>6

\* What is read is a whole version, and none from the future.
LEMMA ReadsWhole ==
  ASSUME StorageInv
  PROVE  Value(proto, disk, blank) \in Saves /\ Value(proto, disk, blank) <= started
BY ContentsAssumption, SavesAssumption
   DEF StorageInv, Parts, WholeFiles, TypeOK, Value, TmpIsSafe, Complete, Contents, Saves

LEMMA ReturnStep == ASSUME StorageInv, Return PROVE StorageInv'
<1>. USE ContentsAssumption, SavesAssumption DEF StorageInv, Parts, Return
<1>1. TypeOK' /\ WholeFiles'
  <2>1. TypeOK'
    BY DEF TypeOK, Controls
  <2>2. WholeFiles'
    BY DEF WholeFiles, TypeOK, Saves
  <2>. QED
    BY <2>1, <2>2
<1>2. NewFileIsWhole' /\ Modes' /\ InPlace' /\ Erasing'
  BY DEF NewFileIsWhole, Modes, InPlace, Erasing, EraseOrder
<1>3. BackedUp' /\ NoStaleBackup'
  BY DEF BackedUp, NoStaleBackup, Modes, InPlace, Modes, TypeOK, Saves
<1>4. LossFree'
  BY DEF LossFree, Kept, NotBelow, Value, TmpIsSafe, Complete, InPlace, Modes, TypeOK, Saves
<1>. QED
  BY <1>1, <1>2, <1>3, <1>4

LEMMA LoadStep == ASSUME StorageInv, Load PROVE StorageInv'
<1>1. /\ pc = "idle" /\ UNCHANGED <<proto, faulty, rotates, had, started, acked, blank>>
      /\ loaded' = TRUE
      /\ \/ Passed("idle") /\ proto # "section"
                          /\ (proto = "bookStats" /\ ~Exists("live") => ~TmpIsSafe(disk))
         \/ Failing("idle")
         \/ Moved("bak", "live", "idle") /\ proto \in {"section", "store", "bookStats"}
                                        /\ (proto = "bookStats" => ~TmpIsSafe(disk))
         \/ Moved("tmp", "live", "idle") /\ proto = "bookStats" /\ TmpIsSafe(disk)
         \/ Removed("bak", "idle") /\ proto = "section" /\ (Exists("live") \/ ~Exists("bak"))
  <2>1. /\ pc = "idle" /\ UNCHANGED <<proto, faulty, rotates, had, started, acked, blank>>
        /\ loaded' = TRUE /\ Recovers /\ TypeOK
    BY DEF Load, StorageInv, Parts
  <2>2. CASE proto = "section" /\ Exists("bak") /\ ~Exists("live")
    BY <2>1, <2>2, RenameDoes DEF Recovers, SectionRecover
  <2>3. CASE proto = "section" /\ ~(Exists("bak") /\ ~Exists("live"))
    BY <2>1, <2>3, RemoveIfThereDoes DEF Recovers, SectionRecover
  <2>4. CASE proto = "bookStats" /\ TmpIsSafe(disk) /\ ~Exists("live") /\ Exists("tmp")
    <3>1. Rename("tmp", "live", "idle", "idle")
      <4>1. RecoveryFile = "tmp"
        BY <2>4 DEF RecoveryFile, TmpIsSafe, Complete
      <4>. QED
        BY <2>1, <2>4, <4>1 DEF Recovers
    <3>2. ~(~Exists("tmp") \/ Exists("live"))
      BY <2>4
    <3>3. Moved("tmp", "live", "idle") \/ Failing("idle")
      BY <2>1, <3>1, <3>2, RenameDoes
    <3>. QED
      BY <2>1, <2>4, <3>3
  <2>5. CASE proto \in {"store", "bookStats"} /\ ~(proto = "bookStats" /\ TmpIsSafe(disk))
             /\ ~Exists("live") /\ Exists("bak")
    BY <2>1, <2>5, RenameDoes DEF Recovers, RecoveryFile
  <2>6. CASE /\ proto # "section" /\ Skips("idle")
             /\ (proto = "bookStats" /\ ~Exists("live") => ~TmpIsSafe(disk))
    BY <2>1, <2>6 DEF Skips, Passed
  <2>. QED
    BY <2>1, <2>2, <2>3, <2>4, <2>5, <2>6, ContentsAssumption
       DEF Recovers, RecoveryFile, TmpIsSafe, Complete, Exists
<1>2. shown' \in Saves /\ shown' <= started
  BY ReadsWhole DEF Load, StorageInv, Parts, TypeOK, WholeFiles
<1>. USE <1>1, <1>2, ContentsAssumption, SavesAssumption
     DEF StorageInv, Parts, Passed, Removed, Failing, Moved, Stays
<1>3. TypeOK'
  BY DEF TypeOK, Controls
<1>4. WholeFiles'
  BY DEF WholeFiles, Contents, Saves, TypeOK, TmpIsSafe, Complete
<1>5. NewFileIsWhole' /\ Modes' /\ InPlace' /\ Erasing'
  BY DEF NewFileIsWhole, Modes, InPlace, Erasing, EraseOrder
<1>6. BackedUp' /\ NoStaleBackup'
  BY DEF BackedUp, NoStaleBackup, Modes
<1>7. ASSUME NEW n \in Saves, proto \in Keepers, NotBelow(n) PROVE NotBelow(n)'
  <2>. USE <1>7 DEF Keepers, NotBelow, Value, TmpIsSafe, Complete, Exists, TypeOK, Contents, Saves
  <2>1. CASE disk' = disk
    BY <2>1
  <2>2. CASE proto \in {"store", "libraryIndex", "section"}
    BY <2>2
  <2>3. CASE proto = "bookStats" /\ disk' # disk
    BY <2>3
  <2>. QED
    BY <2>1, <2>2, <2>3
<1>8. ASSUME proto \in Kept PROVE NotBelow(shown)'
  <2>1. CASE shown' = shown
    BY <1>7, <1>8, <2>1 DEF LossFree, Kept, Keepers, TypeOK
  <2>2. CASE shown' = Value(proto, disk, blank)
    <3>. USE <1>8, <2>2, ReadsWhole
         DEF NotBelow, Value, TmpIsSafe, Complete, Exists, TypeOK, Contents, Saves
    <3>1. CASE proto \in {"store", "section"}
      BY <3>1
    <3>2. CASE proto = "libraryIndex"
      BY <3>2
    <3>3. CASE proto = "bookStats" /\ ~faulty /\ disk' = disk
      BY <3>3
    <3>4. CASE proto = "bookStats" /\ ~faulty /\ disk' # disk
      BY <3>4
    <3>. QED
      BY <3>1, <3>2, <3>3, <3>4 DEF Kept
  <2>. QED
    BY <2>1, <2>2 DEF Load
<1>9. LossFree'
  BY <1>7, <1>8 DEF LossFree, Kept, Keepers, TypeOK
<1>. QED
  BY <1>3, <1>4, <1>5, <1>6, <1>9

LEMMA PowerStep == ASSUME StorageInv, PowerOn \/ PowerLoss PROVE StorageInv'
<1>1. /\ pc' \in {"off", "idle"} /\ disk' = disk /\ had' = had /\ rotates' = rotates
      /\ loaded' = FALSE \/ (loaded' = loaded /\ pc = "off")
      /\ (faulted' = faulted \/ faulted' = FALSE)
      /\ UNCHANGED <<proto, faulty>> /\ UNCHANGED history
  BY DEF PowerOn, PowerLoss, StorageInv, Parts, TypeOK
<1>. USE <1>1 DEF StorageInv, Parts, history
<1>2. TypeOK'
  BY DEF TypeOK, Controls
<1>3. WholeFiles' /\ NewFileIsWhole' /\ Modes' /\ InPlace' /\ Erasing'
  BY DEF WholeFiles, NewFileIsWhole, Modes, InPlace, Erasing, EraseOrder
<1>4. BackedUp' /\ NoStaleBackup' /\ LossFree'
  BY DEF BackedUp, NoStaleBackup, LossFree, Kept, NotBelow
<1>. QED
  BY <1>2, <1>3, <1>4

LEMMA InitInv == Init => StorageInv
<1> SUFFICES ASSUME Init PROVE StorageInv
  OBVIOUS
<1>. USE ContentsAssumption, SavesAssumption DEF Init
<1>1. TypeOK
  <2>1. 0 \in Saves
    BY DEF Saves
  <2>2. disk \in [Files -> Contents]
    BY <2>1 DEF Contents
  <2>. QED
    BY <2>1, <2>2 DEF TypeOK, Controls
<1>2. WholeFiles /\ NewFileIsWhole /\ Modes
  BY DEF WholeFiles, NewFileIsWhole, Modes, Contents, Saves, EraseOrder
<1>3. InPlace /\ Erasing /\ BackedUp /\ NoStaleBackup
  BY DEF InPlace, Erasing, BackedUp, NoStaleBackup, EraseOrder
<1>4. LossFree
  BY DEF LossFree, NotBelow, Value, TmpIsSafe, Complete
<1>. QED
  BY <1>1, <1>2, <1>3, <1>4 DEF StorageInv, Parts

LEMMA InvStep == StorageInv /\ [Next]_vars => StorageInv'
<1> SUFFICES ASSUME StorageInv, [Next]_vars PROVE StorageInv'
  OBVIOUS
<1>1. CASE Operations
  BY <1>1, StartSaveStep, LibraryRecoverStep, RemoveStaleStep, OpenTmpStep, WriteTmpStep,
     AbandonBuildStep, DropBackupStep, RotateStep, PublishStep, RestoreStep, AfterRestoreStep, DiscardStep,
     CleanupStep, ReturnStep, StartEraseStep, EraseStepStep, LoadStep DEF Operations
<1>2. CASE UNCHANGED vars
  BY <1>2 DEF vars, StorageInv, Parts, TypeOK, WholeFiles, NewFileIsWhole, Modes, InPlace,
     Erasing, BackedUp, NoStaleBackup, LossFree, Kept, NotBelow
<1>. QED
  BY <1>1, <1>2, PowerStep DEF Next

-----------------------------------------------------------------------------
(* The theorems *)

\* Every step of every place keeps the invariant.
THEOREM StorageInvariance == Spec => []StorageInv
BY InitInv, InvStep, PTL DEF Spec

\* However many saves, whichever calls fail and wherever the power goes, no file
\* that was being written is read as a saved one.
THEOREM WholeIsRead == Spec => []NeverTorn
<1>1. StorageInv => NeverTorn
  BY ReadsWhole DEF NeverTorn
<1>. QED
  BY <1>1, StorageInvariance, PTL

\* The last version whose save reported success, or a newer one, is read next.
THEOREM SavesLast == Spec => []NoSaveIsLost
<1>1. StorageInv => NoSaveIsLost
  <2> SUFFICES ASSUME StorageInv, Keeps PROVE Value(proto, disk, blank) >= acked
    BY DEF NoSaveIsLost
  <2>1. CASE \/ proto \in Kept \/ (proto = "bookStats" /\ blank <= acked)
             \/ proto = "section" /\ blank < acked
    BY <2>1 DEF StorageInv, LossFree, NotBelow
  <2>2. CASE proto = "globalStats" /\ rotates /\ had
    BY <2>2, ContentsAssumption
       DEF StorageInv, Parts, BackedUp, WholeFiles, TypeOK, Value, Complete, Contents, Saves
  <2>. QED
    BY <2>1, <2>2 DEF Keeps
<1>. QED
  BY <1>1, StorageInvariance, PTL

\* A reader of a place that keeps what it saved never sees an older version than
\* before, in this session or a later one.
THEOREM ReadsKeepTheirOrder == Spec => ReadsDoNotGoBack
<1>1. StorageInv /\ [Next]_vars => [(proto \in Kept) => (shown' >= shown)]_vars
  <2> SUFFICES ASSUME StorageInv, Next, proto \in Kept PROVE shown' >= shown
    OBVIOUS
  <2>1. shown \in Nat /\ Value(proto, disk, blank) >= shown
    BY DEF StorageInv, Parts, TypeOK, Saves, LossFree, NotBelow
  <2>2. CASE Load
    BY <2>1, <2>2 DEF Load
  <2>3. CASE shown' = shown
    BY <2>1, <2>3
  <2>. QED
    BY <2>2, <2>3
       DEF Next, Operations, PowerOn, PowerLoss, StartSave, LibraryRecover,
           RemoveStale, OpenTmp, WriteTmp, AbandonBuild, DropBackup, Rotate, Publish, Restore, AfterRestore,
           Discard, Cleanup, Return, StartErase, StartClear, EraseStep, history
<1>. QED
  BY <1>1, StorageInvariance, PTL DEF Spec, ReadsDoNotGoBack

\* Names, temporary files, backups, failing calls and power losses show to a
\* reader only as one value that is saved and read.
THEOREM CellImplemented == Spec => ImplementsDurableCell
<1>. USE DEF Cell!Start, Cell!Report, Cell!Read, Cell!Next
<1>1. Init => Cell!Init
  BY DEF Init, Cell!Init
<1>2. StorageInv /\ [Next]_vars =>
        [Cell!Next]_<<started, IF proto \in Kept THEN acked ELSE 0, shown>>
  <2> SUFFICES ASSUME StorageInv, Next
                  PROVE  Cell!Next \/ UNCHANGED <<started, IF proto \in Kept THEN acked ELSE 0, shown>>
    BY DEF vars, Kept
  <2>0. proto' = proto /\ Kept' = Kept
    BY DEF Kept, Next, Operations, PowerOn, PowerLoss, StartSave, LibraryRecover, RemoveStale,
       OpenTmp, WriteTmp, AbandonBuild, DropBackup, Rotate, Publish, Restore, AfterRestore, Discard, Cleanup,
       Return, StartErase, StartClear, EraseStep, Load
  <2>1. CASE StartSave \/ StartErase \/ StartClear
    BY <2>0, <2>1 DEF StartSave, StartErase, StartClear, Begins
  <2>2. CASE Return
    BY <2>0, <2>2 DEF Return
  <2>3. CASE Load
    <3>1. shown' = shown \/ shown' = Value(proto, disk, blank)
      BY <2>3 DEF Load
    <3>2. /\ Value(proto, disk, blank) \in 0..started
          /\ (proto \in Kept => Value(proto, disk, blank) \in acked..started)
      BY ReadsWhole, SavesAssumption DEF StorageInv, Parts, LossFree, NotBelow, TypeOK, Saves
    <3>. QED
      BY <2>0, <2>3, <3>1, <3>2 DEF Load
  <2>4. CASE UNCHANGED <<started, acked, shown>>
    BY <2>0, <2>4
  <2>. QED
    BY <2>1, <2>2, <2>3, <2>4
       DEF Next, Operations, PowerOn, PowerLoss, LibraryRecover, RemoveStale, OpenTmp, WriteTmp,
         AbandonBuild, DropBackup, Rotate, Publish, Restore, AfterRestore, Discard, Cleanup, EraseStep, history
<1>. QED
  BY <1>1, <1>2, StorageInvariance, PTL DEF Spec, ImplementsDurableCell, Cell!Spec

-----------------------------------------------------------------------------
(* The four side by side                                                    *)

\* A behaviour of the composition is one of each part: what another one does
\* leaves a part's variables alone.  So each part's theorems hold in it.
LEMMA StorageIsEach == StorageSpec => Spec /\ FwSpec /\ TurnsSpec /\ NearbySpec
<1>1. StorageInit => Init /\ FwInit /\ TurnsInit /\ NearbyInit
  BY DEF StorageInit
<1>2. [StorageNext]_<<front, vars, fwVars, turnVars, nearbyVars>> =>
        [Next]_vars /\ [FwNext]_fwVars /\ [TurnsNext]_turnVars /\ [NearbyNext]_nearbyVars
  BY DEF StorageNext
<1>. QED
  BY <1>1, <1>2, PTL DEF StorageSpec, Spec, FwSpec, TurnsSpec, NearbySpec

\* The types of what is kept on card and flash hold side by side.
THEOREM StorageTypes == StorageSpec => []StorageTypesOK
<1>1. StorageInv => TypeOK
  BY DEF StorageInv, Parts
<1>. QED
  BY <1>1, StorageIsEach, StorageInvariance, FwTypes, TurnsTypes, NearbyTypes, PTL DEF StorageTypesOK

\* What the run of the composition checks, for every value of its constants.
THEOREM StorageSafe ==
  StorageSpec =>
    /\ [](NeverTorn /\ NoSaveIsLost /\ AlwaysBoots /\ SwitchTakesEffect)
    /\ [](TurnsFollowLastPress /\ RestShowsThePage /\ PlaceIsKept)
    /\ [](InstalledIsWhole /\ NameKeepsAFile /\ SentMeansInstalled)
    /\ ReadsDoNotGoBack /\ ImplementsDurableCell
<1>1. Spec => [](NeverTorn /\ NoSaveIsLost) /\ ReadsDoNotGoBack /\ ImplementsDurableCell
  BY WholeIsRead, SavesLast, ReadsKeepTheirOrder, CellImplemented, PTL
<1>2. FwSpec => [](AlwaysBoots /\ SwitchTakesEffect)
  BY BootsAlways, SwitchWorks, PTL
<1>3. TurnsSpec => [](TurnsFollowLastPress /\ RestShowsThePage /\ PlaceIsKept)
  BY TurnsFollow, RestShows, PlaceKept, PTL
<1>4. NearbySpec => [](InstalledIsWhole /\ NameKeepsAFile /\ SentMeansInstalled)
  BY InstalledWhole, NameKept, SentIsInstalled, PTL
<1>. QED
  BY <1>1, <1>2, <1>3, <1>4, StorageIsEach, PTL
=============================================================================
