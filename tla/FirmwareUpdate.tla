--------------------------- MODULE FirmwareUpdate ---------------------------
(***************************************************************************)
(* Installing a firmware image: the file is checked, the application       *)
(* partition that is not running is erased and written block by block, and *)
(* then the boot record is switched by hand (OtaBootSwitch.cpp), past the  *)
(* library call that would check the image.  The boot record is two        *)
(* sectors, each with a sequence number; the bootloader takes the usable   *)
(* one with the highest and boots partition (number - 1) mod 2.            *)
(*                                                                         *)
(* A step is one change of the flash; the power can go at each.            *)
(***************************************************************************)
EXTENDS Integers

CONSTANTS
  Blocks,    \* blocks of an image
  MaxSeq     \* highest sequence number (bound; 32 bits in the code)

ASSUME BlocksAssumption == Blocks \in Nat \ {0}
ASSUME SeqAssumption == MaxSeq \in Nat \ {0}

Apps == {0, 1}
Sectors == {0, 1}
Unusable == 0   \* erased, wrong checksum, or marked invalid or aborted

VARIABLES
  entry,     \* the boot record: sector -> sequence number, or Unusable
  image,     \* partition -> blocks written of the image it is to hold
  running,   \* the partition this session runs from
  fwpc,      \* where flashValidatedFile(), then switchTo(), stands
  dest,      \* the partition that is written
  newSeq,    \* the number switchTo() chose
  target,    \* the sector it writes
  picked     \* history: what the bootloader would have taken when switchTo() began

fwVars == <<entry, image, running, fwpc, dest, newSeq, target, picked>>

Whole(a) == image[a] = Blocks

\* The locals of a call that has returned.
LocalsGone == dest' = 0 /\ newSeq' = 0 /\ target' = 0 /\ picked' = 0

-----------------------------------------------------------------------------
(* The bootloader *)

\* The usable sector with the highest number, the first of two equal ones; -1 if
\* neither is usable.
Active(e) ==
  IF e[0] = Unusable /\ e[1] = Unusable THEN -1
  ELSE IF e[1] > e[0] THEN 1 ELSE 0
SeqOf(e) == IF Active(e) = -1 THEN 0 ELSE e[Active(e)]

\* Without a usable sector the first partition is taken.
Selected(e) == IF Active(e) = -1 THEN 0 ELSE (SeqOf(e) - 1) % 2

\* An image that does not verify is passed over for the other one.
Booted(e) == IF Whole(Selected(e)) THEN Selected(e) ELSE 1 - Selected(e)

-----------------------------------------------------------------------------
(* flashValidatedFile() *)

\* Counted from the boot record instead of the running partition.
BrokenUpdatePartition == 1 - Selected(entry)

\* esp_ota_get_next_update_partition(nullptr)
UpdatePartition == 1 - running

\* The image has been validated: chip, checksums, size, board.
BeginFlash ==
  /\ fwpc = "idle"
  /\ dest' = UpdatePartition
  /\ fwpc' = "flash"
  /\ UNCHANGED <<entry, image, running, newSeq, target, picked>>

\* The first erase takes the old image's header away.
EraseFirst ==
  /\ fwpc = "flash" /\ image' = [image EXCEPT ![dest] = 0] /\ fwpc' = "write"
  /\ UNCHANGED <<entry, running, dest, newSeq, target, picked>>

WriteBlock ==
  /\ fwpc = "write" /\ image[dest] < Blocks
  /\ image' = [image EXCEPT ![dest] = @ + 1]
  /\ UNCHANGED <<entry, running, fwpc, dest, newSeq, target, picked>>

\* A read, an erase or a write fails: nothing is switched.
FlashFails ==
  /\ fwpc \in {"flash", "write", "erase", "record"}
  /\ fwpc' = "idle" /\ LocalsGone
  /\ UNCHANGED <<entry, image, running>>

-----------------------------------------------------------------------------
(* switchTo() *)

\* The smallest number above the active one that stands for dest.
BrokenNextSeq(seq, d) == seq + 1
NextSeq(seq, d) == CHOOSE n \in seq + 1 .. seq + 2 : (n - 1) % 2 = d

TargetSector(active) == IF active = 0 THEN 1 ELSE 0

Switch ==
  /\ fwpc = "write" /\ Whole(dest)
  /\ newSeq' = NextSeq(SeqOf(entry), dest) /\ newSeq' <= MaxSeq
  /\ target' = TargetSector(Active(entry))
  /\ picked' = Selected(entry)
  /\ fwpc' = "erase"
  /\ UNCHANGED <<entry, image, running, dest>>

EraseSector ==
  /\ fwpc = "erase" /\ fwpc' = "record"
  /\ entry' = [entry EXCEPT ![target] = Unusable]
  /\ UNCHANGED <<image, running, dest, newSeq, target, picked>>

\* The write of the sector; cut short it leaves an entry with a wrong checksum,
\* which is as good as none.
WriteSector ==
  /\ fwpc = "record" /\ fwpc' = "switched"
  /\ entry' = [entry EXCEPT ![target] = newSeq]
  /\ UNCHANGED <<image, running, dest, newSeq, target, picked>>

-----------------------------------------------------------------------------

\* After a success the device restarts; the power may go at any time.  The
\* screens offer no second update before the restart.
Restart ==
  /\ fwpc' = "idle" /\ LocalsGone
  /\ running' = Booted(entry)
  /\ UNCHANGED <<entry, image>>

\* The running image is whole and was selected, unless an update before this
\* firmware was cut and the bootloader had to pass over it.
FwInit ==
  /\ entry \in [Sectors -> 0..1]
  /\ image \in [Apps -> {0, Blocks}]
  /\ \E a \in Apps : Whole(a)
  /\ running = Booted(entry)
  /\ fwpc = "idle" /\ dest = 0
  /\ newSeq = 0 /\ target = 0 /\ picked = 0

FlashSteps ==
  \/ BeginFlash \/ EraseFirst \/ WriteBlock \/ FlashFails
  \/ Switch \/ EraseSector \/ WriteSector

FwNext == FlashSteps \/ Restart

FwSpec == FwInit /\ [][FwNext]_fwVars

-----------------------------------------------------------------------------
(* What should hold *)

FwTypeOK ==
  /\ entry \in [Sectors -> 0..MaxSeq]
  /\ image \in [Apps -> 0..Blocks]
  /\ {running, dest, picked} \subseteq Apps
  /\ fwpc \in {"idle", "flash", "write", "erase", "record", "switched"}
  /\ newSeq \in 0..MaxSeq
  /\ target \in Sectors

\* Wherever an update is cut, the bootloader finds a whole image, and the one
\* that runs is never the one being written.
AlwaysBoots == Whole(Booted(entry)) /\ Whole(running)

\* Until the new record is there, the bootloader takes what it took before, also
\* when the erase or the write is the last thing that happens.
SwitchIsAtomic == fwpc \in {"erase", "record"} => Selected(entry) = picked /\ Whole(dest)

\* switchTo() that succeeded has the next start run the new image.
SwitchTakesEffect == fwpc = "switched" => Booted(entry) = dest
=============================================================================
