---------------------------- MODULE FirmwareProofs ----------------------------
(***************************************************************************)
(* Theorems about the firmware update, for images of any size and any      *)
(* bound on the sequence numbers: there is a whole image to boot wherever  *)
(* the power goes, the switch is all or nothing, and it takes effect.      *)
(***************************************************************************)
EXTENDS FirmwareUpdate, TLAPS

Switching == {"erase", "record"}

-----------------------------------------------------------------------------
(* The boot record *)

LEMMA Parity == ASSUME NEW n \in Int PROVE n % 2 \in {0, 1}
OBVIOUS

\* The bootloader names a partition whatever the record holds.
LEMMA SelectedIsApp == ASSUME NEW e \in [Sectors -> Nat] PROVE Selected(e) \in Apps
<1>1. SeqOf(e) - 1 \in Int
  BY DEF SeqOf, Active, Sectors
<1>2. (SeqOf(e) - 1) % 2 \in {0, 1}
  BY <1>1, Parity
<1>. QED
  BY <1>2 DEF Selected, Apps

\* switchTo() finds its number: the next or the one after it.
LEMMA NextSeqIsThere ==
  ASSUME NEW q \in Nat, NEW d \in Apps
  PROVE  NextSeq(q, d) \in q + 1 .. q + 2 /\ (NextSeq(q, d) - 1) % 2 = d
<1>1. \E n \in q + 1 .. q + 2 : (n - 1) % 2 = d
  <2>1. q % 2 = d \/ (q + 1) % 2 = d
    BY DEF Apps
  <2>2. q + 1 \in q + 1 .. q + 2 /\ (q + 1) - 1 = q /\ q + 2 \in q + 1 .. q + 2 /\ (q + 2) - 1 = q + 1
    OBVIOUS
  <2>. QED
    BY <2>1, <2>2
<1>. QED
  BY <1>1 DEF NextSeq

\* The sector that is rewritten is not the one that counts: erased, it changes
\* nothing; with a higher number than the other it is the one that counts.
LEMMA SectorRewritten ==
  ASSUME NEW e \in [Sectors -> Nat], NEW n \in Nat, n > SeqOf(e), NEW t, t = TargetSector(Active(e))
  PROVE  /\ t \in Sectors
         /\ Selected([e EXCEPT ![t] = Unusable]) = Selected(e)
         /\ e[1 - t] < n
<1>. USE DEF Sectors, Unusable
<1>1. CASE e[0] = 0 /\ e[1] = 0
  <2>1. Active(e) = -1 /\ t = 0 /\ SeqOf(e) = 0
    BY <1>1 DEF Active, TargetSector, SeqOf
  <2>2. [e EXCEPT ![t] = Unusable] = e
    BY <1>1, <2>1
  <2>3. e[1 - t] = 0 /\ 0 < n
    BY <1>1, <2>1
  <2>. QED
    BY <2>1, <2>2, <2>3
<1>2. CASE e[1] > e[0]
  <2>1. Active(e) = 1 /\ t = 0 /\ SeqOf(e) = e[1]
    BY <1>2 DEF Active, TargetSector, SeqOf
  <2> DEFINE f == [e EXCEPT ![t] = Unusable]
  <2>2. f[0] = 0 /\ f[1] = e[1] /\ e[1] # 0
    BY <1>2, <2>1
  <2>3. Active(f) = 1
    BY <1>2, <2>2 DEF Active
  <2>4. SeqOf(f) = SeqOf(e)
    BY <2>1, <2>2, <2>3 DEF SeqOf
  <2>. QED
    BY <2>1, <2>3, <2>4 DEF Selected
<1>3. CASE e[1] <= e[0] /\ e[0] # 0
  <2>1. Active(e) = 0 /\ t = 1 /\ SeqOf(e) = e[0]
    BY <1>3 DEF Active, TargetSector, SeqOf
  <2> DEFINE f == [e EXCEPT ![t] = Unusable]
  <2>2. f[0] = e[0] /\ f[1] = 0
    BY <1>3, <2>1
  <2>3. Active(f) = 0
    BY <1>3, <2>2 DEF Active
  <2>4. SeqOf(f) = SeqOf(e)
    BY <2>1, <2>2, <2>3 DEF SeqOf
  <2>. QED
    BY <2>1, <2>3, <2>4 DEF Selected
<1>. QED
  BY <1>1, <1>2, <1>3

LEMMA SectorWritten ==
  ASSUME NEW e \in [Sectors -> Nat], NEW t \in Sectors, NEW n \in Nat, e[1 - t] < n, n # 0
  PROVE  Selected([e EXCEPT ![t] = n]) = (n - 1) % 2
<1> DEFINE f == [e EXCEPT ![t] = n]
<1>1. f[t] = n /\ f[1 - t] = e[1 - t] /\ 1 - t \in Sectors
  BY DEF Sectors
<1>2. Active(f) = t
  BY <1>1 DEF Active, Sectors, Unusable
<1>3. SeqOf(f) = n
  BY <1>1, <1>2 DEF SeqOf, Sectors
<1>. QED
  BY <1>2, <1>3 DEF Selected, Sectors

\* A partition that is whole is always found, by the record or past it.
LEMMA OneWholeIsEnough ==
  ASSUME NEW e \in [Sectors -> Nat], NEW a \in Apps, Whole(a)
  PROVE  Whole(Booted(e))
<1>1. CASE Whole(Selected(e))
  BY <1>1 DEF Booted
<1>2. CASE ~Whole(Selected(e))
  <2>1. a = 1 - Selected(e)
    BY <1>2, SelectedIsApp DEF Apps
  <2>. QED
    BY <1>2, <2>1 DEF Booted
<1>. QED
  BY <1>1, <1>2

-----------------------------------------------------------------------------
(* The invariant *)

\* What is written is never what runs, and what runs is whole.
RunningIsSafe ==
  /\ Whole(running)
  /\ fwpc # "idle" => dest = 1 - running

\* Between its choice and its end, switchTo() has a whole image and a number
\* that stands for it and outdoes the sector it keeps.
SwitchReady ==
  fwpc \in Switching \cup {"switched"} =>
    /\ Whole(dest)
    /\ newSeq # 0 /\ (newSeq - 1) % 2 = dest
    /\ fwpc \in Switching => /\ Selected(entry) = picked
                             /\ entry[1 - target] < newSeq
    /\ fwpc = "erase" => target = TargetSector(Active(entry)) /\ SeqOf(entry) < newSeq

FwInv == FwTypeOK /\ RunningIsSafe /\ SwitchReady /\ SwitchTakesEffect

LEMMA FwInitInv == FwInit => FwInv
<1> SUFFICES ASSUME FwInit PROVE FwInv
  OBVIOUS
<1>1. entry \in [Sectors -> Nat] /\ entry \in [Sectors -> 0..MaxSeq]
  BY SeqAssumption DEF FwInit
<1>2. running \in Apps /\ Whole(running)
  <2>1. PICK a \in Apps : Whole(a)
    BY DEF FwInit
  <2>. QED
    BY <1>1, <2>1, OneWholeIsEnough, SelectedIsApp DEF FwInit, Booted, Apps
<1>3. FwTypeOK
  BY <1>1, <1>2, BlocksAssumption, SeqAssumption DEF FwInit, FwTypeOK, Apps, Sectors
<1>. QED
  BY <1>2, <1>3 DEF FwInit, FwInv, RunningIsSafe, SwitchReady, SwitchTakesEffect, Switching

-----------------------------------------------------------------------------
(* The steps *)

LEMMA FlashStep ==
  ASSUME FwInv, BeginFlash \/ EraseFirst \/ WriteBlock \/ FlashFails
  PROVE  FwInv'
<1>. USE BlocksAssumption
     DEF FwInv, FwTypeOK, RunningIsSafe, SwitchReady, SwitchTakesEffect, Switching, Whole, Apps
<1>1. CASE BeginFlash
  BY <1>1 DEF BeginFlash, UpdatePartition
<1>2. CASE EraseFirst
  BY <1>2 DEF EraseFirst
<1>3. CASE WriteBlock
  BY <1>3 DEF WriteBlock
<1>4. CASE FlashFails
  BY <1>4, SeqAssumption DEF FlashFails, LocalsGone, Sectors
<1>. QED
  BY <1>1, <1>2, <1>3, <1>4

LEMMA SwitchStep == ASSUME FwInv, Switch PROVE FwInv'
<1>1. entry \in [Sectors -> Nat] /\ dest \in Apps
  BY DEF FwInv, FwTypeOK
<1>2. SeqOf(entry) \in Nat
  BY <1>1 DEF SeqOf, Active, Sectors
<1>3. newSeq' \in Nat /\ newSeq' > SeqOf(entry) /\ (newSeq' - 1) % 2 = dest /\ newSeq' # 0
  BY <1>1, <1>2, NextSeqIsThere DEF Switch
<1>4. target' = TargetSector(Active(entry)) /\ picked' = Selected(entry)
      /\ UNCHANGED <<entry, image, running, dest>> /\ fwpc' = "erase" /\ newSeq' <= MaxSeq
      /\ Whole(dest) /\ fwpc = "write"
  BY DEF Switch
<1>5. target' \in Sectors /\ entry[1 - target'] < newSeq'
  BY <1>1, <1>3, <1>4, SectorRewritten
<1>6. FwTypeOK'
  BY <1>1, <1>3, <1>4, <1>5, SelectedIsApp, SeqAssumption DEF FwInv, FwTypeOK
<1>7. RunningIsSafe' /\ SwitchTakesEffect'
  BY <1>4 DEF FwInv, RunningIsSafe, SwitchTakesEffect, Whole
<1>8. SwitchReady'
  BY <1>3, <1>4, <1>5 DEF SwitchReady, Switching, Whole
<1>. QED
  BY <1>6, <1>7, <1>8 DEF FwInv

LEMMA EraseSectorStep == ASSUME FwInv, EraseSector PROVE FwInv'
<1>1. entry \in [Sectors -> Nat] /\ newSeq \in Nat /\ target \in Sectors
  BY DEF FwInv, FwTypeOK
<1>2. /\ fwpc = "erase" /\ fwpc' = "record" /\ entry' = [entry EXCEPT ![target] = Unusable]
      /\ UNCHANGED <<image, running, dest, newSeq, target, picked>>
  BY DEF EraseSector
<1>3. target = TargetSector(Active(entry)) /\ SeqOf(entry) < newSeq /\ Selected(entry) = picked
      /\ entry[1 - target] < newSeq /\ Whole(dest) /\ newSeq # 0 /\ (newSeq - 1) % 2 = dest
  BY <1>2 DEF FwInv, SwitchReady, Switching
<1>4. SeqOf(entry) \in Nat
  BY <1>1 DEF SeqOf, Active, Sectors
<1>5. Selected(entry') = picked
  BY <1>1, <1>2, <1>3, <1>4, SectorRewritten
<1>6. entry'[1 - target] < newSeq
  BY <1>1, <1>2, <1>3 DEF Sectors
<1>7. FwTypeOK'
  BY <1>2, SeqAssumption DEF FwInv, FwTypeOK, Unusable
<1>8. RunningIsSafe' /\ SwitchTakesEffect' /\ SwitchReady'
  BY <1>2, <1>3, <1>5, <1>6 DEF FwInv, RunningIsSafe, SwitchTakesEffect, SwitchReady, Switching, Whole
<1>. QED
  BY <1>7, <1>8 DEF FwInv

LEMMA WriteSectorStep == ASSUME FwInv, WriteSector PROVE FwInv'
<1>1. entry \in [Sectors -> Nat] /\ newSeq \in Nat /\ target \in Sectors
  BY DEF FwInv, FwTypeOK
<1>2. /\ fwpc = "record" /\ fwpc' = "switched" /\ entry' = [entry EXCEPT ![target] = newSeq]
      /\ UNCHANGED <<image, running, dest, newSeq, target, picked>>
  BY DEF WriteSector
<1>3. entry[1 - target] < newSeq /\ Whole(dest) /\ newSeq # 0 /\ (newSeq - 1) % 2 = dest
  BY <1>2 DEF FwInv, SwitchReady, Switching
<1>4. Selected(entry') = dest
  BY <1>1, <1>2, <1>3, SectorWritten
<1>5. FwTypeOK'
  BY <1>2 DEF FwInv, FwTypeOK
<1>6. RunningIsSafe' /\ SwitchReady'
  BY <1>2, <1>3 DEF FwInv, RunningIsSafe, SwitchReady, Switching, Whole
<1>7. SwitchTakesEffect'
  BY <1>2, <1>3, <1>4 DEF SwitchTakesEffect, Booted, Whole
<1>. QED
  BY <1>5, <1>6, <1>7 DEF FwInv

LEMMA RestartStep == ASSUME FwInv, Restart PROVE FwInv'
<1>1. entry \in [Sectors -> Nat] /\ running \in Apps /\ Whole(running)
  BY DEF FwInv, FwTypeOK, RunningIsSafe
<1>2. Whole(Booted(entry)) /\ Booted(entry) \in Apps
  BY <1>1, OneWholeIsEnough, SelectedIsApp DEF Booted, Apps
<1>3. FwTypeOK'
  BY <1>2, SeqAssumption DEF FwInv, FwTypeOK, Restart, LocalsGone, Apps, Sectors
<1>. QED
  BY <1>2, <1>3 DEF Restart, FwInv, RunningIsSafe, SwitchReady, SwitchTakesEffect, Switching, Whole

LEMMA FwInvStep == FwInv /\ [FwNext]_fwVars => FwInv'
<1> SUFFICES ASSUME FwInv, [FwNext]_fwVars PROVE FwInv'
  OBVIOUS
<1>1. CASE UNCHANGED fwVars
  BY <1>1 DEF fwVars, FwInv, FwTypeOK, RunningIsSafe, SwitchReady, SwitchTakesEffect, Switching,
     Whole, Booted
<1>. QED
  BY <1>1, FlashStep, SwitchStep, EraseSectorStep, WriteSectorStep, RestartStep DEF FwNext, FlashSteps

LEMMA FwInvHolds == FwSpec => []FwInv
BY FwInitInv, FwInvStep, PTL DEF FwSpec

-----------------------------------------------------------------------------
(* The theorems *)

\* The variables keep their types and the sequence numbers their bound.
THEOREM FwTypes == FwSpec => []FwTypeOK
BY FwInvHolds, PTL DEF FwInv

\* Only the partition that is not running is written, so that at every cut the
\* bootloader finds an image that verifies.
THEOREM BootsAlways == FwSpec => []AlwaysBoots
<1>1. FwInv => AlwaysBoots
  BY OneWholeIsEnough DEF FwInv, FwTypeOK, RunningIsSafe, AlwaysBoots
<1>. QED
  BY <1>1, FwInvHolds, PTL

\* While switchTo() rewrites a sector, the other one is what it was and still
\* selects what it selected.
THEOREM SwitchAllOrNothing == FwSpec => []SwitchIsAtomic
<1>1. FwInv => SwitchIsAtomic
  BY DEF FwInv, SwitchReady, Switching, SwitchIsAtomic
<1>. QED
  BY <1>1, FwInvHolds, PTL

\* The number switchTo() computes makes its sector the active one and stands for
\* the partition that was written.
THEOREM SwitchWorks == FwSpec => []SwitchTakesEffect
BY FwInvHolds, PTL DEF FwInv
=============================================================================
