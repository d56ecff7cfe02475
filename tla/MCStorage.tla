----------------------------- MODULE MCStorage -----------------------------
(***************************************************************************)
(* What is kept on card and flash, for TLC: files replaced, firmware       *)
(* installed, the place in a book, a file received.  They share no         *)
(* variable: a behaviour is about one of them and the others stand still.  *)
(***************************************************************************)
EXTENDS FileReplace, FirmwareUpdate, PageTurns, NearbyTransfer

VARIABLE front   \* whose behaviour this is

Fronts == {"files", "firmware", "book", "transfer"}

StorageInit ==
  /\ front \in Fronts
  /\ Init /\ FwInit /\ TurnsInit /\ NearbyInit
  /\ front # "files" => /\ proto = CHOOSE p \in Protocols : TRUE
                        /\ ~faulty /\ \A f \in Files : disk[f] = Missing
  /\ front # "firmware" => \A a \in Apps : entry[a] = 0 /\ Whole(a)
  /\ front # "transfer" => air = {}

StorageNext ==
  /\ UNCHANGED front
  /\ \/ front = "files" /\ Next /\ UNCHANGED <<fwVars, turnVars, nearbyVars>>
     \/ front = "firmware" /\ FwNext /\ UNCHANGED <<vars, turnVars, nearbyVars>>
     \/ front = "book" /\ TurnsNext /\ UNCHANGED <<vars, fwVars, nearbyVars>>
     \/ front = "transfer" /\ NearbyNext /\ UNCHANGED <<vars, fwVars, turnVars>>

StorageSpec == StorageInit /\ [][StorageNext]_<<front, vars, fwVars, turnVars, nearbyVars>>

\* The state of every part is well formed.
StorageTypesOK == TypeOK /\ FwTypeOK /\ TurnsTypeOK /\ NearbyTypeOK

-----------------------------------------------------------------------------
(* What a document promises and a run refutes.                             *)

\* A save of the all-time statistics that keeps a backup never takes the last
\* readable copy of the saved ones away.
HasCopy(d) == Complete(d["live"]) \/ Complete(d["bak"])
BackupStandsIn ==
  [][/\ proto = "globalStats" /\ rotates'
     /\ acked > 0 /\ Value(proto, disk, blank) = acked
     => HasCopy(disk')]_vars
=============================================================================
