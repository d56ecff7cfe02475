---------------------------- MODULE DurableCell ----------------------------
(***************************************************************************)
(* What replacing a file promises its caller: one value that survives the  *)
(* device.  Names, temporary files, backups and power losses do not exist  *)
(* here.  A save that has begun and not reported success may or may not    *)
(* have happened.                                                          *)
(***************************************************************************)
EXTENDS Naturals

VARIABLES
  started,   \* number of the newest save
  saved,     \* number of the newest save that reported success
  shown      \* the version last read

Init == started = 0 /\ saved = 0 /\ shown = 0

Start == started' = started + 1 /\ UNCHANGED <<saved, shown>>

Report == saved' = started /\ UNCHANGED <<started, shown>>

\* A read gives nothing older than the last saved version.
Read == shown' \in saved..started /\ UNCHANGED <<started, saved>>

Next == Start \/ Report \/ Read

Spec == Init /\ [][Next]_<<started, saved, shown>>
=============================================================================
