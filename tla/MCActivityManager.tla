------------------------- MODULE MCActivityManager -------------------------
(***************************************************************************)
(* ActivityManager for TLC.  The .cfg files give the kinds of activities as *)
(* sets of model values: each run has the kinds its question is about.      *)
(***************************************************************************)
EXTENDS ActivityManager

(* What comments and documents promise and the runs refute.                 *)

\* The book in front counts as shown, and takes a remote's page turns, only
\* once its own frame has been painted on this visit.
ShownReaderIsPainted ==
  pc = "input" /\ pendingAction = "none" /\ current \in Readers /\ visitPainted
    => seenNow

\* Deep sleep begins with the sleep screen up and every other screen exited.
SleepScreenUp == pc = "asleep" => current \in SleepScreens

=============================================================================
