------------------------------ MODULE NavStack ------------------------------
(***************************************************************************)
(* What the screen manager promises the rest of the firmware: the user is  *)
(* on one screen, the screens to come back to lie under it in the order    *)
(* they were opened, and nothing but opening, closing and replacing ever   *)
(* changes them.  Tasks, locks, rendering and the deferral of a change to  *)
(* the end of a pass do not exist here.                                    *)
(***************************************************************************)
EXTENDS Naturals, Sequences

CONSTANTS Screens, Homes, Roots

VARIABLE screens   \* the screen in front first

Open == {screens[i] : i \in DOMAIN screens}

Init == \E a \in Roots : screens = <<a>>

\* A screen opened from the one in front goes on top of it.
Push == \E a \in Screens \ Open : screens' = <<a>> \o screens

\* Closing the screen in front uncovers the one below it.
Pop == Len(screens) > 1 /\ screens' = Tail(screens)

\* Closing the only screen leads Home.
CloseLast == Len(screens) = 1 /\ screens' = <<>>
GoHome == screens = <<>> /\ \E h \in Homes : screens' = <<h>>

\* Going elsewhere drops every screen.
Replace == \E a \in Screens \ Open : screens # <<>> /\ screens' = <<a>>

\* A restart of the device begins anew.
Restart == \E a \in Roots : screens' = <<a>>

Next == Push \/ Pop \/ CloseLast \/ GoHome \/ Replace \/ Restart

Spec == Init /\ [][Next]_screens
=============================================================================
