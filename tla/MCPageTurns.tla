---------------------------- MODULE MCPageTurns ----------------------------
(***************************************************************************)
(* What documents and comments promise of PageTurns and the runs refute.   *)
(***************************************************************************)
EXTENDS PageTurns

\* A page whose anti-aliasing or images were left out for a turn that was then
\* cancelled is drawn again.
RestIsCrisp == Quiet => panelCrisp

\* A book that was left with a working card opens again at the last page read.
ReopensAtLastPage == left = "kept" /\ panel # NoSpot => progress = panel
=============================================================================
