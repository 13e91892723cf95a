------------------------------ MODULE MCClock ------------------------------
(***************************************************************************)
(* PresentationClock with two presenters and a few instants.  Time passes   *)
(* the timeout of 2 with room to spare.                                    *)
(***************************************************************************)
EXTENDS PresentationClock

CONSTANTS video, audio
Offsets == {0, 5}
Timestamps == {-1, 0, 2}
=============================================================================
