------------------------------- MODULE MCDecode -------------------------------
(* Inputs that begin in the middle of a group of pictures. *)
EXTENDS DecodeLoop

TwoPasses == <<"delta", "key", "delta", "delta", "marker", "delta">>
OnePass == <<"key", "delta", "delta">>
=============================================================================
