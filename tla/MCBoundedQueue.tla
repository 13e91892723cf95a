--------------------------- MODULE MCBoundedQueue ---------------------------
(***************************************************************************)
(* An instance of BoundedQueue for TLC.  Both producers find the queue full *)
(* and sleep at once, as the two consumers do when it is empty, and one     *)
(* notification reaches only one of them.                                   *)
(***************************************************************************)
EXTENDS BoundedQueue

CONSTANTS p1, t1, c1, c2, k1

\* Two items of p1 fill the queue; then its third push and that of t1 both sleep.
Calls == [p \in Producers |-> IF p \in Timed THEN 1 ELSE 3]
=============================================================================
