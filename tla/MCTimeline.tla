------------------------------ MODULE MCTimeline ------------------------------
(***************************************************************************)
(* A thousand units a second, tracks with ticks that do not divide a pass,  *)
(* and passes with priming and padding, packets without a timestamp, blocks *)
(* that overlap a little, entirely or wildly, a change of rate, and nothing. *)
(***************************************************************************)
EXTENDS Timeline

Ticks == [video |-> 10, audio |-> 30]
Durations == [video |-> 3, audio |-> 0]

V(pts) == [stream |-> "video", pts |-> pts, duration |-> 0, discard |-> FALSE,
           samples |-> 0, skip |-> 0, trim |-> 0, rate |-> 30, planar |-> TRUE]
A(pts, samples) == [V(pts) EXCEPT !.stream = "audio", !.duration = samples, !.samples = samples]
Primed(p) == [p EXCEPT !.discard = TRUE]
Padded(p, skip, trim) == [p EXCEPT !.skip = skip, !.trim = trim]
At(p, rate) == [p EXCEPT !.rate = rate]
Fixed(p) == [p EXCEPT !.planar = FALSE]

Plain == <<V(0), A(0, 10), V(3), A(10, 10)>>
Short == <<V(0), A(0, 10)>>
Nothing == <<V(NoTime)>>
FilesTaken ==
    {{Plain, Short, Nothing},
     {<<Primed(A(-5, 5)), Padded(A(0, 10), 3, 0), V(1), Padded(A(10, 10), 0, 4), V(NoTime)>>},
     {<<Fixed(A(0, 10)), Fixed(A(8, 10)), V(0), Fixed(A(NoTime, 3))>>},
     {<<A(0, 10), A(10, 1), A(9, 10), A(0, 4)>>},
     {<<Fixed(A(0, 10)), At(A(10, 8), 60), V(0)>>, Short}}
=============================================================================
