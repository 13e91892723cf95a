------------------------------ MODULE MCVideoOut ------------------------------
(***************************************************************************)
(* Inputs whose frames change under way: planes to repack and a size that   *)
(* comes back; a range that changes and a size that changes behind a filter *)
(* with a delay; surfaces of the GPU, sent directly, filtered there, or     *)
(* downloaded in the format their device prefers.                           *)
(***************************************************************************)
EXTENDS VideoOut

Small == [w |-> 2, h |-> 2, format |-> "i420", pixels |-> "i420", full |-> FALSE,
          matrix |-> "unspecified", hw |-> "none", packed |-> FALSE]
Large == [Small EXCEPT !.w = 129, !.h = 3]
FullRange == [Small EXCEPT !.full = TRUE]
Hd == [Small EXCEPT !.h = 4]
Ready422 == [Small EXCEPT !.format = "uyvy", !.pixels = "uyvy", !.packed = TRUE]
Surface == [Small EXCEPT !.format = "nv12", !.hw = "a"]
OtherSurface == [Surface EXCEPT !.hw = "b", !.pixels = "nv12"]

Played(frames, filter, delay, output) ==
    [frames |-> frames, filter |-> filter, delay |-> delay, output |-> output]

Changing == {Played(<<Small, Large, Large, Small, Small>>, "none", 0, "auto"),
             Played(<<Small, FullRange, Small, Hd, Hd>>, "none", 0, "nv12"),
             Played(<<Large, FullRange, Ready422, Large>>, "none", 0, "bgra"),
             Played(<<Small, FullRange, Large, Large, Small>>, "system", 1, "uyvy"),
             Played(<<Surface, Surface, Ready422, Surface>>, "none", 0, "auto"),
             Played(<<Surface, Surface, OtherSurface, OtherSurface>>, "gpu", 1, "auto"),
             Played(<<Surface, OtherSurface, Surface>>, "none", 0, "i420"),
             Played(<<Surface, OtherSurface, Small>>, "system", 2, "i420")}

FullRange422 == {Played(<<Ready422, [Ready422 EXCEPT !.full = TRUE]>>, "none", 0, "auto"),
                 Played(<<FullRange>>, "none", 0, "auto")}
=============================================================================
