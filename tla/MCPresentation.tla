---------------------------- MODULE MCPresentation ----------------------------
(***************************************************************************)
(* Short inputs: a file with a gap, in every interleaving of the presenters' *)
(* readings, and a live input whose video jumps ahead of its audio, with    *)
(* presenters that lose no time but may be stopped.                         *)
(***************************************************************************)
EXTENDS Presentation

FileWithGap == [pts |-> [video |-> <<0, 1, 5>>, audio |-> <<0, 3>>],
                live |-> FALSE, until |-> 6, urgent |-> FALSE, mayStop |-> FALSE]
JumpingVideo == [pts |-> [video |-> <<0, 12, 13>>, audio |-> <<0, 1>>],
                 live |-> TRUE, until |-> 12, urgent |-> TRUE, mayStop |-> TRUE]

FileAndLive == {FileWithGap, JumpingVideo}
FileAlone == {FileWithGap}
=============================================================================
